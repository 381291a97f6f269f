------------------------------- MODULE PuppyDir -------------------------------
(***************************************************************************)
(* puppy-dir, from the first packet of a listing to the last line printed: *)
(* puppy_hdd_dir collects the entries in a growing buffer (buffer.c) and   *)
(* returns a copy of it with a terminator, main counts the entries of the  *)
(* copy, sorts them and prints those that match.  The exchange of packets  *)
(* behind it is in Commands: here a listing is what arrived of it.         *)
(***************************************************************************)
EXTENDS DirSort, FiniteSets

Dates == INSTANCE Mjd

CONSTANTS
  Listings,   \* what may arrive, with the options given: [listing, field, glob]
  InitEls     \* the a_els that puppy_hdd_dir gives to buffer_init

MJDs == 0..65535   \* 16 bits

(* An entry as it arrives.  A property tells it by the title and the number *)
(* that its name is made of.                                                *)
Entry ==
  [name : Seq(Nat), title : Seq(Nat), number : Nat, mjd : MJDs, size : Nat]

ASSUME PuppyDirAssumption ==
  /\ InitEls \in Nat
  /\ Listings \subseteq [listing : Seq(Entry), field : Fields, glob : SUBSET Seq(Nat)]

(***************************************************************************)
(* How the recorder makes a name: of a title and an extension, with a      *)
(* number or a recording's times between them; or of a title alone, for a  *)
(* folder.  Every name can be made in one of these ways.                   *)
(***************************************************************************)
Extended(e, stem) ==
  \E dot \in (stem + 1)..Len(e.name) :
    LET between == (stem + 2)..(dot - 1)
        extension == (dot + 1)..Len(e.name)
    IN /\ e.name[dot] = Dot /\ \A i \in extension : e.name[i] # Dot
       /\ \/ dot = stem + 1 /\ e.number = 0
          \/ /\ dot > stem + 1 /\ e.name[stem + 1] = Dash
             /\ \A i \in between : e.name[i] \in Digits
             /\ \A i \in extension : e.name[i] # Dash
             /\ e.number = Decimal(SubSeq(e.name, stem + 2, dot - 1))
          \/ /\ dot > stem + 1 /\ e.name[stem + 1] = Plus
             /\ \A i \in between \cup extension : e.name[i] # Plus
             /\ e.number = 0

MadeOf(e) ==
  LET stem == Len(e.title)
  IN /\ e.name # <<>> /\ stem <= Len(e.name)
     /\ \A i \in 1..stem : e.name[i] = e.title[i]
     /\ \/ stem = Len(e.name) /\ e.number = 0 /\ \A i \in 1..stem : e.title[i] # Dot
        \/ Extended(e, stem)

(* The names of a folder's entries are names, and different ones. *)
ASSUME NamesAssumption ==
  \A l \in Listings :
    /\ \A i \in 1..Len(l.listing) : MadeOf(l.listing[i])
    /\ \A i, j \in 1..Len(l.listing) :
         l.listing[i].name = l.listing[j].name => i = j

VARIABLES
  step,       \* "list" and "end" in puppy_hdd_dir; "count", "sort", "print",
              \* "exit" in main; "astray" when it reads past the copy
  incoming,   \* the entries not yet decoded
  options,    \* the sort field, and the names the pattern matches
  memory,     \* what malloc and realloc find in the memory they return
  data,       \* the live allocation of the buffer
  cur_els, allocated_els,
  entries,    \* the copy that puppy_hdd_dir returns
  num_entries,
  shown,      \* the entries that the last loop of main has dealt with
  printed,
  arrived     \* (history) the entries of the listing

bufVars  == <<memory, data, cur_els, allocated_els>>
mainVars == <<options, entries, num_entries, shown, printed>>
vars     == <<step, incoming, bufVars, mainVars, arrived>>

(***************************************************************************)
(* An element of the buffer that nothing has been written to: memory that  *)
(* happens to be zero reads as the empty name.                             *)
(***************************************************************************)
Uninitialised == [name |-> IF memory = "zero" THEN <<>> ELSE <<1>>, time |-> 0, size |-> 0]

Terminator == [name |-> <<>>, time |-> 0, size |-> 0]

Allocated(n) == [i \in 1..n |-> Uninitialised]

(* buffer_init *)
Init ==
  /\ \E l \in Listings :
       /\ incoming = l.listing /\ arrived = l.listing
       /\ options = [field |-> l.field, glob |-> l.glob]
  /\ memory \in {"zero", "junk"}
  /\ cur_els = 0 /\ allocated_els = (IF InitEls < 1 THEN 1 ELSE InitEls)
  /\ data = Allocated(allocated_els)
  /\ step = "list" /\ entries = <<>> /\ num_entries = 0
  /\ shown = 0 /\ printed = <<>>

-----------------------------------------------------------------------------
(* Slip: the allocation grows one element too late. *)
buffer_add_late ==
  /\ cur_els' = cur_els + 1
  /\ allocated_els' = IF cur_els > allocated_els THEN 2 * allocated_els ELSE allocated_els

(* The memory grows before the element is counted. *)
buffer_add ==
  /\ cur_els' = cur_els + 1
  /\ allocated_els' = IF cur_els >= allocated_els THEN 2 * allocated_els ELSE allocated_els

(* What realloc returns: what was there, and memory as it finds it. *)
Realloced ==
  IF allocated_els' = allocated_els THEN data
  ELSE data \o Allocated(allocated_els' - allocated_els)

Decoded(e) == [name |-> e.name, time |-> Dates!tfdt_to_time(e.mjd), size |-> e.size]

(* One turn of the loop in decode_dir. *)
DecodeEntry ==
  /\ step = "list" /\ incoming # <<>>
  /\ buffer_add
  /\ data' = [Realloced EXCEPT ![cur_els'] = Decoded(Head(incoming))]
  /\ incoming' = Tail(incoming)
  /\ UNCHANGED <<step, memory, mainVars, arrived>>

(* The loop in puppy_hdd_dir ends, because the listing does or fails, and *)
(* room is made for the terminator.                                       *)
AddTerminator ==
  /\ step = "list" /\ incoming = <<>>
  /\ buffer_add
  /\ data' = Realloced
  /\ step' = "end"
  /\ UNCHANGED <<incoming, memory, mainVars, arrived>>

(* The values are duplicated first; the terminator is then written to the *)
(* buffer, which is freed.                                                *)
DupValues ==
  /\ step = "end"
  /\ entries' = SubSeq(data, 1, cur_els)
  /\ data' = [data EXCEPT ![cur_els] = Terminator]
  /\ step' = "count"
  /\ UNCHANGED <<incoming, memory, cur_els, allocated_els, arrived>>
  /\ UNCHANGED <<options, num_entries, shown, printed>>

-----------------------------------------------------------------------------
Named(i) == entries[i].name # <<>>

(* The loop in main runs up to the first empty name, in the copy or not. *)
Count ==
  /\ step = "count"
  /\ \/ /\ \E n \in 0..(Len(entries) - 1) :
             /\ \A i \in 1..n : Named(i)
             /\ ~Named(n + 1)
             /\ num_entries' = n
        /\ step' = "sort"
     \/ /\ \A i \in 1..Len(entries) : Named(i)
        /\ step' = "astray"
        /\ UNCHANGED num_entries
  /\ UNCHANGED <<incoming, bufVars, options, entries, shown, printed, arrived>>

Sort ==
  /\ step = "sort"
  /\ \E s \in sort_dir_entries(SubSeq(entries, 1, num_entries), options.field) :
       entries' = s \o SubSeq(entries, num_entries + 1, Len(entries))
  /\ step' = "print"
  /\ UNCHANGED <<incoming, bufVars, options, num_entries, shown, printed, arrived>>

(* The last loop prints an entry if its name matches. *)
PrintEntry ==
  /\ step = "print" /\ shown < num_entries
  /\ shown' = shown + 1
  /\ printed' = IF entries[shown'].name \in options.glob
                THEN Append(printed, entries[shown'])
                ELSE printed
  /\ UNCHANGED <<step, incoming, bufVars, options, entries, num_entries, arrived>>

PrintDone ==
  /\ step = "print" /\ shown = num_entries
  /\ step' = "exit"
  /\ UNCHANGED <<incoming, bufVars, mainVars, arrived>>

Next ==
  DecodeEntry \/ AddTerminator \/ DupValues \/ Count \/ Sort \/ PrintEntry \/ PrintDone

Spec == Init /\ [][Next]_vars

-----------------------------------------------------------------------------
(***************************************************************************)
(* Properties.                                                             *)
(***************************************************************************)

(***************************************************************************)
(* The elements counted have room in the live allocation and are the       *)
(* entries decoded so far, in the order in which they came, however often  *)
(* the memory has moved; the copy has one element more than were listed.   *)
(***************************************************************************)
Collected == SubSeq(arrived, 1, Len(arrived) - Len(incoming))

BufferHolds ==
  /\ cur_els <= allocated_els /\ Len(data) = allocated_els
  /\ step = "list" => cur_els = Len(Collected)
  /\ \A i \in 1..Len(Collected) :
       data[i].name = arrived[i].name /\ data[i].size = arrived[i].size
  /\ step \notin {"list", "end"} => Len(entries) = Len(arrived) + 1

(***************************************************************************)
(* An entry's time is the day the device had for it (MJD 15020 is          *)
(* 1900-01-01), computed by way of a date of the calendar, and the way     *)
(* back to the device's day leads there: for every day that the 16 bits of *)
(* an MJD can name from 1900-03-01 on.                                     *)
(***************************************************************************)
DatesKept ==
  \A i \in 1..Len(Collected) :
    LET mjd == arrived[i].mjd
        date == Dates!TfdtDate(mjd)
    IN /\ data[i].time = mjd - 15020
       /\ Dates!IsDate(date)
       /\ Dates!TimeToTfdt(date) = mjd

(***************************************************************************)
(* The order the options ask for, told from what the recorder meant by a   *)
(* name: the title and a number.                                           *)
(***************************************************************************)
TitleBefore(a, b) ==
  \/ \E i \in 1..Len(a.title) :
       /\ i <= Len(b.title) /\ a.title[i] < b.title[i]
       /\ \A j \in 1..(i - 1) : a.title[j] = b.title[j]
  \/ Len(a.title) < Len(b.title) /\ IsPrefix(a.title, b.title)

Place(a) == CHOOSE i \in 1..Len(arrived) : arrived[i] = a

Before(a, b) ==
  \/ /\ options.field = "name"
     /\ TitleBefore(a, b) \/ (a.title = b.title /\ a.number < b.number)
  \/ /\ options.field = "name_time"
     /\ TitleBefore(a, b) \/ (a.title = b.title /\ a.mjd < b.mjd)
  \/ options.field = "time" /\ a.mjd < b.mjd
  \/ options.field = "size" /\ a.size < b.size
  \/ options.field = "unsorted" /\ Place(a) < Place(b)

(***************************************************************************)
(* The listings that can be sorted: no title goes on from another one, or  *)
(* has a dash, a plus or a byte beyond ASCII in it, no number is more than *)
(* an int holds, no size is 2 GB larger than another one, no time 68 years *)
(* later.                                                                  *)
(***************************************************************************)
Comparable(a, b) ==
  /\ options.field \in {"name", "name_time"} =>
       /\ IF a.title = b.title
          THEN options.field = "name" \/ 675 * (a.mjd - b.mjd) < Limit
          ELSE ~IsPrefix(a.title, b.title)
       /\ \A k \in 1..Len(a.title) : a.title[k] < 128 /\ a.title[k] \notin {Dash, Plus}
  /\ options.field = "name" => a.number <= IntMax
  /\ options.field = "size" => a.size - b.size < Limit
  /\ options.field = "time" => 675 * (a.mjd - b.mjd) < Limit

Sortable == \A i, j \in 1..Len(arrived) : Comparable(arrived[i], arrived[j])

Origin(e) == CHOOSE a \in {arrived[i] : i \in 1..Len(arrived)} : a.name = e.name

(***************************************************************************)
(* What is printed is every entry that arrived and matches, once each, and *)
(* in the order asked for if the listing can be sorted.  The one way not   *)
(* to get there is a terminator that was never copied reading as a name.   *)
(***************************************************************************)
ListingShown ==
  /\ step = "astray" => memory = "junk"
  /\ step = "exit" =>
       /\ \A e \in {arrived[i] : i \in 1..Len(arrived)} :
            Cardinality({i \in 1..Len(printed) : printed[i].name = e.name})
              = (IF e.name \in options.glob THEN 1 ELSE 0)
       /\ Sortable => \A i, j \in 1..Len(printed) :
            i < j => ~Before(Origin(printed[j]), Origin(printed[i]))

==============================================================================
