----------------------------- MODULE MCPuppyDir -----------------------------
(* The listings the model checker tries. *)
EXTENDS PuppyDir

rec == <<Dot, 114>>

(* The digits of a number below 100. *)
Number(n) == IF n < 10 THEN <<48 + n>> ELSE <<48 + (n \div 10), 48 + (n % 10)>>

(* title.r, title-12.r, title+1-2.r *)
Plain(title, mjd, size) ==
  [name |-> title \o rec, title |-> title, number |-> 0, mjd |-> mjd, size |-> size]

Numbered(title, n, mjd, size) ==
  [name |-> title \o <<Dash>> \o Number(n) \o rec, title |-> title, number |-> n,
   mjd |-> mjd, size |-> size]

Timed(title, mjd, size) ==
  [name |-> title \o <<Plus, 49, Dash, 50>> \o rec, title |-> title, number |-> 0,
   mjd |-> mjd, size |-> size]

Folder(title, mjd) ==
  [name |-> title, title |-> title, number |-> 0, mjd |-> mjd, size |-> 0]

(***************************************************************************)
(* Titles ba, bb and c, two that ba goes on from or that go on from it,    *)
(* one with a dash and one with a byte beyond ASCII; numbers that sort differently as text; sizes 2 GB  *)
(* apart.  For -n, b-9 comes before ba-10, that before bb+1-2, and that    *)
(* before b-9.                                                             *)
(***************************************************************************)
MCEntries ==
  <<Numbered(<<98, 97>>, 10, 50002, 16777216), Numbered(<<98, 97>>, 9, 50004, 3),
    Timed(<<98, 98>>, 50003, 9), Plain(<<98, 98>>, 50001, 20000000),
    Numbered(<<98, 97, 97>>, 4, 50006, 12000000), Folder(<<99>>, 20000),
    Plain(<<98, Dash, 97>>, 50005, 7), Numbered(<<98>>, 9, 50007, 8),
    Plain(<<196>>, 50008, 6)>>

Chosen(places) == SelectSeq(MCEntries, LAMBDA e : \E i \in places : MCEntries[i] = e)

Names == {MCEntries[i].name : i \in 1..Len(MCEntries)}

MCSorting ==
  {[listing |-> Chosen(places), field |-> f, glob |-> g] :
     places \in {p \in SUBSET (1..Len(MCEntries)) : Cardinality(p) <= 4},
     f \in Fields, g \in {Names, {MCEntries[i].name : i \in {1, 2, 3, 5}}}}

(* Every day of the device's calendar, eight to a listing. *)
MCDates ==
  {[listing |-> [i \in 1..8 |-> Numbered(<<97>>, i, 15078 + 8 * n + i, 0)],
    field |-> "unsorted", glob |-> {}] : n \in 0..6306}
  \cup {[listing |-> <<Plain(<<97>>, 65535, 0)>>, field |-> "unsorted", glob |-> {}]}

MCListings == MCSorting \cup MCDates

==============================================================================
