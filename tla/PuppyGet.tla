------------------------------- MODULE PuppyGet -------------------------------
(***************************************************************************)
(* puppy-get: the loop over a listing that fetches every matching file     *)
(* and, with -m, removes the source.  Fetches (FileGet) and deletions are  *)
(* exchanges over the same two pipes, and what the listing or a deletion   *)
(* left behind is read by the next fetch.  The user may kill the program   *)
(* at any point and start it again; the recorder may go on writing a file. *)
(*                                                                         *)
(* A request to remove file f (CMD_HDD_DEL) is written as f itself, so     *)
(* that the device knows what to remove; the answers carry no name.        *)
(***************************************************************************)
EXTENDS FileGet

CONSTANTS
  Files,      \* the files of the directory that match the arguments
  Order,      \* the order in which the device lists them
  Recording,  \* the files the recorder may still be writing
  Options,    \* the values "options" may have
  Leftovers,  \* the local files there may be at the start
  MaxRuns     \* bound on the times the program is started

ASSUME PuppyGetAssumption ==
  /\ Order \in Seq(Files)
  /\ Files \cap Requests = {}
  /\ Recording \subseteq Files
  /\ Options \subseteq SUBSET {"move", "noact"}
  /\ Leftovers \subseteq {"absent", "short", "whole", "lookalike"}
  /\ MaxRuns \in Nat

VARIABLES
  step,       \* where main is: "next", "get", "del"; "exit" when not running
  todo,       \* the entries not yet dealt with, the current one first
  options,    \* what the command line asks for
  runs,       \* times the program was started
  local,      \* for each file what the current directory holds under its name
  longer,     \* the file being fetched is longer than the listing says
  remote,     \* the files on the device
  grown,      \* those that are, or were when removed, longer than listed
  spoiled     \* (history) local files that were lookalikes at the start, or
              \* were fetched with a damaged packet

mainVars == <<step, todo, options, runs, local, longer>>
fileVars == <<remote, grown, spoiled>>
allVars  == <<vars, mainVars, fileVars>>

(***************************************************************************)
(* What a local file can be, for all that stat() tells: "whole" and        *)
(* "lookalike" have the size in the listing, and the second not the        *)
(* contents; "newer" and "newerlike" have the size the source has grown    *)
(* to; "short" has any other size.                                         *)
(***************************************************************************)
Copies == {"absent", "short", "whole", "lookalike", "newer", "newerlike"}

SizeAsListed(copy) == copy \in {"whole", "lookalike"}

(* What the destination of a fetch is when it has got as far as dst. *)
Destination ==
  CASE FullSize /\ ~longer -> {IF dst = File THEN "whole" ELSE "lookalike"}
    [] FullSize /\ longer  -> {IF dst = File THEN "newer" ELSE "newerlike"}
    [] ~FullSize /\ ~longer -> {"short"}
    [] OTHER -> {"short", IF \A i \in 1..Len(dst) : dst[i] = i
                          THEN "whole" ELSE "lookalike"}

Moving == "move" \in options /\ "noact" \notin options

PuppyInit ==
  /\ Init
  /\ step = "exit" /\ todo = <<>> /\ options \in Options /\ runs = 0
  /\ local \in [Files -> Leftovers]
  /\ longer = FALSE
  /\ remote = Files /\ grown = {}
  /\ spoiled = {f \in Files : local[f] = "lookalike"}

current == Head(todo)

-----------------------------------------------------------------------------
(***************************************************************************)
(* A run begins: puppy_open resets the device, and puppy_hdd_dir returns   *)
(* the directory or, when it was cut short or refused, the front of it:    *)
(* puppy-get does not ask puppy_status which.  A packet of the listing, a  *)
(* FAIL or the rest of a packet may still be waiting, or come in, after    *)
(* the listing was given up.  What has been decoded of the listing is      *)
(* taken to be undamaged.                                                  *)
(***************************************************************************)
Entries ==
  {s \in UNION {[1..n -> remote] : n \in 0..Len(Order)} :
     \E k \in 0..Len(Order) : s = SelectSeq(SubSeq(Order, 1, k), LAMBDA f : f \in remote)}

LateListing ==
  {<<>>} \cup
    (IF {"late", "read", "damage"} \cap Faults # {}
     THEN {<<Packet(c)>> : c \in {"DATA_HDD_DIR", "DATA_HDD_DIR_END", "FAIL"}}
     ELSE {})

RestOfListing == IF "damage" \in Faults THEN Rests("DATA_HDD_DIR") ELSE {FALSE}

(* A listing is of today's sizes: a local copy of a source that has grown *)
(* since the last one is no longer of the size listed.                    *)
Relisted(f) ==
  IF f \notin grown \cap remote \/ local[f] = "absent" THEN {local[f]}
  ELSE CASE local[f] = "newer" -> {"whole", "short"}
         [] local[f] = "newerlike" -> {"lookalike", "short"}
         [] OTHER -> {"short"}

Start ==
  /\ step = "exit" /\ runs < MaxRuns
  /\ runs' = runs + 1
  /\ todo' \in Entries
  /\ toDev' = <<>> /\ rest' \in RestOfListing /\ toHost' \in LateListing
  /\ dev' = "idle" /\ sent' = 0
  /\ \E relisted \in [Files -> Copies] :
       /\ \A f \in Files : relisted[f] \in Relisted(f)
       /\ local' = relisted
  /\ grown' = grown \ remote
  /\ step' = "next"
  /\ UNCHANGED <<hostVars, options, longer, remote, spoiled>>

(* The user or the system kills the program, which may be started again. *)
Killed ==
  /\ step # "exit"
  /\ IF step = "get"
     THEN \E copy \in Destination : local' = [local EXCEPT ![current] = copy]
     ELSE UNCHANGED local
  /\ spoiled' = IF step = "get" /\ tainted THEN spoiled \cup {current} ELSE spoiled
  /\ step' = "exit" /\ todo' = <<>> /\ pc' = "idle"
  /\ UNCHANGED <<calls, state, dst, torn, modtime, mtime, result, tainted, inSync>>
  /\ UNCHANGED <<pipeVars, devVars, options, runs, longer, remote, grown>>

-----------------------------------------------------------------------------
(***************************************************************************)
(* The body of the loop.  A failed fetch, or one of the wrong size, ends   *)
(* the program; a failed deletion does not.                                *)
(***************************************************************************)
Advance == step' = "next" /\ todo' = Tail(todo)

Exit == step' = "exit" /\ UNCHANGED todo

(* puppy_hdd_del: the request leaves, or is lost. *)
AskRemoval(f) ==
  /\ \E p \in Transmit(f) : toDev' = toDev \o p
  /\ step' = "del"
  /\ UNCHANGED todo

NoMoreEntries ==
  /\ step = "next" /\ todo = <<>>
  /\ Exit
  /\ UNCHANGED <<vars, options, runs, local, longer, fileVars>>

(* Slip: any local file of that name is taken for a transferred one. *)
AlreadyThere ==
  /\ step = "next" /\ todo # <<>>
  /\ local[current] # "absent"
  /\ IF Moving THEN AskRemoval(current) ELSE Advance /\ UNCHANGED toDev
  /\ UNCHANGED <<hostVars, toHost, rest, devVars, options, runs, local, longer, fileVars>>

(* stat() finds a local file of the size listed. *)
AlreadyTransferred ==
  /\ step = "next" /\ todo # <<>>
  /\ SizeAsListed(local[current])
  /\ \/ ~Moving /\ Advance /\ UNCHANGED toDev
     \/ Moving /\ "local" \in Faults /\ Advance /\ UNCHANGED toDev
     \/ Moving /\ AskRemoval(current)
  /\ UNCHANGED <<hostVars, toHost, rest, devVars, options, runs, local, longer, fileVars>>

SkipFetch ==
  /\ step = "next" /\ todo # <<>> /\ "noact" \in options
  /\ ~SizeAsListed(local[current])
  /\ Advance
  /\ UNCHANGED <<vars, options, runs, local, longer, fileVars>>

BeginFetch ==
  /\ step = "next" /\ todo # <<>> /\ "noact" \notin options
  /\ ~SizeAsListed(local[current])
  /\ \/ CallCannotOpen /\ Exit
     \/ (Call \/ CallPathTooLong) /\ step' = "get" /\ UNCHANGED todo
  /\ longer' = (current \in grown)
  /\ UNCHANGED <<options, runs, local, fileVars>>

(* A packet of an old listing is unhandled, and the fetch reads on. *)
FetchSkipsListing ==
  /\ pc = "loop" /\ ~rest
  /\ toHost # <<>> /\ Head(toHost).cmd \in {"DATA_HDD_DIR", "DATA_HDD_DIR_END"}
  /\ toHost' = Tail(toHost)
  /\ rest' \in (IF "damage" \in Faults THEN Rests(Head(toHost).cmd) ELSE {FALSE})
  /\ UNCHANGED <<hostVars, toDev, devVars, mainVars, fileVars>>

Fetch == Host /\ UNCHANGED <<mainVars, fileVars>>

(* Slip: a return of 0 is enough, the size is not looked at. *)
FetchDoneUnmeasured ==
  /\ step = "get" /\ pc = "idle"
  /\ \E copy \in Destination : local' = [local EXCEPT ![current] = copy]
  /\ CASE result # "ok" -> Exit /\ UNCHANGED toDev
       [] result = "ok" /\ Moving -> AskRemoval(current)
       [] OTHER -> Advance /\ UNCHANGED toDev
  /\ spoiled' = IF tainted THEN spoiled \cup {current} ELSE spoiled
  /\ UNCHANGED <<hostVars, toHost, rest, devVars, options, runs, longer, remote, grown>>

(* Slip: a failed fetch is reported, and the loop goes on to the next file. *)
FetchDoneGoesOn ==
  /\ step = "get" /\ pc = "idle"
  /\ \E copy \in Destination :
       /\ local' = [local EXCEPT ![current] = copy]
       /\ IF result = "ok" /\ SizeAsListed(copy) /\ Moving
          THEN AskRemoval(current)
          ELSE Advance /\ UNCHANGED toDev
  /\ spoiled' = IF tainted THEN spoiled \cup {current} ELSE spoiled
  /\ UNCHANGED <<hostVars, toHost, rest, devVars, options, runs, longer, remote, grown>>

(* puppy_hdd_file_get has returned: its result, then the size on disk. *)
FetchDone ==
  /\ step = "get" /\ pc = "idle"
  /\ \E copy \in Destination :
       /\ local' = [local EXCEPT ![current] = copy]
       /\ \/ result # "ok" /\ Exit /\ UNCHANGED toDev
          \/ (~SizeAsListed(copy) \/ "local" \in Faults) /\ Exit /\ UNCHANGED toDev
          \/ /\ result = "ok" /\ SizeAsListed(copy)
             /\ \/ Moving /\ AskRemoval(current)
                \/ (~Moving \/ "local" \in Faults) /\ Advance /\ UNCHANGED toDev
  /\ spoiled' = IF tainted THEN spoiled \cup {current} ELSE spoiled
  /\ UNCHANGED <<hostVars, toHost, rest, devVars, options, runs, longer, remote, grown>>

(* Slip: as long as nothing comes, the read is repeated. *)
RemovalAwaited ==
  /\ step = "del"
  /\ toHost # <<>> /\ toHost' = Tail(toHost)
  /\ Advance
  /\ UNCHANGED <<hostVars, toDev, rest, devVars, options, runs, local, longer, fileVars>>

(***************************************************************************)
(* The answer to the deletion: whatever is next in the pipe, or nothing.   *)
(* SUCCESS and anything else differ in a message only.                     *)
(***************************************************************************)
RemovalAnswered ==
  /\ step = "del"
  /\ \/ /\ rest /\ rest' = FALSE /\ UNCHANGED toHost
        /\ \E a \in {<<>>} \cup EarlyAck("DATA_HDD_FILE_DATA") : toDev' = toDev \o a
     \/ /\ ~rest /\ toHost # <<>>
        /\ toHost' = Tail(toHost)
        /\ rest' \in (IF "damage" \in Faults THEN Rests(Head(toHost).cmd) ELSE {FALSE})
        /\ \E a \in EarlyAck(Head(toHost).cmd) : toDev' = toDev \o a
     \/ ReadMayFail /\ UNCHANGED pipeVars
  /\ Advance
  /\ UNCHANGED <<hostVars, devVars, options, runs, local, longer, fileVars>>

-----------------------------------------------------------------------------
(***************************************************************************)
(* The device.                                                             *)
(***************************************************************************)
Transfer == Device /\ UNCHANGED <<mainVars, fileVars>>

DevRemove ==
  \E f \in Files :
    /\ DevTake(f)
    /\ \/ f \in remote /\ DevSay(Packet("SUCCESS")) /\ remote' = remote \ {f}
       \/ (f \notin remote \/ "refuse" \in Faults) /\ DevSay(Packet("FAIL")) /\ UNCHANGED remote
    /\ dev' = "idle"
    /\ UNCHANGED <<sent, mainVars, grown, spoiled>>

(* A recording goes on.  A fetch under way may or may not come to see it. *)
Record ==
  \E f \in (Recording \cap remote) \ grown :
    /\ grown' = grown \cup {f}
    /\ longer' \in (IF step = "get" /\ f = current /\ pc = "loop"
                    THEN {longer, TRUE} ELSE {longer})
    /\ UNCHANGED <<vars, step, todo, options, runs, local, remote, spoiled>>

-----------------------------------------------------------------------------
Main ==
  \/ NoMoreEntries \/ AlreadyTransferred \/ SkipFetch \/ BeginFetch
  \/ FetchSkipsListing \/ Fetch \/ FetchDone \/ RemovalAnswered

PuppyNext == Start \/ Killed \/ Main \/ Transfer \/ DevRemove \/ Record

PuppySpec == PuppyInit /\ [][PuppyNext]_allVars

(***************************************************************************)
(* As in FileGet; nobody has to start or to kill the program.              *)
(***************************************************************************)
PuppyFairSpec ==
  PuppySpec /\ WF_allVars(Main) /\ WF_allVars(Transfer \/ DevRemove)
-----------------------------------------------------------------------------
(***************************************************************************)
(* Properties.                                                             *)
(***************************************************************************)

(***************************************************************************)
(* Nothing is lost: a file that is gone from the device has a local copy   *)
(* that is identical to what was listed, whatever was late, lost, refused  *)
(* or killed on the way.  Excepted are a file fetched with a damaged       *)
(* packet and one whose local namesake was a lookalike from the start.     *)
(* What the recorder appended after the listing (grown) is not in the      *)
(* copy, and nothing in the loop notices.                                  *)
(***************************************************************************)
NothingLost == \A f \in Files \ (remote \cup spoiled) : local[f] = "whole"

(***************************************************************************)
(* When a fetch begins, no packet of an earlier fetch is under way and the *)
(* device is not in the middle of a file, although nothing was cancelled   *)
(* or drained: what puppy-get leaves in the pipes when it goes on belongs  *)
(* to a listing or a deletion.                                             *)
(***************************************************************************)
TransferPackets == {"DATA_HDD_FILE_START", "DATA_HDD_FILE_DATA", "DATA_HDD_FILE_END"}

NoTransferUnderWay ==
  /\ \A i \in 1..Len(toHost) : toHost[i].cmd \notin TransferPackets
  /\ \A i \in 1..Len(toDev) : toDev[i] # "CMD_HDD_FILE_SEND"
  /\ dev = "idle" \/ sent = N + 1

FetchesStartClean == step = "next" => NoTransferUnderWay

(* Whatever happens on the wire, a run comes to its end. *)
RunEnds == step # "exit" ~> step = "exit"

(***************************************************************************)
(* Sources are removed as FileMove promises.                               *)
(***************************************************************************)
Move == INSTANCE FileMove WITH
  copied <- {f \in Files : local[f] \notin {"absent", "short"}}

FileMoveSpec == Move!MoveSpec

=============================================================================
