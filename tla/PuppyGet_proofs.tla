---------------------------- MODULE PuppyGet_proofs ----------------------------
(***************************************************************************)
(* Proofs about puppy-get: whatever the link does, however often the       *)
(* program is killed and started again, and for any number of files, a     *)
(* source is removed only after its copy is there, and the copy is the     *)
(* file.  The packets of one fetch are dealt with in FileGet_proofs.       *)
(***************************************************************************)
EXTENDS PuppyGet, FileGet_proofs

-----------------------------------------------------------------------------
(***************************************************************************)
(* A request to remove a file is made, and may be under way for as long as *)
(* it likes, only while the local file has the size listed; and such a     *)
(* local file is neither fetched again nor, once the source is gone,       *)
(* listed with another size.                                               *)
(***************************************************************************)
FilesTypeOK ==
  /\ toDev \in Seq(Requests \cup Files)
  /\ todo \in Seq(Files)
  /\ local \in [Files -> Copies]
  /\ remote \subseteq Files

Places ==
  /\ step \in {"get", "del"} => todo # <<>>
  /\ step = "get" => ~SizeAsListed(local[current])
  /\ step # "get" => pc = "idle"

RemovalsJustified ==
  \A i \in 1..Len(toDev) : toDev[i] \in Files => SizeAsListed(local[toDev[i]])

GoneHaveCopies == \A f \in Files \ remote : SizeAsListed(local[f])

LookalikesSpoiled ==
  \A f \in Files : local[f] \in {"lookalike", "newerlike"} => f \in spoiled

MoveInv ==
  /\ ReuseInv /\ FilesTypeOK
  /\ Places /\ RemovalsJustified /\ GoneHaveCopies /\ LookalikesSpoiled

LEMMA MoveInit == PuppyInit => MoveInv
<1> SUFFICES ASSUME PuppyInit PROVE MoveInv
  OBVIOUS
<1>1. ReuseInv
  BY ReuseInit DEF PuppyInit
<1>2. local \in [Files -> Copies] /\ \A f \in Files : local[f] \in Leftovers
  BY PuppyGetAssumption DEF PuppyInit, Copies
<1>3. LookalikesSpoiled
  <2>1. \A f \in Files : local[f] # "newerlike"
    BY <1>2, PuppyGetAssumption
  <2> QED
    BY <2>1 DEF PuppyInit, LookalikesSpoiled
<1>4. FilesTypeOK /\ Places /\ RemovalsJustified /\ GoneHaveCopies
  BY <1>2
     DEF PuppyInit, Init, FilesTypeOK, Places, RemovalsJustified, GoneHaveCopies
<1> QED
  BY <1>1, <1>3, <1>4 DEF MoveInv

-----------------------------------------------------------------------------
(***************************************************************************)
(* The pipe towards the device.                                            *)
(***************************************************************************)
Grows ==
  /\ local' \in [Files -> Copies]
  /\ \A f \in Files : SizeAsListed(local[f]) => SizeAsListed(local'[f])

LEMMA RequestsAdded ==
  ASSUME MoveInv, Grows,
         NEW t \in Seq(Requests \cup Files), toDev' = toDev \o t,
         \A i \in 1..Len(t) : t[i] \in Files => SizeAsListed(local'[t[i]])
  PROVE  toDev' \in Seq(Requests \cup Files) /\ RemovalsJustified'
<1>1. toDev \in Seq(Requests \cup Files)
  BY DEF MoveInv, FilesTypeOK
<1>2. /\ Len(toDev') = Len(toDev) + Len(t) /\ Len(toDev) \in Nat /\ Len(t) \in Nat
      /\ \A i \in 1..Len(toDev) : toDev'[i] = toDev[i]
      /\ \A i \in 1..Len(t) : toDev'[Len(toDev) + i] = t[i]
  BY <1>1
<1>3. RemovalsJustified'
  <2> SUFFICES ASSUME NEW i \in 1..Len(toDev'), toDev'[i] \in Files
               PROVE  SizeAsListed(local'[toDev'[i]])
    BY DEF RemovalsJustified, SizeAsListed
  <2>1. CASE i \in 1..Len(toDev)
    BY <2>1, <1>2 DEF MoveInv, RemovalsJustified, Grows
  <2>2. CASE i \notin 1..Len(toDev)
    <3>1. i - Len(toDev) \in 1..Len(t) /\ i = Len(toDev) + (i - Len(toDev))
      BY <2>2, <1>2
    <3>2. toDev'[i] = t[i - Len(toDev)]
      BY <3>1, <1>2
    <3> QED
      BY <3>1, <3>2
  <2> QED
    BY <2>1, <2>2
<1> QED
  BY <1>1, <1>3

LEMMA ProtocolAdded ==
  ASSUME MoveInv, Grows, NEW t \in Seq(Requests), toDev' = toDev \o t
  PROVE  toDev' \in Seq(Requests \cup Files) /\ RemovalsJustified'
<1>1. t \in Seq(Requests \cup Files) /\ \A i \in 1..Len(t) : t[i] \notin Files
  BY PuppyGetAssumption
<1> QED
  BY <1>1, RequestsAdded

LEMMA PipeToDeviceKept ==
  ASSUME MoveInv, Grows, UNCHANGED toDev
  PROVE  toDev' \in Seq(Requests \cup Files) /\ RemovalsJustified'
  BY DEF MoveInv, FilesTypeOK, RemovalsJustified, Grows

LEMMA RequestTaken ==
  ASSUME MoveInv, UNCHANGED local, toDev # <<>>, toDev' = Tail(toDev)
  PROVE  toDev' \in Seq(Requests \cup Files) /\ RemovalsJustified'
<1>1. toDev \in Seq(Requests \cup Files)
  BY DEF MoveInv, FilesTypeOK
<1>2. /\ Len(toDev') = Len(toDev) - 1 /\ Len(toDev) \in Nat \ {0}
      /\ \A i \in 1..Len(toDev') : toDev'[i] = toDev[i + 1] /\ i + 1 \in 1..Len(toDev)
  BY <1>1
<1> QED
  BY <1>1, <1>2, HeadTailProperties DEF MoveInv, RemovalsJustified

LEMMA RemovalAsked ==
  ASSUME MoveInv, Grows, NEW f \in Files, AskRemoval(f), SizeAsListed(local'[f])
  PROVE  toDev' \in Seq(Requests \cup Files) /\ RemovalsJustified'
<1>1. PICK t \in Transmit(f) : toDev' = toDev \o t
  BY DEF AskRemoval
<1>2. t = <<f>> \/ t = <<>>
  BY <1>1, Zenon DEF Transmit
<1>3. t \in Seq(Requests \cup Files) /\ \A i \in 1..Len(t) : t[i] = f
  <2>1. CASE t = <<f>>
    BY <2>1
  <2>2. CASE t = <<>>
    BY <2>2
  <2> QED
    BY <1>2, <2>1, <2>2
<1> QED
  BY <1>1, <1>3, RequestsAdded

(***************************************************************************)
(* What a fetch makes of the local file: it is right unless a packet was   *)
(* damaged, however far the fetch came.                                    *)
(***************************************************************************)
LEMMA DestinationIsSource ==
  ASSUME ReuseInv, NEW copy \in Destination
  PROVE  /\ copy \in Copies \ {"absent"}
         /\ copy \in {"lookalike", "newerlike"} => tainted
<1>1. copy \in Copies \ {"absent"}
  BY DEF Destination, Copies
<1>2. ASSUME ~tainted PROVE copy \notin {"lookalike", "newerlike"}
  <2>1. dst \in Seq(0..N) /\ \A i \in 1..Len(dst) : dst[i] = i
    BY <1>2 DEF ReuseInv, StreamTypeOK, Prefix
  <2>2. FullSize => dst = File
    <3> SUFFICES ASSUME FullSize PROVE dst = File
      OBVIOUS
    <3>1. Len(dst) = N /\ dst = [i \in 1..N |-> dst[i]]
      BY <2>1 DEF FullSize
    <3> QED
      BY <2>1, <3>1 DEF File
  <2> QED
    BY <2>1, <2>2 DEF Destination
<1> QED
  BY <1>1, <1>2

(***************************************************************************)
(* The steps of FileMove.                                                  *)
(***************************************************************************)
Promised == [Move!MoveNext]_(Move!moveVars)

LEMMA FilesUntouched ==
  ASSUME MoveInv, UNCHANGED <<local, remote, spoiled>>
  PROVE  Grows /\ GoneHaveCopies' /\ LookalikesSpoiled' /\ Promised
  BY DEF MoveInv, FilesTypeOK, Grows, GoneHaveCopies, LookalikesSpoiled, Promised,
         Move!moveVars

(* The local file a fetch was for is looked at, or left as it is. *)
LEMMA FetchMeasured ==
  ASSUME MoveInv, step = "get", UNCHANGED remote,
         NEW copy \in Destination, local' = [local EXCEPT ![current] = copy],
         spoiled' = IF tainted THEN spoiled \cup {current} ELSE spoiled
  PROVE  Grows /\ GoneHaveCopies' /\ LookalikesSpoiled' /\ Promised
<1>1. current \in Files /\ ~SizeAsListed(local[current])
  BY DEF MoveInv, FilesTypeOK, Places, current
<1>2. /\ copy \in Copies
      /\ copy \in {"lookalike", "newerlike"} => tainted
  BY DestinationIsSource DEF MoveInv
<1>3. /\ local \in [Files -> Copies] /\ local' \in [Files -> Copies]
      /\ local'[current] = copy
      /\ \A f \in Files \ {current} : local'[f] = local[f]
  BY <1>1, <1>2 DEF MoveInv, FilesTypeOK
<1>4. current \in remote
  BY <1>1 DEF MoveInv, GoneHaveCopies
<1>5. Grows
  BY <1>1, <1>3 DEF Grows
<1>6. GoneHaveCopies'
  BY <1>3, <1>4 DEF MoveInv, GoneHaveCopies
<1>7. LookalikesSpoiled'
  <2>1. spoiled \subseteq spoiled' /\ (tainted => current \in spoiled')
    OBVIOUS
  <2> QED
    BY <1>2, <1>3, <2>1 DEF MoveInv, LookalikesSpoiled
<1>8. Promised
  <2> DEFINE before == {f \in Files : local[f] \notin {"absent", "short"}}
             after  == {f \in Files : local'[f] \notin {"absent", "short"}}
  <2>1. \/ after = before
        \/ after = before \cup {current}
        \/ after = before \ {current}
    BY <1>1, <1>3
  <2>2. CASE after = before
    BY <2>2 DEF Promised, Move!moveVars
  <2>3. CASE after = before \cup {current}
    BY <1>1, <1>4, <2>3 DEF Promised, Move!MoveNext, Move!Copy
  <2>4. CASE after = before \ {current}
    <3>1. {current} \in SUBSET Files /\ {current} \subseteq remote
      BY <1>1, <1>4
    <3> QED
      BY <2>4, <3>1 DEF Promised, Move!MoveNext, Move!Outgrow
  <2> QED
    BY <2>1, <2>2, <2>3, <2>4
<1> QED
  BY <1>5, <1>6, <1>7, <1>8

-----------------------------------------------------------------------------
(***************************************************************************)
(* A run begins.                                                           *)
(***************************************************************************)
LEMMA AfterStart ==
  ASSUME MoveInv, Start
  PROVE  MoveInv' /\ Promised
<1>1. /\ step = "exit" /\ step' = "next" /\ toDev' = <<>> /\ toHost' \in LateListing
      /\ dev' = "idle" /\ sent' = 0 /\ todo' \in Entries
      /\ UNCHANGED <<hostVars, remote, spoiled>>
  BY DEF Start
<1>2. pc = "idle"
  BY <1>1 DEF MoveInv, Places
<1>3. PICK relisted \in [Files -> Copies] :
        /\ \A f \in Files : relisted[f] \in Relisted(f)
        /\ local' = relisted
  BY DEF Start
<1>4. ReuseInv'
  <2>1. toHost' = <<>> \/ \E c \in AnyCommands : toHost' = <<Packet(c)>>
    BY <1>1, Zenon DEF LateListing, AnyCommands, Commands
  <2>2. toHost' \in Seq(AnyPackets) /\ Len(toHost') \in 0..1
    <3>1. CASE toHost' = <<>>
      BY <3>1
    <3>2. ASSUME NEW c \in AnyCommands, toHost' = <<Packet(c)>>
          PROVE  toHost' \in Seq(AnyPackets) /\ Len(toHost') \in 0..1
      BY <3>2, AnswersArePackets
    <3> QED
      BY <2>1, <3>1, <3>2
  <2>3. StreamTypeOK'
    BY <1>1, <2>2, FileGetAssumption DEF MoveInv, ReuseInv, StreamTypeOK, hostVars
  <2>4. Chained' /\ LastSent'
    BY <1>1, <2>2 DEF Chained, LastSent, Sending
  <2>5. NextRead' /\ Prefix' /\ Fresh'
    BY <1>1, <1>2 DEF MoveInv, ReuseInv, NextRead, Reading, Prefix, Fresh, hostVars
  <2> QED
    BY <2>3, <2>4, <2>5 DEF ReuseInv
<1>5. todo' \in Seq(Files)
  <2>1. PICK n \in 0..Len(Order) : todo' \in [1..n -> remote]
    BY <1>1 DEF Entries
  <2>2. n \in Nat /\ todo' \in [1..n -> Files]
    BY <2>1, PuppyGetAssumption DEF MoveInv, FilesTypeOK
  <2> QED
    BY <2>2
<1>6. \A f \in Files :
        /\ f \notin remote => local'[f] = local[f]
        /\ local'[f] \in {"lookalike", "newerlike"} => local[f] \in {"lookalike", "newerlike"}
        /\ local[f] \in {"absent", "short"} => local'[f] \in {"absent", "short"}
  <2> SUFFICES ASSUME NEW f \in Files
               PROVE  /\ f \notin remote => local'[f] = local[f]
                      /\ local'[f] \in {"lookalike", "newerlike"}
                           => local[f] \in {"lookalike", "newerlike"}
                      /\ local[f] \in {"absent", "short"} => local'[f] \in {"absent", "short"}
    OBVIOUS
  <2>1. local'[f] \in Relisted(f) /\ local[f] \in Copies
    BY <1>3 DEF MoveInv, FilesTypeOK
  <2>2. CASE f \notin grown \cap remote \/ local[f] = "absent"
    <3>1. Relisted(f) = {local[f]}
      BY <2>2, Zenon DEF Relisted
    <3> QED
      BY <2>1, <3>1
  <2>3. CASE f \in grown \cap remote /\ local[f] = "newer"
    <3>1. local'[f] \in {"whole", "short"}
      BY <2>1, <2>3, Zenon DEF Relisted
    <3> QED
      BY <2>3, <3>1
  <2>4. CASE f \in grown \cap remote /\ local[f] = "newerlike"
    <3>1. local'[f] \in {"lookalike", "short"}
      BY <2>1, <2>4, Zenon DEF Relisted
    <3> QED
      BY <2>4, <3>1
  <2>5. CASE f \in grown \cap remote /\ local[f] \notin {"absent", "newer", "newerlike"}
    <3>1. local'[f] = "short"
      BY <2>1, <2>5, Zenon DEF Relisted
    <3> QED
      BY <2>5, <3>1
  <2> QED
    BY <2>2, <2>3, <2>4, <2>5
<1>7. FilesTypeOK' /\ Places' /\ RemovalsJustified'
  BY <1>1, <1>2, <1>3, <1>5
     DEF MoveInv, FilesTypeOK, Places, RemovalsJustified, hostVars
<1>8. GoneHaveCopies' /\ LookalikesSpoiled'
  BY <1>1, <1>6 DEF MoveInv, GoneHaveCopies, LookalikesSpoiled
<1>9. Promised
  <2> DEFINE before == {f \in Files : local[f] \notin {"absent", "short"}}
             after  == {f \in Files : local'[f] \notin {"absent", "short"}}
  <2>1. before \ after \in SUBSET Files /\ before \ after \subseteq remote
    BY <1>6
  <2>2. after = before \ (before \ after)
    BY <1>6
  <2> QED
    BY <1>1, <2>1, <2>2 DEF Promised, Move!MoveNext, Move!Outgrow
<1> QED
  BY <1>4, <1>7, <1>8, <1>9 DEF MoveInv

(* Everything puppy-get knows of the pipe from the device is as it was. *)
LEMMA StreamUntouched ==
  ASSUME MoveInv, UNCHANGED <<toHost, dst, tainted, dev, sent>>,
         pc' = "idle" \/ UNCHANGED <<pc, state>>
  PROVE  ReuseInv'
  BY DEF MoveInv, ReuseInv, StreamTypeOK, Chained, LastSent, NextRead, Prefix, Fresh,
         Sending, Reading, Follows

(* The first packet is read by somebody who stores nothing. *)
LEMMA StreamRead ==
  ASSUME MoveInv, toHost # <<>>, toHost' = Tail(toHost), UNCHANGED <<hostVars, devVars>>,
         pc = "idle" \/ Head(toHost).cmd \notin PartOfFile
  PROVE  ReuseInv'
<1>1. /\ toHost' \in Seq(AnyPackets) /\ Chained' /\ LastSent'
      /\ toHost' # <<>> => Follows(Head(toHost), Head(toHost'))
      /\ toHost' = <<>> /\ Sending' => Head(toHost).cmd \in PartOfFile
  BY PipeAfterTake DEF MoveInv
<1>2. NextRead'
  BY <1>1 DEF NextRead, Reading, Follows, hostVars
<1> QED
  BY <1>1, <1>2
     DEF MoveInv, ReuseInv, StreamTypeOK, Prefix, Fresh, hostVars, devVars

LEMMA AfterKilled ==
  ASSUME MoveInv, Killed
  PROVE  MoveInv' /\ Promised
<1>1. /\ step # "exit" /\ step' = "exit" /\ todo' = <<>> /\ pc' = "idle"
      /\ UNCHANGED <<state, dst, tainted, toDev, toHost, dev, sent, remote>>
  BY DEF Killed, pipeVars, devVars
<1>2. Grows /\ GoneHaveCopies' /\ LookalikesSpoiled' /\ Promised
  <2>1. CASE step = "get"
    <3>1. PICK copy \in Destination : local' = [local EXCEPT ![current] = copy]
      BY <2>1 DEF Killed
    <3>2. spoiled' = IF tainted THEN spoiled \cup {current} ELSE spoiled
      BY <2>1, Zenon DEF Killed
    <3> QED
      BY <1>1, <2>1, <3>1, <3>2, FetchMeasured
  <2>2. CASE step # "get"
    <3>1. UNCHANGED <<local, spoiled>>
      BY <2>2 DEF Killed
    <3> QED
      BY <1>1, <3>1, FilesUntouched
  <2> QED
    BY <2>1, <2>2
<1>3. ReuseInv'
  BY <1>1, StreamUntouched
<1>4. FilesTypeOK' /\ RemovalsJustified'
  BY <1>1, <1>2, PipeToDeviceKept DEF MoveInv, FilesTypeOK, Grows
<1>5. Places'
  BY <1>1 DEF Places
<1> QED
  BY <1>2, <1>3, <1>4, <1>5 DEF MoveInv

-----------------------------------------------------------------------------
(***************************************************************************)
(* The loop over the listing.                                              *)
(***************************************************************************)
LEMMA TodoTypes ==
  ASSUME MoveInv, todo' = todo \/ (todo # <<>> /\ todo' = Tail(todo))
  PROVE  todo' \in Seq(Files)
  BY HeadTailProperties DEF MoveInv, FilesTypeOK

(* An entry is dealt with without a fetch, and without a request. *)
LEMMA AfterSkip ==
  ASSUME MoveInv, NoMoreEntries \/ SkipFetch
  PROVE  MoveInv' /\ Promised
<1>1. /\ UNCHANGED vars /\ UNCHANGED <<local, remote, spoiled>>
      /\ step = "next" /\ step' \in {"next", "exit"}
      /\ todo' = todo \/ (todo # <<>> /\ todo' = Tail(todo))
  BY DEF NoMoreEntries, SkipFetch, Exit, Advance, fileVars
<1>2. ReuseInv'
  BY <1>1, StreamUntouched DEF vars, hostVars, pipeVars, devVars
<1>3. Grows /\ GoneHaveCopies' /\ LookalikesSpoiled' /\ Promised
  BY <1>1, FilesUntouched
<1>4. FilesTypeOK' /\ RemovalsJustified'
  BY <1>1, <1>3, TodoTypes, PipeToDeviceKept
     DEF MoveInv, FilesTypeOK, Grows, vars, pipeVars
<1>5. Places'
  BY <1>1 DEF MoveInv, Places, vars, hostVars
<1> QED
  BY <1>2, <1>3, <1>4, <1>5 DEF MoveInv

LEMMA AfterAlreadyTransferred ==
  ASSUME MoveInv, AlreadyTransferred
  PROVE  MoveInv' /\ Promised
<1>1. /\ step = "next" /\ todo # <<>> /\ SizeAsListed(local[current])
      /\ UNCHANGED <<hostVars, toHost, devVars, local, remote, spoiled>>
      /\ (Advance /\ UNCHANGED toDev) \/ AskRemoval(current)
  BY DEF AlreadyTransferred, fileVars
<1>2. ReuseInv'
  BY <1>1, StreamUntouched DEF hostVars, devVars
<1>3. Grows /\ GoneHaveCopies' /\ LookalikesSpoiled' /\ Promised
  BY <1>1, FilesUntouched
<1>4. current \in Files
  BY <1>1 DEF MoveInv, FilesTypeOK, current
<1>5. toDev' \in Seq(Requests \cup Files) /\ RemovalsJustified'
  BY <1>1, <1>3, <1>4, PipeToDeviceKept, RemovalAsked
<1>6. FilesTypeOK' /\ Places'
  <2>1. /\ step' \in {"next", "del"}
        /\ step' = "del" => todo' # <<>>
        /\ todo' = todo \/ todo' = Tail(todo)
    BY <1>1 DEF Advance, AskRemoval
  <2>2. todo' \in Seq(Files)
    BY <1>1, <2>1, TodoTypes
  <2>3. Places'
    BY <1>1, <2>1 DEF MoveInv, Places, hostVars
  <2> QED
    BY <1>1, <1>5, <2>2, <2>3 DEF MoveInv, FilesTypeOK
<1> QED
  BY <1>2, <1>3, <1>5, <1>6 DEF MoveInv

LEMMA AfterBeginFetch ==
  ASSUME MoveInv, BeginFetch
  PROVE  MoveInv' /\ Promised
<1>1. /\ step = "next" /\ todo # <<>> /\ ~SizeAsListed(local[current])
      /\ UNCHANGED <<todo, local, remote, spoiled>>
      /\ \/ CallCannotOpen /\ step' = "exit"
         \/ (Call \/ CallPathTooLong) /\ step' = "get"
  BY DEF BeginFetch, Exit, fileVars
<1>2. ReuseInv'
  BY <1>1, ReuseAfterCall DEF MoveInv
<1>3. Grows /\ GoneHaveCopies' /\ LookalikesSpoiled' /\ Promised
  BY <1>1, FilesUntouched
<1>4. toDev' \in Seq(Requests \cup Files) /\ RemovalsJustified'
  <2>1. CASE UNCHANGED toDev
    BY <1>3, <2>1, PipeToDeviceKept
  <2>2. CASE Call
    <3>1. PICK c \in Transmit("CMD_HDD_FILE_SEND") : toDev' = toDev \o c
      BY <2>2 DEF Call
    <3>2. c \in Seq(Requests)
      BY TransmitType DEF Requests
    <3> QED
      BY <1>3, <3>1, <3>2, ProtocolAdded
  <2> QED
    BY <1>1, <2>1, <2>2 DEF CallCannotOpen, CallPathTooLong, pipeVars
<1>5. Places'
  <2>1. step' = "exit" => pc' = "idle"
    BY <1>1 DEF CallCannotOpen
  <2> QED
    BY <1>1, <2>1 DEF Places, current
<1>6. FilesTypeOK'
  BY <1>1, <1>4 DEF MoveInv, FilesTypeOK
<1> QED
  BY <1>2, <1>3, <1>4, <1>5, <1>6 DEF MoveInv

(* An iteration of the receive loop of puppy_hdd_file_get. *)
LEMMA AfterFetch ==
  ASSUME MoveInv, Fetch
  PROVE  MoveInv' /\ Promised
<1>1. Host /\ UNCHANGED <<step, todo, local, remote, spoiled>> /\ pc = "loop"
  BY RestTaken
     DEF Fetch, mainVars, fileVars, Host, RecvStart, RecvData, RecvDataCannotWrite,
         RecvUnexpected, RecvEnd, RecvFail, RecvSuccess, RecvUnhandled, RecvRunt, ReadFails,
         Receive
<1>2. ReuseInv'
  BY <1>1, ReuseAfterHost DEF MoveInv
<1>3. Grows /\ GoneHaveCopies' /\ LookalikesSpoiled' /\ Promised
  BY <1>1, FilesUntouched
<1>4. toDev' \in Seq(Requests \cup Files) /\ RemovalsJustified'
  <2>1. PICK t \in Seq(Replies) : toDev' = toDev \o t
    BY <1>1, HostAnswers DEF MoveInv, FilesTypeOK, Replies, Requests
  <2>2. t \in Seq(Requests)
    BY DEF Replies, Requests
  <2> QED
    BY <1>3, <2>1, <2>2, ProtocolAdded
<1>5. FilesTypeOK' /\ Places'
  BY <1>1, <1>4 DEF MoveInv, FilesTypeOK, Places, current
<1> QED
  BY <1>2, <1>3, <1>4, <1>5 DEF MoveInv

LEMMA AfterFetchSkipsListing ==
  ASSUME MoveInv, FetchSkipsListing
  PROVE  MoveInv' /\ Promised
<1>1. /\ toHost # <<>> /\ toHost' = Tail(toHost) /\ Head(toHost).cmd \notin PartOfFile
      /\ UNCHANGED <<hostVars, devVars, toDev, step, todo, local, remote, spoiled>>
  BY DEF FetchSkipsListing, PartOfFile, mainVars, fileVars
<1>2. ReuseInv'
  BY <1>1, StreamRead
<1>3. Grows /\ GoneHaveCopies' /\ LookalikesSpoiled' /\ Promised
  BY <1>1, FilesUntouched
<1>4. FilesTypeOK' /\ Places' /\ RemovalsJustified'
  BY <1>1, <1>3, PipeToDeviceKept DEF MoveInv, FilesTypeOK, Places, current, hostVars
<1> QED
  BY <1>2, <1>3, <1>4 DEF MoveInv

(* The fetch has returned; a removal is asked for if the size is as listed. *)
LEMMA AfterFetchDone ==
  ASSUME MoveInv, FetchDone
  PROVE  MoveInv' /\ Promised
<1>1. /\ step = "get" /\ pc = "idle" /\ todo # <<>> /\ current \in Files
      /\ UNCHANGED <<hostVars, toHost, devVars, remote>>
  BY DEF FetchDone, MoveInv, FilesTypeOK, Places, current
<1>2. spoiled' = IF tainted THEN spoiled \cup {current} ELSE spoiled
  BY Zenon DEF FetchDone
<1>3. PICK copy \in Destination :
        /\ local' = [local EXCEPT ![current] = copy]
        /\ \/ (Exit \/ Advance) /\ UNCHANGED toDev
           \/ SizeAsListed(copy) /\ AskRemoval(current)
  BY DEF FetchDone
<1>4. Grows /\ GoneHaveCopies' /\ LookalikesSpoiled' /\ Promised
  BY <1>1, <1>2, <1>3, FetchMeasured
<1>5. ReuseInv'
  BY <1>1, StreamUntouched DEF hostVars, devVars
<1>6. local'[current] = copy
  BY <1>1, <1>3 DEF MoveInv, FilesTypeOK
<1>7. toDev' \in Seq(Requests \cup Files) /\ RemovalsJustified'
  BY <1>1, <1>3, <1>4, <1>6, PipeToDeviceKept, RemovalAsked
<1>8. /\ step' \in {"next", "exit", "del"}
      /\ step' = "del" => todo' # <<>>
      /\ todo' = todo \/ todo' = Tail(todo)
  BY <1>1, <1>3 DEF Exit, Advance, AskRemoval
<1>9. todo' \in Seq(Files)
  BY <1>1, <1>8, TodoTypes
<1>10. Places'
  BY <1>1, <1>8 DEF Places, hostVars
<1> QED
  BY <1>1, <1>4, <1>5, <1>7, <1>9, <1>10 DEF MoveInv, FilesTypeOK, Grows

LEMMA AfterRemovalAnswered ==
  ASSUME MoveInv, RemovalAnswered
  PROVE  MoveInv' /\ Promised
<1>1. /\ step = "del" /\ pc = "idle" /\ todo # <<>> /\ step' = "next" /\ todo' = Tail(todo)
      /\ UNCHANGED <<hostVars, devVars, local, remote, spoiled>>
  BY DEF RemovalAnswered, MoveInv, Places, Advance, fileVars
<1>2. \/ UNCHANGED <<toHost, toDev>>
      \/ /\ UNCHANGED toHost
         /\ \E a \in {<<>>} \cup EarlyAck("DATA_HDD_FILE_DATA") : toDev' = toDev \o a
      \/ /\ toHost # <<>> /\ toHost' = Tail(toHost)
         /\ \E a \in EarlyAck(Head(toHost).cmd) : toDev' = toDev \o a
  BY DEF RemovalAnswered, pipeVars
<1>3. ReuseInv'
  BY <1>1, <1>2, StreamRead, StreamUntouched DEF hostVars, devVars
<1>4. Grows /\ GoneHaveCopies' /\ LookalikesSpoiled' /\ Promised
  BY <1>1, FilesUntouched
<1>5. toDev' \in Seq(Requests \cup Files) /\ RemovalsJustified'
  <2>1. \/ UNCHANGED toDev
        \/ \E a \in {<<>>} \cup EarlyAck("DATA_HDD_FILE_DATA") : toDev' = toDev \o a
        \/ \E a \in EarlyAck(Head(toHost).cmd) : toDev' = toDev \o a
    BY <1>2
  <2>2. \A cmd : {<<>>} \cup EarlyAck(cmd) \subseteq Seq(Requests)
    <3>1. <<>> \in Seq(Requests)
      OBVIOUS
    <3> QED
      BY <3>1, EarlyAckType
  <2> QED
    BY <1>4, <2>1, <2>2, ProtocolAdded, PipeToDeviceKept
<1>6. todo' \in Seq(Files)
  BY <1>1, TodoTypes
<1>7. FilesTypeOK' /\ Places'
  BY <1>1, <1>5, <1>6 DEF MoveInv, FilesTypeOK, Places, hostVars
<1> QED
  BY <1>3, <1>4, <1>5, <1>7 DEF MoveInv

-----------------------------------------------------------------------------
(***************************************************************************)
(* The device and the recorder.                                            *)
(***************************************************************************)
LEMMA AfterTransfer ==
  ASSUME MoveInv, Transfer
  PROVE  MoveInv' /\ Promised
<1>1. /\ Device /\ UNCHANGED <<hostVars, step, todo, local, remote, spoiled>>
      /\ toDev # <<>> /\ toDev' = Tail(toDev)
  BY DEF Transfer, mainVars, fileVars, Device, DevStart, DevNext, DevClose, DevCancel,
         DevRefuse, DevTake
<1>2. ReuseInv'
  BY <1>1, ReuseAfterDevice DEF MoveInv
<1>3. Grows /\ GoneHaveCopies' /\ LookalikesSpoiled' /\ Promised
  BY <1>1, FilesUntouched
<1>4. FilesTypeOK' /\ Places' /\ RemovalsJustified'
  BY <1>1, RequestTaken DEF MoveInv, FilesTypeOK, Places, current, hostVars
<1> QED
  BY <1>2, <1>3, <1>4 DEF MoveInv

LEMMA AfterDevRemove ==
  ASSUME MoveInv, DevRemove
  PROVE  MoveInv' /\ Promised
<1>1. PICK f \in Files :
        /\ DevTake(f)
        /\ \/ DevSay(Packet("SUCCESS")) /\ remote' = remote \ {f}
           \/ DevSay(Packet("FAIL")) /\ UNCHANGED remote
        /\ dev' = "idle"
        /\ UNCHANGED <<sent, step, todo, local, spoiled>>
  BY DEF DevRemove, mainVars
<1>2. /\ toDev # <<>> /\ Head(toDev) = f /\ toDev' = Tail(toDev) /\ UNCHANGED hostVars
      /\ \E c \in {"SUCCESS", "FAIL"} : toHost' = Append(toHost, Packet(c))
  BY <1>1 DEF DevTake, DevSay
<1>3. SizeAsListed(local[f])
  <2>1. 1 \in 1..Len(toDev) /\ toDev[1] = f
    BY <1>2 DEF MoveInv, FilesTypeOK
  <2> QED
    BY <2>1 DEF MoveInv, RemovalsJustified
<1>4. ReuseInv'
  <2>1. PICK c \in {"SUCCESS", "FAIL"} : toHost' = Append(toHost, Packet(c))
    BY <1>2
  <2>2. Packet(c) \in AnyPackets /\ Packet(c).cmd # "DATA_HDD_FILE_DATA" /\ ~Sending'
    BY <1>1, AnswersArePackets DEF AnyCommands, Commands, Sending
  <2>3. toHost' \in Seq(AnyPackets) /\ Chained' /\ LastSent' /\ NextRead'
    BY <1>2, <2>1, <2>2, PipeAfterSend DEF MoveInv
  <2> QED
    BY <1>1, <1>2, <2>3
       DEF MoveInv, ReuseInv, StreamTypeOK, Prefix, Fresh, hostVars
<1>5. GoneHaveCopies' /\ LookalikesSpoiled'
  BY <1>1, <1>3 DEF MoveInv, GoneHaveCopies, LookalikesSpoiled
<1>6. FilesTypeOK' /\ Places' /\ RemovalsJustified'
  BY <1>1, <1>2, RequestTaken DEF MoveInv, FilesTypeOK, Places, current, hostVars
<1>7. Promised
  <2>1. f \in {g \in Files : local[g] \notin {"absent", "short"}}
    BY <1>3 DEF SizeAsListed
  <2> QED
    BY <1>1, <2>1 DEF Promised, Move!MoveNext, Move!Remove, Move!moveVars
<1> QED
  BY <1>4, <1>5, <1>6, <1>7 DEF MoveInv

LEMMA AfterRecord ==
  ASSUME MoveInv, Record
  PROVE  MoveInv' /\ Promised
<1>1. UNCHANGED <<vars, step, todo, local, remote, spoiled>>
  BY DEF Record
<1>2. ReuseInv'
  BY <1>1, StreamUntouched DEF vars, hostVars, pipeVars, devVars
<1>3. Grows /\ GoneHaveCopies' /\ LookalikesSpoiled' /\ Promised
  BY <1>1, FilesUntouched
<1>4. FilesTypeOK' /\ Places' /\ RemovalsJustified'
  BY <1>1, <1>3, PipeToDeviceKept
     DEF MoveInv, FilesTypeOK, Places, current, vars, hostVars, pipeVars
<1> QED
  BY <1>2, <1>3, <1>4 DEF MoveInv

LEMMA MoveStep == MoveInv /\ [PuppyNext]_allVars => MoveInv' /\ Promised
<1> SUFFICES ASSUME MoveInv, [PuppyNext]_allVars PROVE MoveInv' /\ Promised
  OBVIOUS
<1>1. CASE UNCHANGED allVars
  <2>1. UNCHANGED <<vars, step, todo, local, remote, spoiled>>
    BY <1>1 DEF allVars, mainVars, fileVars
  <2>2. ReuseInv'
    BY <2>1, StreamUntouched DEF vars, hostVars, pipeVars, devVars
  <2>3. Grows /\ GoneHaveCopies' /\ LookalikesSpoiled' /\ Promised
    BY <2>1, FilesUntouched
  <2>4. FilesTypeOK' /\ Places' /\ RemovalsJustified'
    BY <2>1, <2>3, PipeToDeviceKept
       DEF MoveInv, FilesTypeOK, Places, current, vars, hostVars, pipeVars
  <2> QED
    BY <2>2, <2>3, <2>4 DEF MoveInv
<1>2. CASE PuppyNext
  BY <1>2, AfterStart, AfterKilled, AfterSkip, AfterAlreadyTransferred, AfterBeginFetch,
     AfterFetch, AfterFetchSkipsListing, AfterFetchDone, AfterRemovalAnswered,
     AfterTransfer, AfterDevRemove, AfterRecord
     DEF PuppyNext, Main
<1> QED
  BY <1>1, <1>2

(***************************************************************************)
(* puppy-get -m removes a source only after the local file has the size    *)
(* listed, and leaves that file alone for as long as the source has not    *)
(* outgrown it: FileMove.                                                  *)
(***************************************************************************)
THEOREM SourcesLeaveCopies == PuppySpec => FileMoveSpec
<1>1. PuppyInit => Move!MoveInit
  BY DEF PuppyInit, Move!MoveInit
<1>2. MoveInv /\ [PuppyNext]_allVars => [Move!MoveNext]_(Move!moveVars)
  BY MoveStep DEF Promised
<1>3. MoveInv /\ [PuppyNext]_allVars => MoveInv'
  BY MoveStep
<1> QED
  BY <1>1, <1>2, <1>3, MoveInit, PTL DEF PuppySpec, FileMoveSpec, Move!MoveSpec

(***************************************************************************)
(* A file that is gone from the device is here as it was listed, whatever  *)
(* was late, lost, damaged elsewhere or killed on the way.                 *)
(***************************************************************************)
THEOREM NothingIsLost == PuppySpec => []NothingLost
<1>1. MoveInv => NothingLost
  <2> SUFFICES ASSUME MoveInv, NEW f \in Files \ (remote \cup spoiled)
               PROVE  local[f] = "whole"
    BY DEF NothingLost
  <2> QED
    BY DEF MoveInv, GoneHaveCopies, LookalikesSpoiled, SizeAsListed
<1>2. MoveInv /\ [PuppyNext]_allVars => MoveInv'
  BY MoveStep
<1> QED
  BY <1>1, <1>2, MoveInit, PTL DEF PuppySpec

-----------------------------------------------------------------------------
(***************************************************************************)
(* One transfer at a time.  A fetch begins when nothing of a transfer is   *)
(* under way, and asks once; the device is idle or through until it sees   *)
(* the request, and END is the last it sends of a file.  So a fetch that   *)
(* has read END leaves nothing either, and one that has not ends the run.  *)
(***************************************************************************)
NoSend == \A i \in 1..Len(toDev) : toDev[i] # "CMD_HDD_FILE_SEND"

NoPackets == \A i \in 1..Len(toHost) : toHost[i].cmd \notin TransferPackets

OneSend ==
  \A i, j \in 1..Len(toDev) :
    toDev[i] = "CMD_HDD_FILE_SEND" /\ toDev[j] = "CMD_HDD_FILE_SEND" => i = j

SendIsFirst == NoSend \/ (NoPackets /\ Closed)

EndIsLast ==
  \A i \in 1..Len(toHost) : toHost[i].cmd = "DATA_HDD_FILE_END" =>
    /\ NoSend /\ Closed
    /\ \A j \in (i + 1)..Len(toHost) : toHost[j].cmd \notin TransferPackets

OneTransfer == OneSend /\ SendIsFirst /\ EndIsLast

Clear == NoSend /\ NoPackets /\ Closed

CleanInv ==
  /\ MoveInv /\ dev \in {"idle", "sending"}
  /\ OneTransfer
  /\ step \in {"next", "del"} => Clear
  /\ step = "get" /\ Returned("ok") => Clear

LEMMA ClearIsNoTransfer == Clear <=> NoTransferUnderWay
  BY DEF Clear, NoTransferUnderWay, NoSend, NoPackets, Closed

LEMMA ClearIsOneTransfer == Clear => OneTransfer
  BY DEF Clear, OneTransfer, OneSend, SendIsFirst, EndIsLast, NoSend, NoPackets, TransferPackets

LEMMA QueueTypes ==
  ASSUME MoveInv
  PROVE  toDev \in Seq(Requests \cup Files) /\ toHost \in Seq(AnyPackets)
  BY DEF MoveInv, FilesTypeOK, ReuseInv, StreamTypeOK

(* Replies and removals change nothing of this, nor does reading a packet. *)
LEMMA NothingAsked ==
  ASSUME MoveInv, NEW t \in Seq(Requests \cup Files), toDev' = toDev \o t,
         \A i \in 1..Len(t) : t[i] # "CMD_HDD_FILE_SEND"
  PROVE  (NoSend => NoSend') /\ (OneSend => OneSend')
<1>1. /\ Len(toDev') = Len(toDev) + Len(t) /\ Len(toDev) \in Nat /\ Len(t) \in Nat
      /\ \A i \in 1..Len(toDev) : toDev'[i] = toDev[i]
      /\ \A i \in 1..Len(t) : toDev'[Len(toDev) + i] = t[i]
  BY QueueTypes
<1>2. ASSUME NEW i \in 1..Len(toDev'), i \notin 1..Len(toDev)
      PROVE  toDev'[i] # "CMD_HDD_FILE_SEND"
  <2>1. i - Len(toDev) \in 1..Len(t) /\ i = Len(toDev) + (i - Len(toDev))
    BY <1>1, <1>2
  <2>2. toDev'[i] = t[i - Len(toDev)]
    BY <1>1, <2>1
  <2> QED
    BY <2>1, <2>2
<1> QED
  BY <1>1, <1>2 DEF NoSend, OneSend

LEMMA RequestGone ==
  ASSUME MoveInv, toDev # <<>>, toDev' = Tail(toDev)
  PROVE  /\ NoSend => NoSend'
         /\ OneSend => OneSend' /\ (Head(toDev) = "CMD_HDD_FILE_SEND" => NoSend')
<1>1. /\ Len(toDev') = Len(toDev) - 1 /\ Len(toDev) \in Nat \ {0} /\ Head(toDev) = toDev[1]
      /\ \A i \in 1..Len(toDev') : toDev'[i] = toDev[i + 1] /\ i + 1 \in 1..Len(toDev)
  BY QueueTypes
<1>2. 1 \in 1..Len(toDev)
  BY <1>1
<1>3. ASSUME OneSend PROVE OneSend'
  <2> SUFFICES ASSUME NEW i \in 1..Len(toDev'), NEW j \in 1..Len(toDev'),
                      toDev'[i] = "CMD_HDD_FILE_SEND", toDev'[j] = "CMD_HDD_FILE_SEND"
               PROVE  i = j
    BY DEF OneSend
  <2>1. i + 1 = j + 1
    BY <1>1, <1>3 DEF OneSend
  <2> QED
    BY <2>1
<1>4. ASSUME OneSend, Head(toDev) = "CMD_HDD_FILE_SEND" PROVE NoSend'
  <2> SUFFICES ASSUME NEW i \in 1..Len(toDev'), toDev'[i] = "CMD_HDD_FILE_SEND" PROVE FALSE
    BY DEF NoSend
  <2>1. i + 1 = 1
    BY <1>1, <1>2, <1>4 DEF OneSend
  <2> QED
    BY <2>1
<1>5. NoSend => NoSend'
  BY <1>1 DEF NoSend
<1> QED
  BY <1>3, <1>4, <1>5

LEMMA PacketGone ==
  ASSUME MoveInv, toHost # <<>>, toHost' = Tail(toHost), NoSend => NoSend', UNCHANGED devVars
  PROVE  /\ NoPackets => NoPackets'
         /\ SendIsFirst => SendIsFirst'
         /\ EndIsLast => EndIsLast'
         /\ EndIsLast /\ Head(toHost).cmd = "DATA_HDD_FILE_END" => Clear'
<1>1. /\ Len(toHost') = Len(toHost) - 1 /\ Len(toHost) \in Nat \ {0} /\ Head(toHost) = toHost[1]
      /\ \A i \in 1..Len(toHost') : toHost'[i] = toHost[i + 1] /\ i + 1 \in 2..Len(toHost)
  BY QueueTypes
<1>2. NoPackets => NoPackets'
  BY <1>1 DEF NoPackets
<1>3. Closed' <=> Closed
  BY DEF Closed, devVars
<1>4. ASSUME EndIsLast PROVE EndIsLast'
  <2> SUFFICES ASSUME NEW i \in 1..Len(toHost'), toHost'[i].cmd = "DATA_HDD_FILE_END"
               PROVE  /\ NoSend' /\ Closed'
                      /\ \A j \in (i + 1)..Len(toHost') : toHost'[j].cmd \notin TransferPackets
    BY DEF EndIsLast, TransferPackets
  <2>1. toHost[i + 1].cmd = "DATA_HDD_FILE_END" /\ i + 1 \in 1..Len(toHost)
    BY <1>1
  <2>2. /\ NoSend /\ Closed
        /\ \A j \in (i + 1 + 1)..Len(toHost) : toHost[j].cmd \notin TransferPackets
    BY <1>4, <2>1 DEF EndIsLast
  <2>3. ASSUME NEW j \in (i + 1)..Len(toHost') PROVE toHost'[j].cmd \notin TransferPackets
    <3>1. j \in 1..Len(toHost') /\ j + 1 \in (i + 1 + 1)..Len(toHost)
      BY <1>1
    <3> QED
      BY <1>1, <2>2, <3>1
  <2> QED
    BY <1>3, <2>2, <2>3
<1>5. ASSUME EndIsLast, Head(toHost).cmd = "DATA_HDD_FILE_END" PROVE Clear'
  <2>1. /\ NoSend /\ Closed
        /\ \A j \in (1 + 1)..Len(toHost) : toHost[j].cmd \notin TransferPackets
    BY <1>1, <1>5 DEF EndIsLast
  <2>2. NoPackets'
    BY <1>1, <2>1 DEF NoPackets
  <2> QED
    BY <1>3, <2>1, <2>2 DEF Clear
<1> QED
  BY <1>2, <1>3, <1>4, <1>5 DEF SendIsFirst

(* The device sends a packet of the file. *)
LEMMA PacketSent ==
  ASSUME MoveInv, NEW p \in AnyPackets, toHost' = Append(toHost, p), NoSend', EndIsLast,
         NoPackets \/ ~Closed,
         p.cmd = "DATA_HDD_FILE_END" => Closed'
  PROVE  SendIsFirst' /\ EndIsLast'
<1>1. /\ Len(toHost') = Len(toHost) + 1 /\ Len(toHost) \in Nat
      /\ \A i \in 1..Len(toHost) : toHost'[i] = toHost[i]
      /\ toHost'[Len(toHost) + 1] = p
  BY QueueTypes
<1>2. \A i \in 1..Len(toHost) : toHost[i].cmd # "DATA_HDD_FILE_END"
  BY DEF EndIsLast, NoPackets, TransferPackets
<1>3. EndIsLast'
  <2> SUFFICES ASSUME NEW i \in 1..Len(toHost'), toHost'[i].cmd = "DATA_HDD_FILE_END"
               PROVE  /\ NoSend' /\ Closed'
                      /\ \A j \in (i + 1)..Len(toHost') : toHost'[j].cmd \notin TransferPackets
    BY DEF EndIsLast, TransferPackets
  <2>1. i = Len(toHost) + 1
    BY <1>1, <1>2
  <2> QED
    BY <1>1, <2>1
<1> QED
  BY <1>3 DEF SendIsFirst

(* The device says something else. *)
LEMMA AnswerSent ==
  ASSUME MoveInv, NEW p \in AnyPackets, toHost' = Append(toHost, p),
         p.cmd \notin TransferPackets, NoSend => NoSend', Closed => Closed'
  PROVE  /\ NoPackets => NoPackets'
         /\ SendIsFirst => SendIsFirst'
         /\ EndIsLast => EndIsLast'
<1>1. /\ Len(toHost') = Len(toHost) + 1 /\ Len(toHost) \in Nat
      /\ \A i \in 1..Len(toHost) : toHost'[i] = toHost[i]
      /\ toHost'[Len(toHost) + 1] = p
  BY QueueTypes
<1>2. \A i \in 1..Len(toHost') : i \in 1..Len(toHost) \/ i = Len(toHost) + 1
  BY <1>1
<1>3. NoPackets => NoPackets'
  BY <1>1, <1>2 DEF NoPackets
<1>4. ASSUME EndIsLast PROVE EndIsLast'
  <2> SUFFICES ASSUME NEW i \in 1..Len(toHost'), toHost'[i].cmd = "DATA_HDD_FILE_END"
               PROVE  /\ NoSend' /\ Closed'
                      /\ \A j \in (i + 1)..Len(toHost') : toHost'[j].cmd \notin TransferPackets
    BY DEF EndIsLast, TransferPackets
  <2>1. i \in 1..Len(toHost) /\ toHost[i].cmd = "DATA_HDD_FILE_END"
    BY <1>1, <1>2 DEF TransferPackets
  <2>2. /\ NoSend /\ Closed
        /\ \A j \in (i + 1)..Len(toHost) : toHost[j].cmd \notin TransferPackets
    BY <1>4, <2>1 DEF EndIsLast
  <2>3. ASSUME NEW j \in (i + 1)..Len(toHost') PROVE toHost'[j].cmd \notin TransferPackets
    <3>1. j \in (i + 1)..Len(toHost) \/ j = Len(toHost) + 1
      BY <1>1
    <3>2. j \in 1..Len(toHost')
      BY <1>1
    <3>3. j \in (i + 1)..Len(toHost) => j \in 1..Len(toHost)
      OBVIOUS
    <3> QED
      BY <1>1, <2>2, <3>1, <3>3
  <2> QED
    BY <2>2, <2>3
<1> QED
  BY <1>3, <1>4 DEF SendIsFirst

(***************************************************************************)
(* The steps, one actor after the other.                                   *)
(***************************************************************************)
LEMMA CleanAfterFetch ==
  ASSUME CleanInv, Host
  PROVE  OneTransfer' /\ (Returned("ok")' => Clear')
<1>1. MoveInv /\ OneTransfer /\ UNCHANGED devVars
  BY HostTakes DEF CleanInv
<1>2. PICK t \in Seq(Replies) : toDev' = toDev \o t
  BY <1>1, HostAnswers, QueueTypes DEF Replies, Requests
<1>3. (NoSend => NoSend') /\ OneSend'
  <2>1. t \in Seq(Requests \cup Files) /\ \A i \in 1..Len(t) : t[i] # "CMD_HDD_FILE_SEND"
    BY DEF Replies, Requests
  <2> QED
    BY <1>1, <1>2, <2>1, NothingAsked DEF OneTransfer
<1>4. SendIsFirst' /\ EndIsLast'
  <2>1. CASE toHost' = toHost
    <3>1. (Closed' <=> Closed) /\ (NoPackets' <=> NoPackets)
      BY <1>1, <2>1 DEF Closed, NoPackets, devVars
    <3>2. SendIsFirst'
      BY <1>1, <1>3, <3>1 DEF OneTransfer, SendIsFirst
    <3>3. EndIsLast'
      BY <1>1, <1>3, <2>1, <3>1 DEF OneTransfer, EndIsLast
    <3> QED
      BY <3>2, <3>3
  <2>2. CASE toHost # <<>> /\ toHost' = Tail(toHost)
    BY <1>1, <1>3, <2>2, PacketGone DEF OneTransfer
  <2> QED
    BY <2>1, <2>2, HostTakes
<1>5. ASSUME pc' = "idle", result' = "ok" PROVE Clear'
  <2>1. toHost # <<>> /\ Head(toHost).cmd = "DATA_HDD_FILE_END" /\ toHost' = Tail(toHost)
    BY <1>5, OnlyEndSucceeds DEF RecvEnd, Receive
  <2> QED
    BY <1>1, <1>3, <2>1, PacketGone DEF OneTransfer
<1> QED
  BY <1>3, <1>4, <1>5 DEF OneTransfer, Returned

LEMMA CleanAfterTransfer ==
  ASSUME CleanInv, Device
  PROVE  OneTransfer' /\ (Clear => Clear') /\ dev' \in {"idle", "sending"}
<1>1. MoveInv /\ OneTransfer /\ toDev # <<>> /\ toDev' = Tail(toDev)
  BY DEF CleanInv, Device, DevStart, DevNext, DevClose, DevCancel, DevRefuse, DevTake
<1>2. /\ NoSend => NoSend'
      /\ OneSend'
      /\ Head(toDev) = "CMD_HDD_FILE_SEND" => NoSend'
  BY <1>1, RequestGone DEF OneTransfer
<1>3. ~NoSend => NoPackets /\ Closed
  BY <1>1 DEF OneTransfer, SendIsFirst
<1>4. Head(toDev) = "CMD_HDD_FILE_SEND" => ~NoSend
  <2>1. 1 \in 1..Len(toDev) /\ Head(toDev) = toDev[1]
    BY <1>1, QueueTypes
  <2> QED
    BY <2>1 DEF NoSend
<1>5. CASE DevStart
  <2> DEFINE p == Packet("DATA_HDD_FILE_START")
  <2>1. p \in AnyPackets /\ p.cmd = "DATA_HDD_FILE_START"
    BY AnswersArePackets DEF AnyCommands, Commands
  <2>2. toHost' = Append(toHost, p) /\ Head(toDev) = "CMD_HDD_FILE_SEND" /\ dev' = "sending"
    BY <1>5 DEF DevStart, DevTake, DevSay
  <2>3. SendIsFirst' /\ EndIsLast'
    BY <1>1, <1>2, <1>3, <1>4, <2>1, <2>2, PacketSent DEF OneTransfer
  <2> QED
    BY <1>2, <1>4, <2>2, <2>3 DEF OneTransfer, Clear
<1>6. CASE DevNext
  <2>1. dev = "sending" /\ sent <= N /\ sent' = sent + 1 /\ dev' = dev /\ sent \in 0..(N + 1)
    BY <1>1, <1>6 DEF DevNext, MoveInv, ReuseInv, StreamTypeOK
  <2>2. ~Closed
    BY <2>1, FileGetAssumption DEF Closed
  <2>3. PICK p \in AnyPackets :
          toHost' = Append(toHost, p) /\ (p.cmd = "DATA_HDD_FILE_END" => Closed')
    <3>1. CASE sent < N
      <4> DEFINE p == [cmd |-> "DATA_HDD_FILE_DATA", blk |-> sent + 1]
      <4>1. p \in AnyPackets /\ p.cmd # "DATA_HDD_FILE_END"
        BY <2>1, <3>1, FileGetAssumption DEF AnyPackets, AnyCommands, Commands
      <4>2. toHost' = Append(toHost, p)
        BY <1>6, <3>1 DEF DevNext, DevSay
      <4> QED
        BY <4>1, <4>2
    <3>2. CASE ~(sent < N)
      <4> DEFINE p == Packet("DATA_HDD_FILE_END")
      <4>1. p \in AnyPackets
        BY AnswersArePackets DEF AnyCommands, Commands
      <4>2. toHost' = Append(toHost, p)
        BY <1>6, <3>2 DEF DevNext, DevSay
      <4>3. Closed'
        BY <2>1, <3>2, FileGetAssumption DEF Closed
      <4> QED
        BY <4>1, <4>2, <4>3
    <3> QED
      BY <3>1, <3>2
  <2>4. NoSend'
    BY <1>2, <1>3, <2>2
  <2>5. SendIsFirst' /\ EndIsLast'
    BY <1>1, <2>2, <2>3, <2>4, PacketSent DEF OneTransfer
  <2> QED
    BY <1>2, <2>1, <2>2, <2>5 DEF OneTransfer, Clear
<1>7. CASE DevClose
  <2>1. UNCHANGED toHost /\ dev' = "idle" /\ Closed'
    BY <1>7 DEF DevClose, Closed
  <2>2. NoPackets' <=> NoPackets
    BY <2>1 DEF NoPackets
  <2>3. SendIsFirst'
    BY <1>2, <1>3, <2>1, <2>2 DEF SendIsFirst
  <2>4. EndIsLast'
    BY <1>1, <1>2, <2>1 DEF OneTransfer, EndIsLast
  <2> QED
    BY <1>2, <2>1, <2>2, <2>3, <2>4 DEF OneTransfer, Clear
<1>8. CASE DevCancel \/ DevRefuse
  <2>1. PICK c \in {"SUCCESS", "FAIL"} : toHost' = Append(toHost, Packet(c))
    BY <1>8 DEF DevCancel, DevRefuse, DevSay
  <2>2. dev' = "idle" /\ Closed'
    BY <1>8 DEF DevCancel, DevRefuse, Closed
  <2>3. Packet(c) \in AnyPackets /\ Packet(c).cmd \notin TransferPackets
    BY AnswersArePackets DEF AnyCommands, Commands, TransferPackets
  <2>4. (NoPackets => NoPackets') /\ SendIsFirst' /\ EndIsLast'
    BY <1>1, <1>2, <2>1, <2>2, <2>3, AnswerSent DEF OneTransfer
  <2> QED
    BY <1>2, <2>2, <2>4 DEF OneTransfer, Clear
<1> QED
  BY <1>5, <1>6, <1>7, <1>8 DEF Device

LEMMA CleanLinkUntouched ==
  ASSUME CleanInv, UNCHANGED <<toDev, toHost, dev, sent>>
  PROVE  OneTransfer' /\ (Clear => Clear') /\ dev' \in {"idle", "sending"}
<1>1. (NoSend' <=> NoSend) /\ (NoPackets' <=> NoPackets) /\ (Closed' <=> Closed)
  BY DEF NoSend, NoPackets, Closed
<1>2. EndIsLast' /\ OneSend'
  BY <1>1 DEF CleanInv, OneTransfer, EndIsLast, OneSend
<1> QED
  BY <1>1, <1>2 DEF CleanInv, OneTransfer, SendIsFirst, Clear

LEMMA CleanAfterRemovalAsked ==
  ASSUME CleanInv, Clear, NEW f \in Files, AskRemoval(f), UNCHANGED <<toHost, dev, sent>>
  PROVE  Clear'
<1>1. PICK t \in Transmit(f) : toDev' = toDev \o t
  BY DEF AskRemoval
<1>2. t = <<f>> \/ t = <<>>
  BY <1>1, Zenon DEF Transmit
<1>3. f # "CMD_HDD_FILE_SEND"
  BY PuppyGetAssumption DEF Requests
<1>4. t \in Seq(Requests \cup Files) /\ \A i \in 1..Len(t) : t[i] # "CMD_HDD_FILE_SEND"
  <2>1. CASE t = <<f>>
    BY <1>3, <2>1
  <2>2. CASE t = <<>>
    BY <2>2
  <2> QED
    BY <1>2, <2>1, <2>2
<1>5. NoSend'
  BY <1>1, <1>4, NothingAsked DEF CleanInv, Clear
<1> QED
  BY <1>5 DEF Clear, NoPackets, Closed

(* The one request of a fetch leaves, or is lost. *)
LEMMA CleanAfterCall ==
  ASSUME CleanInv, Clear, Call
  PROVE  OneTransfer'
<1>1. UNCHANGED <<toHost, dev, sent>>
  BY DEF Call, EnterCall, devVars
<1>2. PICK t \in Transmit("CMD_HDD_FILE_SEND") : toDev' = toDev \o t
  BY DEF Call
<1>3. t = <<"CMD_HDD_FILE_SEND">> \/ t = <<>>
  BY <1>2, Zenon DEF Transmit
<1>4. toDev \in Seq(Requests \cup Files)
  BY QueueTypes DEF CleanInv
<1>5. NoPackets' /\ Closed'
  BY <1>1 DEF Clear, NoPackets, Closed
<1>6. OneSend'
  <2>1. CASE t = <<>>
    <3>1. toDev' = toDev
      BY <1>2, <1>4, <2>1
    <3> QED
      BY <3>1 DEF Clear, NoSend, OneSend
  <2>2. CASE t = <<"CMD_HDD_FILE_SEND">>
    <3>1. /\ Len(toDev') = Len(toDev) + 1 /\ Len(toDev) \in Nat
          /\ \A i \in 1..Len(toDev) : toDev'[i] = toDev[i]
      BY <1>2, <1>4, <2>2
    <3>2. \A i \in 1..Len(toDev') : toDev'[i] = "CMD_HDD_FILE_SEND" => i = Len(toDev) + 1
      BY <3>1 DEF Clear, NoSend
    <3> QED
      BY <3>2 DEF OneSend
  <2> QED
    BY <1>3, <2>1, <2>2
<1>7. EndIsLast'
  BY <1>5 DEF EndIsLast, NoPackets, TransferPackets
<1> QED
  BY <1>5, <1>6, <1>7 DEF OneTransfer, SendIsFirst

(* The rest of a packet may be acknowledged without being one. *)
LEMMA CleanAfterAck ==
  ASSUME CleanInv, UNCHANGED <<toHost, dev, sent>>,
         NEW cmd, \E a \in {<<>>} \cup EarlyAck(cmd) : toDev' = toDev \o a
  PROVE  Clear => Clear'
<1>1. PICK a \in {<<>>} \cup EarlyAck(cmd) : toDev' = toDev \o a
  OBVIOUS
<1>2. a \in Seq(Replies)
  <2>1. <<>> \in Seq(Replies)
    OBVIOUS
  <2> QED
    BY <2>1, ReplyTypes
<1>3. a \in Seq(Requests \cup Files) /\ \A i \in 1..Len(a) : a[i] # "CMD_HDD_FILE_SEND"
  BY <1>2 DEF Replies, Requests
<1>4. NoSend => NoSend'
  BY <1>1, <1>3, NothingAsked DEF CleanInv, OneTransfer
<1> QED
  BY <1>4 DEF Clear, NoPackets, Closed

LEMMA CleanAfterRead ==
  ASSUME CleanInv, toHost # <<>>, toHost' = Tail(toHost), UNCHANGED devVars,
         UNCHANGED toDev \/ \E a \in EarlyAck(Head(toHost).cmd) : toDev' = toDev \o a
  PROVE  OneTransfer' /\ (Clear => Clear')
<1>1. (NoSend => NoSend') /\ OneSend'
  <2>1. CASE UNCHANGED toDev
    BY <2>1 DEF NoSend, OneSend, CleanInv, OneTransfer
  <2>2. ASSUME NEW a \in EarlyAck(Head(toHost).cmd), toDev' = toDev \o a
        PROVE  (NoSend => NoSend') /\ OneSend'
    <3>1. a \in Seq(Replies)
      BY ReplyTypes
    <3>2. a \in Seq(Requests \cup Files) /\ \A i \in 1..Len(a) : a[i] # "CMD_HDD_FILE_SEND"
      BY <3>1 DEF Replies, Requests
    <3> QED
      BY <2>2, <3>2, NothingAsked DEF CleanInv, OneTransfer
  <2> QED
    BY <2>1, <2>2
<1>2. Closed' <=> Closed
  BY DEF Closed, devVars
<1> QED
  BY <1>1, <1>2, PacketGone DEF CleanInv, OneTransfer, Clear

LEMMA CleanAfterStart ==
  ASSUME CleanInv, Start
  PROVE  Clear' /\ dev' = "idle"
<1>1. toDev' = <<>> /\ toHost' \in LateListing /\ dev' = "idle"
  BY DEF Start
<1>2. NoSend' /\ Closed'
  BY <1>1 DEF NoSend, Closed
<1>3. NoPackets'
  <2>1. \/ toHost' = <<>>
        \/ \E c \in {"DATA_HDD_DIR", "DATA_HDD_DIR_END", "FAIL"} : toHost' = <<Packet(c)>>
    BY <1>1, Zenon DEF LateListing
  <2>2. CASE toHost' = <<>>
    BY <2>2 DEF NoPackets
  <2>3. ASSUME NEW c \in {"DATA_HDD_DIR", "DATA_HDD_DIR_END", "FAIL"},
               toHost' = <<Packet(c)>>
        PROVE  NoPackets'
    BY <2>3 DEF NoPackets, Packet, TransferPackets
  <2> QED
    BY <2>1, <2>2, <2>3
<1> QED
  BY <1>1, <1>2, <1>3 DEF Clear

LEMMA CleanAfterDevRemove ==
  ASSUME CleanInv, DevRemove
  PROVE  OneTransfer' /\ (Clear => Clear') /\ dev' = "idle"
<1>1. /\ toDev # <<>> /\ toDev' = Tail(toDev) /\ dev' = "idle" /\ MoveInv
      /\ \E c \in {"SUCCESS", "FAIL"} : toHost' = Append(toHost, Packet(c))
  BY DEF DevRemove, DevTake, DevSay, CleanInv
<1>2. (NoSend => NoSend') /\ OneSend'
  BY <1>1, RequestGone DEF CleanInv, OneTransfer
<1>3. PICK c \in {"SUCCESS", "FAIL"} : toHost' = Append(toHost, Packet(c))
  BY <1>1
<1>4. Packet(c) \in AnyPackets /\ Packet(c).cmd \notin TransferPackets
  BY AnswersArePackets DEF AnyCommands, Commands, TransferPackets
<1>5. Closed'
  BY <1>1 DEF Closed
<1>6. (NoPackets => NoPackets') /\ SendIsFirst' /\ EndIsLast'
  BY <1>1, <1>2, <1>3, <1>4, <1>5, AnswerSent DEF CleanInv, OneTransfer
<1> QED
  BY <1>1, <1>2, <1>5, <1>6 DEF OneTransfer, Clear

LEMMA CleanInit == PuppyInit => CleanInv
<1> SUFFICES ASSUME PuppyInit PROVE CleanInv
  OBVIOUS
<1>1. Clear /\ dev = "idle"
  BY DEF PuppyInit, Init, Clear, NoSend, NoPackets, Closed
<1> QED
  BY <1>1, MoveInit, ClearIsOneTransfer DEF CleanInv

LEMMA CleanStep == CleanInv /\ [PuppyNext]_allVars => CleanInv'
<1> SUFFICES ASSUME CleanInv, [PuppyNext]_allVars PROVE CleanInv'
  OBVIOUS
<1> DEFINE Goal == /\ dev' \in {"idle", "sending"} /\ OneTransfer'
                   /\ step' \in {"next", "del"} => Clear'
                   /\ step' = "get" /\ Returned("ok")' => Clear'
<1> SUFFICES Goal
  BY MoveStep DEF CleanInv
<1>0. Clear' => OneTransfer'
  BY DEF Clear, OneTransfer, OneSend, SendIsFirst, EndIsLast, NoSend, NoPackets,
         TransferPackets
<1>1. CASE UNCHANGED allVars \/ Record \/ NoMoreEntries \/ SkipFetch
  <2>1. /\ UNCHANGED <<toDev, toHost, dev, sent, pc, result>>
        /\ step' = step \/ (step = "next" /\ step' \in {"next", "exit"})
    BY <1>1 DEF allVars, mainVars, fileVars, vars, hostVars, pipeVars, devVars, Record,
                NoMoreEntries, SkipFetch, Exit, Advance
  <2> QED
    BY <2>1, CleanLinkUntouched DEF CleanInv, Returned
<1>2. CASE Start
  <2>1. step' = "next"
    BY <1>2 DEF Start
  <2> QED
    BY <1>0, <1>2, <2>1, CleanAfterStart
<1>3. CASE Killed
  <2>1. step' = "exit" /\ UNCHANGED <<toDev, toHost, dev, sent>>
    BY <1>3 DEF Killed, pipeVars, devVars
  <2> QED
    BY <2>1, CleanLinkUntouched
<1>4. CASE AlreadyTransferred
  <2>1. /\ step = "next" /\ todo # <<>> /\ UNCHANGED <<toHost, dev, sent>>
        /\ \/ UNCHANGED toDev /\ step' = "next"
           \/ AskRemoval(current) /\ step' = "del"
    BY <1>4 DEF AlreadyTransferred, Advance, AskRemoval, devVars
  <2>2. Clear /\ current \in Files
    BY <2>1 DEF CleanInv, MoveInv, FilesTypeOK, current
  <2>3. Clear'
    BY <2>1, <2>2, CleanLinkUntouched, CleanAfterRemovalAsked
  <2> QED
    BY <1>0, <2>1, <2>3 DEF CleanInv
<1>5. CASE BeginFetch
  <2>1. step = "next" /\ Clear /\ UNCHANGED <<dev, sent, toHost>>
    BY <1>5
       DEF BeginFetch, CleanInv, Call, CallPathTooLong, CallCannotOpen, EnterCall, pipeVars,
           devVars
  <2>2. CASE Call
    <3>1. step' = "get" /\ pc' = "loop"
      BY <1>5, <2>2 DEF BeginFetch, Call, CallCannotOpen
    <3> QED
      BY <2>1, <2>2, <3>1, CleanAfterCall DEF CleanInv, Returned
  <2>3. CASE CallCannotOpen \/ CallPathTooLong
    <3>1. UNCHANGED toDev
      BY <2>3 DEF CallCannotOpen, CallPathTooLong, pipeVars
    <3> QED
      BY <1>0, <2>1, <3>1, CleanLinkUntouched
  <2> QED
    BY <1>5, <2>2, <2>3 DEF BeginFetch
<1>6. CASE Fetch
  <2>1. Host /\ UNCHANGED step /\ pc = "loop"
    BY <1>6, RestTaken
       DEF Fetch, mainVars, Host, RecvStart, RecvData, RecvDataCannotWrite, RecvUnexpected,
           RecvEnd, RecvFail, RecvSuccess, RecvUnhandled, RecvRunt, ReadFails, Receive
  <2>2. step = "get" /\ UNCHANGED devVars
    BY <2>1, HostTakes DEF CleanInv, MoveInv, Places
  <2> QED
    BY <2>1, <2>2, CleanAfterFetch DEF CleanInv, devVars
<1>7. CASE FetchSkipsListing
  <2>1. /\ toHost # <<>> /\ toHost' = Tail(toHost) /\ UNCHANGED <<toDev, devVars, step, pc>>
        /\ pc = "loop"
    BY <1>7 DEF FetchSkipsListing, hostVars, mainVars
  <2> QED
    BY <2>1, CleanAfterRead DEF CleanInv, MoveInv, Places, Returned, devVars
<1>8. CASE FetchDone
  <2>1. /\ step = "get" /\ pc = "idle" /\ todo # <<>> /\ UNCHANGED <<toHost, dev, sent>>
        /\ \/ UNCHANGED toDev /\ step' = "exit"
           \/ UNCHANGED toDev /\ step' = "next" /\ result = "ok"
           \/ AskRemoval(current) /\ step' = "del" /\ result = "ok"
    BY <1>8 DEF FetchDone, Exit, Advance, AskRemoval, devVars, CleanInv, MoveInv, Places
  <2>2. current \in Files /\ (result = "ok" => Clear)
    BY <2>1 DEF CleanInv, MoveInv, FilesTypeOK, current, Returned
  <2>3. result = "ok" => Clear' \/ step' = "exit"
    BY <2>1, <2>2, CleanLinkUntouched, CleanAfterRemovalAsked
  <2> QED
    BY <1>0, <2>1, <2>3, CleanLinkUntouched DEF CleanInv
<1>9. CASE RemovalAnswered
  <2>1. /\ step = "del" /\ step' = "next" /\ UNCHANGED devVars
        /\ \/ UNCHANGED <<toDev, toHost>>
           \/ /\ UNCHANGED toHost
              /\ \E a \in {<<>>} \cup EarlyAck("DATA_HDD_FILE_DATA") : toDev' = toDev \o a
           \/ /\ toHost # <<>> /\ toHost' = Tail(toHost)
              /\ \E a \in EarlyAck(Head(toHost).cmd) : toDev' = toDev \o a
    BY <1>9 DEF RemovalAnswered, Advance, pipeVars
  <2>2. Clear'
    BY <2>1, CleanLinkUntouched, CleanAfterAck, CleanAfterRead DEF CleanInv, devVars
  <2> QED
    BY <1>0, <2>1, <2>2 DEF CleanInv, devVars
<1>10. CASE Transfer
  <2>1. Device /\ UNCHANGED <<step, pc, result>>
    BY <1>10 DEF Transfer, mainVars, Device, DevStart, DevNext, DevClose, DevCancel, DevRefuse,
                 DevTake, hostVars
  <2> QED
    BY <2>1, CleanAfterTransfer DEF CleanInv, Returned
<1>11. CASE DevRemove
  <2>1. UNCHANGED <<step, pc, result>>
    BY <1>11 DEF DevRemove, DevTake, mainVars, hostVars
  <2> QED
    BY <1>11, <2>1, CleanAfterDevRemove DEF CleanInv, Returned
<1> QED
  BY <1>1, <1>2, <1>3, <1>4, <1>5, <1>6, <1>7, <1>8, <1>9, <1>10, <1>11 DEF PuppyNext, Main

(***************************************************************************)
(* When a fetch begins nothing of an earlier transfer is under way,        *)
(* although puppy-get drains nothing: it goes on only after an END.        *)
(***************************************************************************)
THEOREM FetchesAreAlone == PuppySpec => []FetchesStartClean
<1>1. CleanInv => FetchesStartClean
  BY ClearIsNoTransfer DEF CleanInv, FetchesStartClean
<1> QED
  BY <1>1, CleanInit, CleanStep, PTL DEF PuppySpec

=============================================================================
