--------------------------- MODULE Commands_proofs ---------------------------
(***************************************************************************)
(* Proofs about Commands, for every set of commands, every length of a     *)
(* listing, every number of calls, every choice of faults and either       *)
(* program.                                                                *)
(***************************************************************************)
EXTENDS Commands, SequenceTheorems, TLAPS

-----------------------------------------------------------------------------
(***************************************************************************)
(* Where a call that began with empty pipes has got to: the one packet     *)
(* under way is its request, its answer or an acknowledgement, unless it   *)
(* was lost.                                                               *)
(***************************************************************************)
Asked(c) == toDev = <<Packet(c, calls, 0)>> /\ toHost = <<>>

Told(c) == toDev = <<>> /\ toHost = <<Packet(c, calls, 0)>>

Lost == toDev = <<>> /\ toHost = <<>>

Answering ==
  pc = "answer" /\ inSync =>
    \/ Asked(cmd)
    \/ Told(Expected(cmd)) /\ calls \in done
    \/ Told("FAIL")
    \/ Lost

Shown ==
  /\ toDev = <<>> /\ toHost = <<Packet("DATA_HDD_DIR", calls, sent)>>
  /\ dev = "listing" /\ serving = calls /\ sent = Len(listing) + 1

Acknowledged ==
  /\ Asked("SUCCESS")
  /\ dev = "listing" /\ serving = calls /\ sent = Len(listing)

Listing ==
  pc = "listing" /\ inSync /\ ~tainted =>
    \/ Asked("CMD_HDD_DIR") /\ listing = <<>>
    \/ Shown
    \/ Acknowledged
    \/ Told("DATA_HDD_DIR_END") /\ Len(listing) = N
    \/ Told("FAIL")
    \/ Lost

(* Which loop the command is waited for in. *)
Waiting ==
  /\ pc = "answer" => cmd # "CMD_HDD_DIR"
  /\ pc = "listing" => cmd = "CMD_HDD_DIR"

InOrder ==
  inSync /\ ~tainted /\ cmd = "CMD_HDD_DIR" =>
    \A i \in 1..Len(listing) : listing[i] = <<calls, i>>

Whole ==
  Returned("ok") /\ inSync /\ ~tainted /\ cmd = "CMD_HDD_DIR" =>
    ((Program = "puppy" \/ ~cut) => Len(listing) = N)

Inv ==
  TypeOK /\ Answering /\ Listing /\ Waiting /\ InOrder /\ Whole /\ OkMeansDone

-----------------------------------------------------------------------------
LEMMA PacketFields ==
  ASSUME NEW c, NEW call, NEW entry
  PROVE  /\ Packet(c, call, entry).cmd = c
         /\ Packet(c, call, entry).call = call
         /\ Packet(c, call, entry).entry = entry
BY DEF Packet

LEMMA TransmitCases ==
  ASSUME NEW p, NEW t \in Transmit(p)
  PROVE  t = <<p>> \/ t = <<>>
BY Zenon DEF Transmit

LEMMA EmptyPlus ==
  ASSUME NEW p, NEW t \in Transmit(p)
  PROVE  <<>> \o t = <<p>> \/ <<>> \o t = <<>>
<1>1. t = <<p>> \/ t = <<>>
  BY TransmitCases
<1> QED
  BY <1>1

LEMMA InvInit == Init => Inv
<1> SUFFICES ASSUME Init PROVE Inv
  OBVIOUS
<1>1. LinkTypeOK /\ HostTypeOK
  BY CommandsAssumption DEF Init, LinkTypeOK, HostTypeOK, AllCmds
<1>2. FlagsTypeOK
  BY Zenon DEF Init, FlagsTypeOK
<1> QED
  BY <1>1, <1>2
  DEF Init, Inv, TypeOK, Answering, Listing, Waiting, InOrder, Whole, OkMeansDone, Returned

-----------------------------------------------------------------------------
(***************************************************************************)
(* Types.                                                                  *)
(***************************************************************************)
LEMMA RequestType ==
  ASSUME NEW c \in AllCmds \cup {"SUCCESS"}, NEW call \in 0..MaxCalls,
         NEW t \in Transmit(Packet(c, call, 0))
  PROVE  t \in Seq(Requests)
<1>1. Packet(c, call, 0) \in Requests
  BY DEF Packet, Requests
<1>2. <<Packet(c, call, 0)>> \in Seq(Requests) /\ <<>> \in Seq(Requests)
  BY <1>1
<1> QED
  BY <1>2, TransmitCases

LEMMA RemainsType == Remains \in Answers
BY CommandsAssumption DEF Remains, Packet, Answers

LEMMA ExpectedType ==
  ASSUME NEW c PROVE Expected(c) \in {"SUCCESS", "DATA_HDD_SIZE"}
BY DEF Expected

LEMMA StepFlags ==
  ASSUME FlagsTypeOK, [Next]_vars
  PROVE  FlagsTypeOK'
<1> USE DEF FlagsTypeOK
<1>1. CASE Call
  BY <1>1, Zenon DEF Call, Enter
<1>2. CASE CallDir
  BY <1>2, Zenon DEF CallDir, Enter
<1>3. CASE CallPathTooLong
  BY <1>3, Zenon DEF CallPathTooLong, Enter
<1>4. CASE ReadStatus
  BY <1>4, Zenon DEF ReadStatus
<1>5. CASE AnswerOK \/ AnswerFail \/ AnswerUnhandled
  BY <1>5, Zenon DEF AnswerOK, AnswerFail, AnswerUnhandled, Take
<1>6. CASE AnswerMissing \/ ListCut
  BY <1>6, Zenon DEF AnswerMissing, ListCut
<1>7. CASE ListData \/ ListEnd \/ ListRefused
  BY <1>7, Zenon DEF ListData, ListEnd, ListRefused, Take
<1>8. CASE ListDamagedData
  BY <1>8, Zenon DEF ListDamagedData
<1>9. CASE Device
  BY <1>9, Zenon
  DEF Device, DevObey, DevList, DevListMore, DevIgnore, DevRefuse, DevTake, hostVars
<1>10. CASE UNCHANGED vars
  BY <1>10, Zenon DEF vars, hostVars
<1> QED
  BY <1>1, <1>2, <1>3, <1>4, <1>5, <1>6, <1>7, <1>8, <1>9, <1>10 DEF Next, Host

LEMMA CallTypes ==
  ASSUME LinkTypeOK, HostTypeOK, Call \/ CallDir \/ CallPathTooLong \/ ReadStatus
  PROVE  LinkTypeOK' /\ HostTypeOK'
<1>0. /\ toDev \in Seq(Requests) /\ calls \in 0..MaxCalls /\ MaxCalls \in Nat
      /\ Cmds \subseteq AllCmds /\ "CMD_HDD_DIR" \in AllCmds
      /\ <<>> \in Seq((0..MaxCalls) \X (0..N))
  BY CommandsAssumption DEF LinkTypeOK, HostTypeOK, AllCmds, PathCmds
<1>a. ASSUME NEW c \in AllCmds, Enter(c)
      PROVE  /\ calls' \in 0..MaxCalls /\ cmd' \in AllCmds
             /\ listing' \in Seq((0..MaxCalls) \X (0..N))
             /\ UNCHANGED <<toHost, dev, serving, sent, done>>
  BY <1>0, <1>a DEF Enter, devVars
<1>b. ASSUME NEW c \in AllCmds, Enter(c), SendCommand(c)
      PROVE  toDev' \in Seq(Requests)
  <2>1. calls + 1 \in 0..MaxCalls
    BY <1>0, <1>b DEF Enter
  <2>2. PICK t \in Transmit(Packet(c, calls + 1, 0)) : toDev' = toDev \o t
    BY <1>b DEF SendCommand
  <2> QED
    BY <1>0, <2>1, <2>2, RequestType
<1>1. CASE Call
  <2>1. PICK c \in Cmds : Enter(c) /\ SendCommand(c)
    BY <1>1 DEF Call
  <2> QED
    BY <1>0, <1>1, <2>1, <1>a, <1>b DEF Call, LinkTypeOK, HostTypeOK
<1>2. CASE CallDir
  BY <1>0, <1>2, <1>a, <1>b DEF CallDir, LinkTypeOK, HostTypeOK
<1>3. CASE CallPathTooLong
  <2>1. PICK c \in Cmds : Enter(c) /\ error' \in {1, error}
    BY <1>3 DEF CallPathTooLong
  <2> QED
    BY <1>0, <1>3, <2>1, <1>a DEF CallPathTooLong, LinkTypeOK, HostTypeOK
<1>4. CASE ReadStatus
  BY <1>4 DEF ReadStatus, LinkTypeOK, HostTypeOK, pipeVars, devVars
<1> QED
  BY <1>1, <1>2, <1>3, <1>4

LEMMA HostTypes ==
  ASSUME LinkTypeOK, HostTypeOK, Host
  PROVE  LinkTypeOK' /\ HostTypeOK'
<1>0. /\ toDev \in Seq(Requests) /\ toHost \in Seq(Answers) /\ calls \in 0..MaxCalls
      /\ listing \in Seq((0..MaxCalls) \X (0..N)) /\ N \in Nat /\ MaxCalls \in Nat
  BY CommandsAssumption DEF LinkTypeOK, HostTypeOK
<1>a. ASSUME toHost # <<>> PROVE Tail(toHost) \in Seq(Answers)
  BY <1>0, <1>a, HeadTailProperties
<1>b. ASSUME NEW t \in Transmit(Packet("SUCCESS", calls, 0)), toDev' = toDev \o t
      PROVE  toDev' \in Seq(Requests)
  <2>1. t \in Seq(Requests)
    BY <1>0, RequestType
  <2> QED
    BY <1>0, <1>b, <2>1
<1>1. CASE AnswerOK \/ AnswerFail \/ AnswerUnhandled
  BY <1>0, <1>1, <1>a
  DEF AnswerOK, AnswerFail, AnswerUnhandled, Take, Return, LinkTypeOK, HostTypeOK, devVars
<1>2. CASE AnswerMissing \/ ListCut
  BY <1>0, <1>2, <1>a DEF AnswerMissing, ListCut, Return, LinkTypeOK, HostTypeOK, devVars
<1>3. CASE ListData
  <2>1. <<Head(toHost).call, Head(toHost).entry>> \in (0..MaxCalls) \X (0..N)
    <3>1. Head(toHost) \in Answers
      BY <1>0, <1>3 DEF ListData, Take
    <3> QED
      BY <3>1 DEF Answers
  <2>2. listing' \in Seq((0..MaxCalls) \X (0..N))
    BY <1>0, <1>3, <2>1 DEF ListData
  <2> QED
    BY <1>0, <1>3, <1>a, <1>b, <2>2 DEF ListData, Take, LinkTypeOK, HostTypeOK, devVars
<1>4. CASE ListDamagedData
  <2>1. <<Remains>> \o Tail(toHost) \in Seq(Answers)
    BY <1>4, <1>a, RemainsType DEF ListDamagedData
  <2>2. listing' \in Seq((0..MaxCalls) \X (0..N))
    BY <1>0, <1>4 DEF ListDamagedData
  <2> QED
    BY <1>0, <1>4, <1>a, <1>b, <2>1, <2>2
    DEF ListDamagedData, LinkTypeOK, HostTypeOK, devVars
<1>5. CASE ListEnd \/ ListRefused
  BY <1>0, <1>5, <1>a DEF ListEnd, ListRefused, Take, Return, LinkTypeOK, HostTypeOK, devVars
<1> QED
  BY <1>1, <1>2, <1>3, <1>4, <1>5 DEF Host

LEMMA DeviceTypes ==
  ASSUME LinkTypeOK, HostTypeOK, Device
  PROVE  LinkTypeOK' /\ HostTypeOK'
<1>0. /\ toDev \in Seq(Requests) /\ toHost \in Seq(Answers) /\ N \in Nat /\ MaxCalls \in Nat
      /\ serving \in 0..MaxCalls
  BY CommandsAssumption DEF LinkTypeOK
<1>1. UNCHANGED hostVars /\ toDev # <<>> /\ toDev' = Tail(toDev)
  BY DEF Device, DevObey, DevList, DevListMore, DevIgnore, DevRefuse, DevTake
<1>2. HostTypeOK'
  BY <1>1 DEF HostTypeOK, hostVars
<1>3. toDev' \in Seq(Requests)
  BY <1>0, <1>1, HeadTailProperties
<1>4. Head(toDev).call \in 0..MaxCalls
  <2>1. Head(toDev) \in Requests
    BY <1>0, <1>1
  <2> QED
    BY <2>1 DEF Requests
<1>a. ASSUME NEW c \in {"SUCCESS", "FAIL", "DATA_HDD_SIZE", "DATA_HDD_DIR", "DATA_HDD_DIR_END"},
             NEW call \in 0..MaxCalls, NEW entry \in 0..N, DevSay(c, call, entry)
      PROVE  toHost' \in Seq(Answers)
  <2>1. Packet(c, call, entry) \in Answers
    BY DEF Packet, Answers
  <2> QED
    BY <1>0, <1>a, <2>1 DEF DevSay
<1>b. ASSUME NEW call \in 0..MaxCalls, NEW i \in 1..(N + 1),
             DevSendEntries(call, i), done' = done
      PROVE  LinkTypeOK'
  <2>1. toHost' \in Seq(Answers)
    BY <1>0, <1>a, <1>b DEF DevSendEntries
  <2> QED
    BY <1>0, <1>3, <1>b, <2>1 DEF DevSendEntries, LinkTypeOK
<1>5. CASE DevObey
  <2>1. toHost' \in Seq(Answers)
    BY <1>0, <1>4, <1>5, <1>a, ExpectedType DEF DevObey
  <2> QED
    BY <1>2, <1>3, <1>4, <1>5, <2>1 DEF DevObey, LinkTypeOK
<1>6. CASE DevList
  BY <1>2, <1>0, <1>4, <1>6, <1>b DEF DevList
<1>7. CASE DevListMore
  <2>1. sent + 1 \in 1..(N + 1)
    BY <1>0, <1>7 DEF DevListMore, LinkTypeOK
  <2> QED
    BY <1>2, <1>0, <1>7, <2>1, <1>b DEF DevListMore
<1>8. CASE DevIgnore
  BY <1>2, <1>3, <1>8 DEF DevIgnore, LinkTypeOK, devVars
<1>9. CASE DevRefuse
  <2>1. toHost' \in Seq(Answers)
    BY <1>0, <1>4, <1>9, <1>a DEF DevRefuse
  <2> QED
    BY <1>2, <1>3, <1>9, <2>1 DEF DevRefuse, LinkTypeOK
<1> QED
  BY <1>2, <1>5, <1>6, <1>7, <1>8, <1>9 DEF Device

LEMMA StepTypes == TypeOK /\ [Next]_vars => TypeOK'
<1> SUFFICES ASSUME TypeOK, [Next]_vars PROVE TypeOK'
  OBVIOUS
<1>1. FlagsTypeOK'
  BY StepFlags DEF TypeOK
<1>2. CASE UNCHANGED vars
  BY <1>1, <1>2
  DEF TypeOK, LinkTypeOK, HostTypeOK, vars, hostVars, pipeVars, devVars
<1> QED
  BY <1>1, <1>2, CallTypes, HostTypes, DeviceTypes DEF TypeOK, Next

(***************************************************************************)
(* Every variable holds what the code can put in it.                       *)
(***************************************************************************)
THEOREM TypeCorrect == Spec => []TypeOK
<1>1. Init => TypeOK
  BY InvInit DEF Inv
<1>2. TypeOK /\ [Next]_vars => TypeOK'
  BY StepTypes
<1> QED
  BY <1>1, <1>2, PTL DEF Spec

-----------------------------------------------------------------------------
(***************************************************************************)
(* The invariant, one lemma per party that takes the step.                 *)
(***************************************************************************)
LEMMA CallKeeps ==
  ASSUME Inv, Call \/ CallDir \/ CallPathTooLong \/ ReadStatus
  PROVE  (Answering /\ Listing /\ Waiting /\ InOrder /\ Whole /\ OkMeansDone)'
<1>0. calls \in Nat
  BY DEF Inv, TypeOK, HostTypeOK
<1>a. ASSUME NEW c, Enter(c), inSync' PROVE toDev = <<>> /\ toHost' = <<>> /\ error = 0
  BY <1>a, Zenon DEF Enter, Quiet
<1>b. ASSUME NEW c, Enter(c), SendCommand(c), inSync'
      PROVE  (Asked(c) \/ Lost)'
  <2>1. PICK t \in Transmit(Packet(c, calls + 1, 0)) : toDev' = toDev \o t
    BY <1>b DEF SendCommand
  <2>2. toDev' = <<Packet(c, calls + 1, 0)>> \/ toDev' = <<>>
    BY <1>a, <1>b, <2>1, EmptyPlus
  <2> QED
    BY <1>a, <1>b, <2>2 DEF Enter, Asked, Lost
<1>c. ASSUME NEW c, Enter(c) PROVE listing' = <<>> /\ cmd' = c
  BY <1>c DEF Enter
<1>1. CASE Call
  <2>1. PICK c \in Cmds \ {"CMD_HDD_DIR"} : Enter(c) /\ SendCommand(c)
    BY <1>1 DEF Call
  <2>2. pc' = "answer" /\ cmd' = c
    BY <1>1, <2>1, <1>c DEF Call
  <2>3. Answering'
    BY <2>1, <2>2, <1>b DEF Answering
  <2> QED
    BY <2>1, <2>2, <2>3, <1>c DEF Listing, Waiting, InOrder, Whole, OkMeansDone, Returned
<1>2. CASE CallDir
  <2>1. Enter("CMD_HDD_DIR") /\ SendCommand("CMD_HDD_DIR")
    BY <1>2 DEF CallDir
  <2>2. pc' = "listing" \/ (error # 0 /\ pc' = "idle")
    BY <1>2, <2>1 DEF CallDir, Enter
  <2>3. cmd' = "CMD_HDD_DIR" /\ listing' = <<>>
    BY <2>1, <1>c
  <2>4. inSync' => pc' = "listing"
    BY <2>1, <2>2, <1>a
  <2>5. Listing'
    BY <2>1, <2>3, <1>b DEF Listing
  <2> QED
    BY <2>2, <2>3, <2>4, <2>5 DEF Answering, Waiting, InOrder, Whole, OkMeansDone, Returned
<1>3. CASE CallPathTooLong
  <2>1. PICK c : Enter(c)
    BY <1>3 DEF CallPathTooLong
  <2>2. pc' = "idle" /\ result' = "eproto" /\ listing' = <<>>
    BY <1>3, <2>1, <1>c DEF CallPathTooLong, Enter
  <2> QED
    BY <2>2 DEF Answering, Listing, Waiting, InOrder, Whole, OkMeansDone, Returned
<1>4. CASE ReadStatus
  BY <1>4
  DEF ReadStatus, Inv, Answering, Listing, Waiting, InOrder, Whole, OkMeansDone, Returned,
      devVars
<1> QED
  BY <1>1, <1>2, <1>3, <1>4

LEMMA AnswerKeeps ==
  ASSUME Inv, AnswerOK \/ AnswerFail \/ AnswerUnhandled \/ AnswerMissing
  PROVE  (Answering /\ Listing /\ Waiting /\ InOrder /\ Whole /\ OkMeansDone)'
<1>1. pc = "answer" /\ pc' = "idle" /\ UNCHANGED <<cmd, calls, inSync, done>>
  BY DEF AnswerOK, AnswerFail, AnswerUnhandled, AnswerMissing, Take, Return, devVars
<1>2. cmd # "CMD_HDD_DIR"
  BY <1>1 DEF Inv, Waiting
<1>3. Answering' /\ Listing' /\ Waiting' /\ InOrder' /\ Whole'
  BY <1>1, <1>2 DEF Answering, Listing, Waiting, InOrder, Whole
<1>4. OkMeansDone'
  <2>1. CASE AnswerOK
    <3>1. toHost # <<>> /\ Head(toHost).cmd = Expected(cmd)
      BY <2>1 DEF AnswerOK, Take
    <3>2. ASSUME Told("FAIL") PROVE FALSE
      <4>1. Head(toHost).cmd = "FAIL"
        BY <3>2, PacketFields DEF Told
      <4> QED
        BY <3>1, <4>1, ExpectedType
    <3>3. inSync => calls \in done
      BY <1>1, <3>1, <3>2 DEF Inv, Answering, Asked, Lost
    <3> QED
      BY <1>1, <3>3 DEF OkMeansDone
  <2>2. CASE AnswerFail \/ AnswerUnhandled \/ AnswerMissing
    <3>1. result' # "ok"
      BY <2>2 DEF AnswerFail, AnswerUnhandled, AnswerMissing, Return
    <3> QED
      BY <3>1 DEF OkMeansDone, Returned
  <2> QED
    BY <2>1, <2>2
<1> QED
  BY <1>3, <1>4

LEMMA ListKeeps ==
  ASSUME Inv, ListData \/ ListDamagedData \/ ListEnd \/ ListRefused \/ ListCut
  PROVE  (Answering /\ Listing /\ Waiting /\ InOrder /\ Whole /\ OkMeansDone)'
<1>0. /\ listing \in Seq((0..MaxCalls) \X (0..N)) /\ N \in Nat /\ sent \in Nat
  BY CommandsAssumption DEF Inv, TypeOK, LinkTypeOK, HostTypeOK
<1>1. /\ pc = "listing" /\ pc' \in {"listing", "idle"}
      /\ UNCHANGED <<cmd, calls, inSync, dev, serving, sent, done>>
  BY DEF ListData, ListDamagedData, ListEnd, ListRefused, ListCut, Take, Return, devVars
<1>2. cmd = "CMD_HDD_DIR"
  BY <1>1 DEF Inv, Waiting
<1>3. Answering' /\ Waiting' /\ OkMeansDone'
  BY <1>1, <1>2 DEF Answering, Waiting, OkMeansDone
<1>a. ASSUME NEW c, Told(c) PROVE Head(toHost).cmd = c
  BY <1>a, PacketFields DEF Told
<1>4. CASE ListData
  <2>0. toHost # <<>> /\ Head(toHost).cmd = "DATA_HDD_DIR" /\ toHost' = Tail(toHost)
    BY <1>4 DEF ListData, Take
  <2>1. pc' = "listing" /\ tainted' = tainted
    BY <1>1, <1>4 DEF ListData
  <2>2. ASSUME inSync, ~tainted PROVE Shown
    <3>1. ~Told("FAIL") /\ ~Told("DATA_HDD_DIR_END")
      BY <2>0, <1>a
    <3>2. ~Asked("CMD_HDD_DIR") /\ ~Acknowledged /\ ~Lost
      BY <2>0 DEF Asked, Acknowledged, Lost
    <3> QED
      BY <1>1, <2>2, <3>1, <3>2 DEF Inv, Listing
  <2>3. ASSUME inSync, ~tainted
        PROVE  /\ listing' = Append(listing, <<calls, sent>>)
               /\ toHost' = <<>> /\ toDev = <<>>
    <3>1. toHost = <<Packet("DATA_HDD_DIR", calls, sent)>> /\ toDev = <<>>
      BY <2>2, <2>3 DEF Shown
    <3>2. Head(toHost) = Packet("DATA_HDD_DIR", calls, sent) /\ Tail(toHost) = <<>>
      BY <3>1
    <3> QED
      BY <1>4, <2>0, <3>1, <3>2, PacketFields DEF ListData
  <2>4. Listing'
    <3>1. SUFFICES ASSUME inSync, ~tainted PROVE (Acknowledged \/ Lost)'
      BY <1>1, <2>1 DEF Listing
    <3>2. PICK t \in Transmit(Packet("SUCCESS", calls, 0)) : toDev' = toDev \o t
      BY <1>4 DEF ListData
    <3>3. toDev' = <<Packet("SUCCESS", calls, 0)>> \/ toDev' = <<>>
      BY <3>1, <3>2, <2>3, EmptyPlus
    <3>4. Len(listing') = Len(listing) + 1
      BY <1>0, <2>3, <3>1
    <3> QED
      BY <1>1, <2>2, <2>3, <3>1, <3>3, <3>4 DEF Acknowledged, Asked, Shown, Lost
  <2>5. InOrder'
    <3>1. SUFFICES ASSUME inSync, ~tainted, NEW i \in 1..Len(listing')
                   PROVE  listing'[i] = <<calls, i>>
      BY <1>1, <2>1 DEF InOrder
    <3>2. Len(listing') = Len(listing) + 1 /\ sent = Len(listing) + 1
      BY <1>0, <2>2, <2>3, <3>1 DEF Shown
    <3>3. CASE i = Len(listing) + 1
      BY <1>0, <2>3, <3>1, <3>2, <3>3
    <3>4. CASE i \in 1..Len(listing)
      <4>1. listing[i] = <<calls, i>>
        BY <1>2, <3>1, <3>4 DEF Inv, InOrder
      <4> QED
        BY <1>0, <2>3, <3>1, <3>4, <4>1
    <3> QED
      BY <1>0, <3>2, <3>3, <3>4
  <2>6. Whole'
    BY <2>1 DEF Whole, Returned
  <2> QED
    BY <1>3, <2>4, <2>5, <2>6
<1>5. CASE ListDamagedData
  BY <1>3, <1>5 DEF ListDamagedData, Listing, InOrder, Whole
<1>6. CASE ListEnd
  <2>1. /\ toHost # <<>> /\ Head(toHost).cmd = "DATA_HDD_DIR_END"
        /\ pc' = "idle" /\ UNCHANGED <<listing, cut, tainted>>
    BY <1>6 DEF ListEnd, Take, Return
  <2>2. ASSUME inSync, ~tainted PROVE Len(listing) = N
    <3>1. ~Told("FAIL")
      BY <2>1, <1>a
    <3>2. ~Asked("CMD_HDD_DIR") /\ ~Acknowledged /\ ~Lost
      BY <2>1 DEF Asked, Acknowledged, Lost
    <3>3. ~Shown
      BY <2>1, PacketFields DEF Shown
    <3> QED
      BY <1>1, <2>2, <3>1, <3>2, <3>3 DEF Inv, Listing
  <2>3. Whole'
    BY <1>1, <2>1, <2>2 DEF Whole
  <2> QED
    BY <1>1, <1>2, <1>3, <2>1, <2>3 DEF Inv, Listing, InOrder
<1>7. CASE ListRefused
  BY <1>1, <1>3, <1>7 DEF ListRefused, Return, Inv, Listing, InOrder, Whole, Returned
<1>8. CASE ListCut
  <2>1. /\ pc' = "idle" /\ cut' /\ (Program = "puppy" => result' # "ok")
        /\ UNCHANGED <<listing, tainted>>
    BY <1>8, Zenon DEF ListCut, Return
  <2>2. Whole'
    BY <2>1 DEF Whole, Returned
  <2> QED
    BY <1>1, <1>3, <2>1, <2>2 DEF Inv, Listing, InOrder
<1> QED
  BY <1>4, <1>5, <1>6, <1>7, <1>8

LEMMA DeviceKeeps ==
  ASSUME Inv, Device
  PROVE  (Answering /\ Listing /\ Waiting /\ InOrder /\ Whole /\ OkMeansDone)'
<1>0. /\ N \in Nat /\ sent \in Nat /\ (dev = "listing" => sent \in 1..N)
      /\ cmd \in AllCmds /\ Len(listing) \in Nat
  <2>1. listing \in Seq((0..MaxCalls) \X (0..N))
    BY DEF Inv, TypeOK, HostTypeOK
  <2> QED
    BY <2>1, CommandsAssumption DEF Inv, TypeOK, LinkTypeOK, HostTypeOK
<1>1. /\ UNCHANGED hostVars /\ toDev # <<>> /\ toDev' = Tail(toDev)
      /\ done \subseteq done'
  BY DEF Device, DevObey, DevList, DevListMore, DevIgnore, DevRefuse, DevTake, devVars
<1>2. Waiting' /\ InOrder' /\ Whole' /\ OkMeansDone'
  BY <1>1 DEF Inv, hostVars, Waiting, InOrder, Whole, OkMeansDone, Returned
<1>a. ASSUME NEW c, Asked(c)
      PROVE  /\ Head(toDev).cmd = c /\ Head(toDev).call = calls
             /\ toDev' = <<>> /\ toHost = <<>> /\ calls' = calls
  BY <1>1, <1>a, PacketFields DEF Asked, hostVars
<1>b. ASSUME NEW c, NEW entry, toHost = <<>>, DevSay(c, calls, entry)
      PROVE  toHost' = <<Packet(c, calls, entry)>>
  BY <1>b DEF DevSay
<1>3. Answering'
  <2>1. SUFFICES ASSUME pc = "answer", inSync
                 PROVE ((Told(Expected(cmd)) /\ calls \in done) \/ Told("FAIL"))'
    BY <1>1 DEF hostVars, Answering
  <2>2. Asked(cmd) /\ cmd # "CMD_HDD_DIR" /\ cmd # "SUCCESS"
    BY <1>0, <1>1, <2>1 DEF Inv, Answering, Waiting, Told, Lost, AllCmds, PathCmds
  <2>3. CASE DevObey
    BY <1>1, <2>2, <2>3, <1>a, <1>b DEF DevObey, Told, hostVars
  <2>4. CASE DevRefuse
    BY <1>1, <2>2, <2>4, <1>a, <1>b DEF DevRefuse, Told, hostVars
  <2> QED
    BY <2>2, <2>3, <2>4, <1>a DEF Device, DevList, DevListMore, DevIgnore
<1>4. Listing'
  <2>1. SUFFICES ASSUME pc = "listing", inSync, ~tainted
                 PROVE  \/ Shown'
                        \/ (Told("DATA_HDD_DIR_END") /\ Len(listing) = N)'
                        \/ Told("FAIL")'
    BY <1>1 DEF hostVars, Listing
  <2>2. (Asked("CMD_HDD_DIR") /\ listing = <<>>) \/ Acknowledged
    BY <1>1, <2>1 DEF Inv, Listing, Shown, Told, Lost
  <2>a. listing' = listing /\ calls' = calls
    BY <1>1 DEF hostVars
  <2>b. ASSUME NEW i \in Nat, i = Len(listing) + 1, i <= N + 1, toHost = <<>>, toDev' = <<>>,
               DevSendEntries(calls, i)
        PROVE  Shown' \/ (Told("DATA_HDD_DIR_END") /\ Len(listing) = N)'
    <3>1. CASE i <= N
      BY <1>0, <2>a, <2>b, <3>1, <1>b DEF DevSendEntries, Shown
    <3>2. CASE ~(i <= N)
      <4>1. Len(listing) = N
        BY <1>0, <2>b, <3>2
      <4> QED
        BY <2>a, <2>b, <3>2, <4>1, <1>b DEF DevSendEntries, Told
    <3> QED
      BY <3>1, <3>2
  <2>3. CASE Asked("CMD_HDD_DIR") /\ listing = <<>>
    <3>1. CASE DevList
      <4>1. Len(listing) = 0
        BY <2>3
      <4>2. toHost = <<>> /\ toDev' = <<>> /\ DevSendEntries(calls, 1)
        BY <2>3, <3>1, <1>a DEF DevList
      <4> QED
        BY <1>0, <4>1, <4>2, <2>b
    <3>2. CASE DevRefuse
      BY <2>3, <2>a, <3>2, <1>a, <1>b DEF DevRefuse, Told
    <3> QED
      BY <2>3, <3>1, <3>2, <1>a DEF Device, DevObey, DevListMore, DevIgnore
  <2>4. CASE Acknowledged
    <3>0. Asked("SUCCESS") /\ dev = "listing" /\ serving = calls /\ sent = Len(listing)
      BY <2>4 DEF Acknowledged
    <3>1. CASE DevListMore
      <4>1. toHost = <<>> /\ toDev' = <<>> /\ DevSendEntries(calls, sent + 1)
        BY <3>0, <3>1, <1>a DEF DevListMore
      <4> QED
        BY <1>0, <3>0, <4>1, <2>b
    <3>2. CASE DevRefuse
      BY <3>0, <2>a, <3>2, <1>a, <1>b DEF DevRefuse, Told
    <3> QED
      BY <3>0, <3>1, <3>2, <1>a DEF Device, DevObey, DevList, DevIgnore
  <2> QED
    BY <2>2, <2>3, <2>4
<1> QED
  BY <1>2, <1>3, <1>4

LEMMA InvStep == Inv /\ [Next]_vars => Inv'
<1> SUFFICES ASSUME Inv, [Next]_vars PROVE Inv'
  OBVIOUS
<1>1. TypeOK'
  BY StepTypes DEF Inv
<1>2. CASE UNCHANGED vars
  BY <1>1, <1>2
  DEF Inv, vars, hostVars, pipeVars, devVars, Answering, Listing, Waiting, InOrder, Whole,
      OkMeansDone, Returned, Asked, Told, Lost, Shown, Acknowledged
<1> QED
  BY <1>1, <1>2, CallKeeps, AnswerKeeps, ListKeeps, DeviceKeeps DEF Next, Host, Inv

(***************************************************************************)
(* A command that returns 0 after it was sent over empty pipes has been    *)
(* carried out.                                                            *)
(***************************************************************************)
THEOREM OkIsNoLie == Spec => []OkMeansDone
<1>1. Inv => OkMeansDone
  BY DEF Inv
<1> QED
  BY <1>1, InvInit, InvStep, PTL DEF Spec

(***************************************************************************)
(* A listing asked for over empty pipes is made of its own directory's     *)
(* entries in order, and is whole when it was not cut short.               *)
(***************************************************************************)
THEOREM ListingsAreFaithful == Spec => []ListingFaithful
<1>1. Inv => ListingFaithful
  BY DEF Inv, InOrder, Whole, ListingFaithful, Returned
<1> QED
  BY <1>1, InvInit, InvStep, PTL DEF Spec

-----------------------------------------------------------------------------
(***************************************************************************)
(* Staying in step needs more than Inv: between calls the pipes are empty, *)
(* and p->error is clear once the status has been read.                    *)
(***************************************************************************)
Steady ==
  /\ inSync /\ ~tainted
  /\ pc = "idle" => Quiet
  /\ pc # "idle" => error = 0 /\ ~checked
  /\ checked => error = 0

LEMMA SteadyStep ==
  ASSUME Faults \subseteq {"refuse", "local"}, ReadsStatus, Inv, Steady, [Next]_vars
  PROVE  Steady'
<1>0. "damage" \notin Faults /\ "read" \notin Faults /\ "late" \notin Faults
  OBVIOUS
<1>a. ReadMayFail => toHost = <<>> /\ toDev = <<>>
  BY <1>0 DEF ReadMayFail
<1>b. ASSUME NEW c, Told(c) PROVE toDev = <<>> /\ toHost # <<>> /\ Tail(toHost) = <<>>
  BY <1>b DEF Told
<1>c. ASSUME pc # "idle", toHost # <<>> PROVE toDev = <<>> /\ Tail(toHost) = <<>>
  <2>1. pc = "answer" \/ pc = "listing"
    BY <1>c DEF Inv, TypeOK, HostTypeOK
  <2>2. Shown => toDev = <<>> /\ Tail(toHost) = <<>>
    BY DEF Shown
  <2> QED
    BY <1>b, <1>c, <2>1, <2>2 DEF Inv, Answering, Listing, Asked, Acknowledged, Lost, Steady
<1>d. ASSUME NEW c, Enter(c)
      PROVE  /\ inSync' /\ ~tainted' /\ ~checked'
             /\ error = 0 /\ toDev = <<>> /\ toHost' = <<>>
  BY <1>d, Zenon DEF Enter, Steady, Quiet
<1>1. CASE Call
  <2>1. PICK c : Enter(c)
    BY <1>1 DEF Call
  <2> QED
    BY <1>1, <2>1, <1>d, Zenon DEF Call, Steady
<1>2. CASE CallDir
  <2>1. pc' = "listing" /\ error' = 0
    BY <1>2, <1>d DEF CallDir
  <2> QED
    BY <1>2, <2>1, <1>d, Zenon DEF CallDir, Steady
<1>3. CASE CallPathTooLong
  <2>1. PICK c : Enter(c)
    BY <1>3 DEF CallPathTooLong
  <2>2. pc' = "idle" /\ toDev' = <<>> /\ ~checked'
    BY <1>3, <2>1, <1>d, Zenon DEF CallPathTooLong, Enter
  <2> QED
    BY <2>1, <2>2, <1>d, Zenon DEF Steady, Quiet
<1>4. CASE ReadStatus
  BY <1>4, Zenon DEF ReadStatus, Steady, Quiet, pipeVars
<1>5. CASE AnswerOK \/ AnswerFail \/ AnswerUnhandled \/ ListEnd \/ ListRefused
  <2>1. /\ pc # "idle" /\ toHost # <<>> /\ toHost' = Tail(toHost) /\ toDev' = toDev
        /\ UNCHANGED <<inSync, tainted, checked>> /\ pc' = "idle"
    BY <1>5
    DEF AnswerOK, AnswerFail, AnswerUnhandled, ListEnd, ListRefused, Take, Return
  <2>2. Quiet'
    BY <2>1, <1>c DEF Quiet
  <2> QED
    BY <2>1, <2>2, Zenon DEF Steady
<1>6. CASE AnswerMissing \/ ListCut
  <2>1. /\ ReadMayFail /\ UNCHANGED <<toHost, toDev, inSync, tainted, checked, error>>
        /\ pc' = "idle"
    BY <1>0, <1>6 DEF AnswerMissing, ListCut, Return
  <2> QED
    BY <1>6, <2>1, <1>a, Zenon DEF Steady, Quiet, AnswerMissing, ListCut
<1>7. CASE ListData
  BY <1>7, Zenon DEF ListData, Take, Steady
<1>8. CASE ListDamagedData
  BY <1>0, <1>8 DEF ListDamagedData
<1>9. CASE Device
  <2>1. UNCHANGED hostVars /\ toDev # <<>>
    BY <1>9 DEF Device, DevObey, DevList, DevListMore, DevIgnore, DevRefuse, DevTake
  <2> QED
    BY <2>1, Zenon DEF Steady, Quiet, hostVars
<1>10. CASE UNCHANGED vars
  BY <1>10, Zenon DEF vars, hostVars, pipeVars, Steady, Quiet
<1> QED
  BY <1>1, <1>2, <1>3, <1>4, <1>5, <1>6, <1>7, <1>8, <1>9, <1>10 DEF Next, Host

(***************************************************************************)
(* With no fault but refusals, a caller that reads puppy_status after each *)
(* call stays in step with the device.                                     *)
(***************************************************************************)
THEOREM StatusKeepsStep == Spec => []StaysInStep
<1>1. CASE Faults \subseteq {"refuse", "local"} /\ ReadsStatus
  <2>1. Init => Inv /\ Steady
    BY InvInit DEF Init, Steady, Quiet
  <2>2. Inv /\ Steady /\ [Next]_vars => Inv' /\ Steady'
    BY <1>1, InvStep, SteadyStep
  <2>3. Inv /\ Steady => StaysInStep
    BY DEF Steady, StaysInStep
  <2> QED
    BY <2>1, <2>2, <2>3, PTL DEF Spec
<1>2. CASE ~(Faults \subseteq {"refuse", "local"} /\ ReadsStatus)
  <2>1. Inv => StaysInStep
    BY <1>2 DEF StaysInStep
  <2> QED
    BY <2>1, InvInit, InvStep, PTL DEF Spec
<1> QED
  BY <1>1, <1>2

==============================================================================
