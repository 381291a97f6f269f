---------------------------- MODULE FileGet_proofs ----------------------------
(***************************************************************************)
(* Proofs about FileGet, for every length of the file, every number of     *)
(* calls, every choice of faults and either program.                       *)
(***************************************************************************)
EXTENDS FileGet, SequenceTheorems, TLAPS

(* A packet, or none, behind another in a pipe. *)
LEMMA PairOfPackets ==
  ASSUME NEW x, NEW y
  PROVE  <<x>> \o <<y>> = <<x, y>> /\ <<x>> \o <<>> = <<x>>
<1>1. <<x>> \o <<>> = <<x>>
  OBVIOUS
<1>2. <<x>> \o <<y>> = <<x, y>>
  <2>1. <<x>> \o <<y>> \in Seq({x, y}) /\ <<x, y>> \in Seq({x, y})
    OBVIOUS
  <2>2. Len(<<x>> \o <<y>>) = 2 /\ Len(<<x, y>>) = 2
    OBVIOUS
  <2>3. \A i \in 1..2 : (<<x>> \o <<y>>)[i] = <<x, y>>[i]
    OBVIOUS
  <2> QED
    BY <2>1, <2>2, <2>3, SeqEqual
<1> QED
  BY <1>1, <1>2

-----------------------------------------------------------------------------
(***************************************************************************)
(* In a call that began with clean pipes, and until it is aborted, host    *)
(* and device hand each other one token: the position of the token tells   *)
(* how much of the file each of them has dealt with.                       *)
(***************************************************************************)
Closed == dev = "idle" \/ sent = N + 1

Opening ==
  /\ state = "START" /\ dst = <<>> /\ toHost = <<>>
  /\ \/ toDev = <<"CMD_HDD_FILE_SEND">>
     \/ Closed /\ toDev = <<"SUCCESS", "CMD_HDD_FILE_SEND">>
     \/ Closed /\ toDev = <<"SUCCESS">>

Started ==
  /\ state = "START" /\ dst = <<>> /\ toDev = <<>>
  /\ toHost = <<Packet("DATA_HDD_FILE_START")>>
  /\ dev = "sending" /\ sent = 0

Requested ==
  /\ state = "DATA" /\ toDev = <<"SUCCESS">> /\ toHost = <<>>
  /\ dev = "sending" /\ sent = Len(dst) /\ sent <= N

Delivered ==
  /\ state = "DATA" /\ toDev = <<>>
  /\ toHost = <<[cmd |-> "DATA_HDD_FILE_DATA", blk |-> sent]>>
  /\ dev = "sending" /\ sent = Len(dst) + 1 /\ sent <= N

Completed ==
  /\ state = "DATA" /\ toDev = <<>>
  /\ toHost = <<Packet("DATA_HDD_FILE_END")>>
  /\ sent = N + 1 /\ Len(dst) = N

Refused == toDev = <<>> /\ toHost = <<Packet("FAIL")>>

Lost == toDev = <<>> /\ toHost = <<>>

OneToken ==
  pc = "loop" /\ inSync /\ state # "ABORT" =>
    /\ ~torn
    /\ \/ Opening \/ Started \/ Requested \/ Delivered \/ Completed
       \/ Refused \/ Lost

(* What the return from Completed leaves behind. *)
CleanReturn ==
  Returned("ok") /\ inSync /\ state # "ABORT" =>
    Quiet /\ Len(dst) = N /\ ~torn

(* In sync, the blocks of the destination are in file order. *)
Ordered ==
  inSync /\ ~tainted => \A i \in 1..Len(dst) : dst[i] = i

Inv == TypeOK /\ OneToken /\ CleanReturn /\ Ordered

-----------------------------------------------------------------------------
LEMMA InvInit == Init => Inv
<1> SUFFICES ASSUME Init PROVE Inv
  OBVIOUS
<1>1. LinkTypeOK /\ HostTypeOK
  BY FileGetAssumption DEF Init, LinkTypeOK, HostTypeOK
<1>2. FlagsTypeOK
  BY Zenon DEF Init, FlagsTypeOK
<1> QED
  BY <1>1, <1>2 DEF Init, Inv, TypeOK, OneToken, CleanReturn, Ordered, Returned

(***************************************************************************)
(* Types.                                                                  *)
(***************************************************************************)
LEMMA TransmitType ==
  ASSUME NEW request \in Requests, NEW t \in Transmit(request)
  PROVE  t \in Seq(Requests)
<1>1. <<request>> \in Seq(Requests) /\ <<>> \in Seq(Requests)
  OBVIOUS
<1>2. t = <<request>> \/ t = <<>>
  BY Zenon DEF Transmit
<1> QED
  BY <1>1, <1>2

LEMMA EarlyAckType ==
  ASSUME NEW cmd, NEW t \in EarlyAck(cmd)
  PROVE  t \in Seq(Requests)
<1>1. "SUCCESS" \in Requests
  BY DEF Requests
<1>2. t \in Transmit("SUCCESS") \/ t = <<>>
  BY Zenon DEF EarlyAck
<1>3. <<>> \in Seq(Requests)
  OBVIOUS
<1> QED
  BY <1>1, <1>2, <1>3, TransmitType

LEMMA HostStepFlags ==
  ASSUME FlagsTypeOK, Host
  PROVE  FlagsTypeOK'
<1> USE DEF FlagsTypeOK, Receive, Reception, Rests
<1>1. CASE RecvStart
  BY <1>1, Zenon DEF RecvStart
<1>2. CASE RecvData
  BY <1>2, Zenon DEF RecvData
<1>3. CASE RecvDataCannotWrite
  BY <1>3, Zenon DEF RecvDataCannotWrite
<1>4. CASE RecvUnexpected
  BY <1>4, Zenon DEF RecvUnexpected
<1>5. CASE RecvEnd
  BY <1>5, Zenon DEF RecvEnd
<1>6. CASE RecvFail
  BY <1>6, Zenon DEF RecvFail
<1>7. CASE RecvSuccess
  BY <1>7, Zenon DEF RecvSuccess
<1>8. CASE RecvUnhandled
  BY <1>8, Zenon DEF RecvUnhandled
<1>9. CASE RecvRunt
  BY <1>9, Zenon DEF RecvRunt
<1>10. CASE ReadFails
  BY <1>10, Zenon DEF ReadFails, pipeVars
<1>11. CASE RecvRestAsData
  BY <1>11, Zenon DEF RecvRestAsData
<1> QED
  BY <1>1, <1>2, <1>3, <1>4, <1>5, <1>6, <1>7, <1>8, <1>9, <1>10, <1>11 DEF Host

(***************************************************************************)
(* What an iteration of the receive loop does to the link: it takes one    *)
(* packet at most and answers with some requests.                          *)
(***************************************************************************)
LEMMA HostTakes ==
  ASSUME Host
  PROVE  /\ toHost' = toHost \/ (toHost # <<>> /\ toHost' = Tail(toHost))
         /\ UNCHANGED devVars
  BY DEF Host, RecvStart, RecvData, RecvDataCannotWrite, RecvUnexpected, RecvEnd, RecvFail,
         RecvSuccess, RecvUnhandled, RecvRestAsData, RecvRunt, ReadFails, Receive, pipeVars

(***************************************************************************)
(* The rest of a packet that passes for data ends the call's being in step.*)
(***************************************************************************)
LEMMA RestTaken ==
  ASSUME RecvRestAsData
  PROVE  /\ pc = "loop" /\ pc' = "loop" /\ rest /\ ~inSync' /\ tainted'
         /\ UNCHANGED <<calls, modtime, result, toHost, dev, sent>>
         /\ \/ state = "DATA" /\ state' = "DATA" /\ dst' = Append(dst, 0)
            \/ state' = "ABORT" /\ dst' = dst
  BY DEF RecvRestAsData, devVars

Replies == {"SUCCESS", "CANCEL"}

LEMMA ReplyTypes ==
  /\ \A reply \in Replies : \A t \in Transmit(reply) : t \in Seq(Replies)
  /\ \A cmd : \A t \in EarlyAck(cmd) : t \in Seq(Replies)
<1>1. ASSUME NEW reply \in Replies, NEW t \in Transmit(reply) PROVE t \in Seq(Replies)
  <2>1. <<reply>> \in Seq(Replies) /\ <<>> \in Seq(Replies)
    OBVIOUS
  <2>2. t = <<reply>> \/ t = <<>>
    BY Zenon DEF Transmit
  <2> QED
    BY <2>1, <2>2
<1>2. ASSUME NEW cmd, NEW t \in EarlyAck(cmd) PROVE t \in Seq(Replies)
  <2>1. t \in Transmit("SUCCESS") \/ t = <<>>
    BY Zenon DEF EarlyAck
  <2>2. "SUCCESS" \in Replies /\ <<>> \in Seq(Replies)
    BY DEF Replies
  <2> QED
    BY <1>1, <2>1, <2>2
<1> QED
  BY <1>1, <1>2

LEMMA HostAnswers ==
  ASSUME NEW S, Replies \subseteq S, toDev \in Seq(S), Host
  PROVE  \E t \in Seq(Replies) : toDev' = toDev \o t
<1> DEFINE Answers == \E t \in Seq(Replies) : toDev' = toDev \o t
<1> SUFFICES Answers
  OBVIOUS
<1>0. /\ {"SUCCESS", "CANCEL"} \subseteq Replies
      /\ <<>> \in Seq(Replies)
      /\ toDev = toDev \o <<>>
      /\ \A s, t \in Seq(Replies) : s \o t \in Seq(Replies)
  BY DEF Replies
<1>1. \A s, t \in Seq(S) : toDev \o s \o t = toDev \o (s \o t)
  OBVIOUS
<1>2. \A s \in Seq(Replies) : s \in Seq(S)
  OBVIOUS
<1> HIDE DEF Answers
<1>a. ASSUME NEW t \in Seq(Replies), toDev' = toDev \o t PROVE Answers
  BY <1>a DEF Answers
<1>b. ASSUME NEW s \in Seq(Replies), NEW t \in Seq(Replies),
             toDev' = toDev \o s \o t
      PROVE  Answers
  BY <1>0, <1>1, <1>2, <1>b DEF Answers
<1>c. ASSUME toDev' = toDev PROVE Answers
  BY <1>0, <1>c DEF Answers
<1>3. CASE RecvStart
  BY <1>3, <1>0, <1>a, ReplyTypes DEF RecvStart
<1>4. CASE RecvData
  BY <1>4, <1>a, ReplyTypes DEF RecvData
<1>5. CASE RecvDataCannotWrite
  BY <1>5, <1>0, <1>b, ReplyTypes DEF RecvDataCannotWrite
<1>6. CASE RecvUnexpected
  BY <1>6, <1>0, <1>b, ReplyTypes DEF RecvUnexpected
<1>7. CASE RecvEnd
  BY <1>7, <1>0, <1>a, ReplyTypes DEF RecvEnd
<1>8. CASE RecvFail
  BY <1>8, <1>0, <1>a, ReplyTypes DEF RecvFail
<1>9. CASE RecvSuccess
  BY <1>9, <1>c DEF RecvSuccess
<1>10. CASE RecvUnhandled
  BY <1>10, <1>c DEF RecvUnhandled
<1>11. CASE RecvRunt
  <2>1. CASE toDev' = toDev
    BY <2>1, <1>c
  <2>2. ASSUME NEW cmd, NEW a \in {<<>>} \cup EarlyAck(cmd), toDev' = toDev \o a
        PROVE  Answers
    <3>1. a \in Seq(Replies)
      BY <1>0, ReplyTypes
    <3> QED
      BY <1>a, <2>2, <3>1
  <2> QED
    BY <1>11, <2>1, <2>2 DEF RecvRunt
<1>12. CASE ReadFails
  BY <1>12, <1>c DEF ReadFails, pipeVars
<1>13. CASE RecvRestAsData
  <2>1. PICK a \in EarlyAck("DATA_HDD_FILE_DATA"), c \in Transmit("CANCEL") :
          toDev' = toDev \o a \/ toDev' = toDev \o a \o c
    BY <1>13 DEF RecvRestAsData
  <2>2. a \in Seq(Replies) /\ c \in Seq(Replies)
    BY <2>1, <1>0, ReplyTypes
  <2> QED
    BY <1>a, <1>b, <2>1, <2>2
<1> QED
  BY <1>3, <1>4, <1>5, <1>6, <1>7, <1>8, <1>9, <1>10, <1>11, <1>12, <1>13 DEF Host

LEMMA HostOnLink ==
  ASSUME LinkTypeOK, Host
  PROVE  /\ \E t \in Seq(Requests) : toDev' = toDev \o t
         /\ toHost' = toHost \/ (toHost # <<>> /\ toHost' = Tail(toHost))
         /\ UNCHANGED devVars
<1>1. Replies \subseteq Requests
  BY DEF Replies, Requests
<1>2. \E t \in Seq(Replies) : toDev' = toDev \o t
  BY <1>1, HostAnswers DEF LinkTypeOK
<1>3. \A t \in Seq(Replies) : t \in Seq(Requests)
  BY <1>1
<1> QED
  BY <1>2, <1>3, HostTakes

LEMMA HostStepTypes ==
  ASSUME TypeOK, Host
  PROVE  LinkTypeOK' /\ HostTypeOK'
<1>1. LinkTypeOK'
  <2>1. LinkTypeOK
    BY DEF TypeOK
  <2>2. /\ \E t \in Seq(Requests) : toDev' = toDev \o t
        /\ toHost' = toHost \/ (toHost # <<>> /\ toHost' = Tail(toHost))
        /\ UNCHANGED devVars
    BY <2>1, HostOnLink
  <2>3. toDev' \in Seq(Requests)
    BY <2>1, <2>2 DEF LinkTypeOK
  <2>4. toHost' \in Seq(Packets)
    <3>1. toHost \in Seq(Packets)
      BY <2>1 DEF LinkTypeOK
    <3> QED
      BY <2>2, <3>1, HeadTailProperties
  <2> QED
    BY <2>1, <2>2, <2>3, <2>4 DEF LinkTypeOK, devVars
<1> USE FileGetAssumption DEF TypeOK, HostTypeOK, Receive, Return
<1>2. CASE RecvStart
  BY <1>1, <1>2 DEF RecvStart
<1>3. CASE RecvData
  <2>1. toHost # <<>> /\ Head(toHost) \in Packets
    BY <1>3 DEF RecvData, LinkTypeOK
  <2>2. Head(toHost).blk \in 0..N
    BY <2>1 DEF Packets
  <2> QED
    BY <1>1, <1>3, <2>2 DEF RecvData
<1>4. CASE RecvDataCannotWrite
  BY <1>1, <1>4 DEF RecvDataCannotWrite
<1>5. CASE RecvUnexpected
  BY <1>1, <1>5 DEF RecvUnexpected
<1>6. CASE RecvEnd
  BY <1>1, <1>6 DEF RecvEnd
<1>7. CASE RecvFail
  BY <1>1, <1>7 DEF RecvFail
<1>8. CASE RecvSuccess
  BY <1>1, <1>8 DEF RecvSuccess
<1>9. CASE RecvUnhandled
  BY <1>1, <1>9 DEF RecvUnhandled
<1>10. CASE RecvRunt
  BY <1>1, <1>10 DEF RecvRunt
<1>11. CASE ReadFails
  BY <1>1, <1>11 DEF ReadFails, pipeVars, devVars
<1>12. CASE RecvRestAsData
  BY <1>1, <1>12 DEF RecvRestAsData
<1> QED
  BY <1>2, <1>3, <1>4, <1>5, <1>6, <1>7, <1>8, <1>9, <1>10, <1>11, <1>12 DEF Host

LEMMA DeviceStepTypes ==
  ASSUME LinkTypeOK, Device
  PROVE  LinkTypeOK' /\ UNCHANGED <<hostVars, rest>>
<1> USE FileGetAssumption DEF LinkTypeOK, Packets, Commands, Packet, DevTake, DevSay, devVars
<1>1. CASE DevStart
  BY <1>1 DEF DevStart
<1>2. CASE DevNext
  BY <1>2 DEF DevNext
<1>3. CASE DevClose
  BY <1>3 DEF DevClose
<1>4. CASE DevCancel
  BY <1>4 DEF DevCancel
<1>5. CASE DevRefuse
  <2>1. DevTake("CMD_HDD_FILE_SEND") \/ DevTake("SUCCESS")
    BY <1>5 DEF DevRefuse
  <2>2. toDev' \in Seq(Requests) /\ UNCHANGED <<hostVars, rest>>
    BY <2>1, HeadTailProperties
  <2>3. toHost' = Append(toHost, Packet("FAIL")) /\ dev' = "idle" /\ sent' = sent
    BY <1>5 DEF DevRefuse
  <2>4. toHost' \in Seq(Packets)
    BY <2>3
  <2> QED
    BY <2>2, <2>3, <2>4
<1> QED
  BY <1>1, <1>2, <1>3, <1>4, <1>5 DEF Device

LEMMA CallStepTypes ==
  ASSUME TypeOK, CallCannotOpen \/ CallPathTooLong \/ Call
  PROVE  LinkTypeOK' /\ HostTypeOK' /\ FlagsTypeOK'
<1> USE FileGetAssumption DEF TypeOK, LinkTypeOK, HostTypeOK, EnterCall, pipeVars, devVars
<1>1. CASE CallCannotOpen
  <2>1. FlagsTypeOK'
    BY <1>1, Zenon DEF CallCannotOpen, FlagsTypeOK
  <2> QED
    BY <1>1, <2>1 DEF CallCannotOpen
<1>2. CASE CallPathTooLong
  <2>1. FlagsTypeOK'
    BY <1>2, Zenon DEF CallPathTooLong, FlagsTypeOK, Quiet
  <2> QED
    BY <1>2, <2>1 DEF CallPathTooLong
<1>3. CASE Call
  <2>1. FlagsTypeOK'
    BY <1>3, Zenon DEF Call, FlagsTypeOK, Quiet
  <2>2. PICK c \in Transmit("CMD_HDD_FILE_SEND") : toDev' = toDev \o c
    BY <1>3 DEF Call
  <2>3. c \in Seq(Requests)
    BY TransmitType DEF Requests
  <2> QED
    BY <1>3, <2>1, <2>2, <2>3 DEF Call
<1> QED
  BY <1>1, <1>2, <1>3

LEMMA TypeStep == TypeOK /\ [Next]_vars => TypeOK'
<1> SUFFICES ASSUME TypeOK, [Next]_vars PROVE TypeOK'
  OBVIOUS
<1>1. CASE UNCHANGED vars
  BY <1>1 DEF vars, hostVars, pipeVars, devVars, TypeOK, LinkTypeOK, HostTypeOK, FlagsTypeOK
<1>2. CASE CallCannotOpen \/ CallPathTooLong \/ Call
  BY <1>2, CallStepTypes DEF TypeOK
<1>3. CASE Host
  BY <1>3, HostStepTypes, HostStepFlags DEF TypeOK
<1>4. CASE Device
  BY <1>4, DeviceStepTypes DEF TypeOK, HostTypeOK, FlagsTypeOK, hostVars
<1> QED
  BY <1>1, <1>2, <1>3, <1>4 DEF Next

(***************************************************************************)
(* Every variable keeps its type, whatever the link does.                  *)
(***************************************************************************)
THEOREM TypeCorrect == Spec => []TypeOK
<1>1. Init => TypeOK
  BY InvInit DEF Inv
<1> QED
  BY <1>1, TypeStep, PTL DEF Spec

-----------------------------------------------------------------------------
(***************************************************************************)
(* A packet waiting for the host is the token: nothing else is under way.  *)
(***************************************************************************)
LEMMA TokenWithHost ==
  ASSUME OneToken, pc = "loop", inSync, state # "ABORT", toHost # <<>>
  PROVE  /\ toDev = <<>> /\ Tail(toHost) = <<>>
         /\ Head(toHost).cmd = "DATA_HDD_FILE_START" => Started
         /\ Head(toHost).cmd = "DATA_HDD_FILE_DATA" => Delivered
         /\ Head(toHost).cmd = "DATA_HDD_FILE_END" => Completed
<1>1. Started \/ Delivered \/ Completed \/ Refused
  BY DEF OneToken, Opening, Requested, Lost
<1>2. toDev = <<>> /\ \E p : toHost = <<p>>
  BY <1>1 DEF Started, Delivered, Completed, Refused
<1>3. Tail(toHost) = <<>> /\ toHost = <<Head(toHost)>>
  BY <1>2
<1>4. /\ Started => Head(toHost).cmd = "DATA_HDD_FILE_START"
      /\ Delivered => Head(toHost).cmd = "DATA_HDD_FILE_DATA"
      /\ Completed => Head(toHost).cmd = "DATA_HDD_FILE_END"
      /\ Refused => Head(toHost).cmd = "FAIL"
  BY DEF Started, Delivered, Completed, Refused, Packet
<1> QED
  BY <1>1, <1>2, <1>3, <1>4

(* ... and a request waiting for the device is the token likewise. *)
LEMMA TokenWithDevice ==
  ASSUME OneToken, pc = "loop", inSync, state # "ABORT", toDev # <<>>
  PROVE  toHost = <<>> /\ (Opening \/ Requested)
  BY DEF OneToken, Opening, Started, Requested, Delivered, Completed, Refused, Lost

LEMMA TransmitCases ==
  ASSUME NEW request, NEW t \in Transmit(request)
  PROVE  t = <<request>> \/ t = <<>>
  BY Zenon DEF Transmit

LEMMA EarlyAckCases ==
  ASSUME NEW cmd, NEW t \in EarlyAck(cmd)
  PROVE  t = <<"SUCCESS">> \/ t = <<>>
  BY TransmitCases, Zenon DEF EarlyAck

(***************************************************************************)
(* A call that finds the link quiet puts the token in the device's pipe.   *)
(***************************************************************************)
LEMMA TokenAfterCall ==
  ASSUME Inv, Call
  PROVE  OneToken'
<1> SUFFICES ASSUME Quiet PROVE ~torn' /\ (Opening' \/ Lost')
  BY DEF OneToken, Call, EnterCall
<1>1. PICK c \in Transmit("CMD_HDD_FILE_SEND") : toDev' = toDev \o c
  BY DEF Call
<1>2. c = <<"CMD_HDD_FILE_SEND">> \/ c = <<>>
  BY TransmitCases
<1>3. ~torn' /\ state' = "START" /\ dst' = <<>> /\ toHost' = <<>> /\ UNCHANGED devVars
  BY DEF Call, EnterCall, Quiet
<1>4. CASE toDev = <<>>
  <2>1. toDev' = c
    BY <1>1, <1>2, <1>4
  <2> QED
    BY <1>2, <1>3, <2>1 DEF Opening, Lost
<1>5. CASE toDev = <<"SUCCESS">> /\ Closed
  <2>1. toDev' = <<"SUCCESS", "CMD_HDD_FILE_SEND">> \/ toDev' = <<"SUCCESS">>
    BY <1>1, <1>2, <1>5, PairOfPackets
  <2>2. Closed'
    BY <1>3, <1>5 DEF Closed, devVars
  <2> QED
    BY <1>3, <2>1, <2>2 DEF Opening
<1> QED
  BY <1>4, <1>5 DEF Quiet, Closed

(***************************************************************************)
(* The host takes the token and either passes it on, loses it, aborts or   *)
(* returns.                                                                *)
(***************************************************************************)
LEMMA TokenAfterHost ==
  ASSUME Inv, Host
  PROVE  OneToken'
<1> SUFFICES ASSUME pc' = "loop", inSync', state' # "ABORT"
             PROVE  /\ ~torn'
                    /\ \/ Opening' \/ Started' \/ Requested' \/ Delivered'
                       \/ Completed' \/ Refused' \/ Lost'
  BY DEF OneToken
<1> USE DEF Receive, Return
<1>1. CASE RecvStart
  <2>1. PICK a \in Transmit("SUCCESS") :
          /\ toHost # <<>> /\ Head(toHost).cmd = "DATA_HDD_FILE_START"
          /\ pc = "loop" /\ inSync /\ state = "START" /\ state' = "DATA"
          /\ toHost' = Tail(toHost) /\ toDev' = toDev \o a
          /\ UNCHANGED <<dst, torn, dev, sent>>
    BY <1>1 DEF RecvStart, devVars
  <2>2. Started /\ ~torn /\ toDev = <<>> /\ Tail(toHost) = <<>>
    BY <2>1, TokenWithHost DEF Inv, OneToken
  <2>3. toDev' = <<"SUCCESS">> \/ toDev' = <<>>
    BY <2>1, <2>2, TransmitCases
  <2> QED
    BY <2>1, <2>2, <2>3, FileGetAssumption DEF Started, Requested, Lost
<1>2. CASE RecvData
  <2>1. PICK a \in EarlyAck("DATA_HDD_FILE_DATA"), b \in {0, Head(toHost).blk} :
          /\ toHost # <<>> /\ Head(toHost).cmd = "DATA_HDD_FILE_DATA"
          /\ pc = "loop" /\ inSync /\ state = "DATA" /\ state' = "DATA"
          /\ toHost' = Tail(toHost) /\ toDev' = toDev \o a
          /\ dst' = Append(dst, b)
          /\ UNCHANGED <<torn, dev, sent>>
    BY <1>2 DEF RecvData, devVars
  <2>2. Delivered /\ ~torn /\ toDev = <<>> /\ Tail(toHost) = <<>>
    BY <2>1, TokenWithHost DEF Inv, OneToken
  <2>3. toDev' = <<"SUCCESS">> \/ toDev' = <<>>
    BY <2>1, <2>2, EarlyAckCases
  <2>4. Len(dst') = Len(dst) + 1
    BY <2>1 DEF Inv, TypeOK, HostTypeOK
  <2> QED
    BY <2>1, <2>2, <2>3, <2>4 DEF Delivered, Requested, Lost
<1>3. CASE RecvUnhandled
  <2>1. CASE UNCHANGED <<toHost, toDev>>
    BY <2>1, <1>3
       DEF RecvUnhandled, Inv, OneToken, Opening, Started, Requested, Delivered,
           Completed, Refused, Lost, Closed, devVars
  <2>2. CASE toHost # <<>> /\ toHost' = Tail(toHost)
    <3>1. pc = "loop" /\ inSync /\ state # "ABORT" /\ UNCHANGED <<toDev, torn>>
      BY <1>3 DEF RecvUnhandled
    <3> QED
      BY <2>2, <3>1, TokenWithHost DEF Inv, OneToken, Lost
  <2> QED
    BY <1>3, <2>1, <2>2 DEF RecvUnhandled
<1> QED
  BY <1>1, <1>2, <1>3, RestTaken
     DEF Host, RecvDataCannotWrite, RecvUnexpected, RecvEnd, RecvFail, RecvSuccess,
         RecvRunt, ReadFails

(***************************************************************************)
(* The device takes the token and passes it on, keeps it or drops it.      *)
(***************************************************************************)
LEMMA TokenAfterDevice ==
  ASSUME Inv, Device
  PROVE  OneToken'
<1>1. UNCHANGED hostVars /\ toDev # <<>> /\ toDev' = Tail(toDev)
  BY DEF Device, DevStart, DevNext, DevClose, DevCancel, DevRefuse, DevTake
<1> SUFFICES ASSUME pc = "loop", inSync, state # "ABORT"
             PROVE  Opening' \/ Started' \/ Delivered' \/ Completed' \/ Refused' \/ Lost'
  BY <1>1 DEF Inv, OneToken, hostVars
<1>2. toHost = <<>> /\ (Opening \/ Requested)
  BY <1>1, TokenWithDevice DEF Inv
<1> USE <1>1, <1>2 DEF DevTake, DevSay, hostVars, Opening, Requested, Closed
<1>3. CASE DevStart
  <2>1. toDev' = <<>> /\ toHost' = <<Packet("DATA_HDD_FILE_START")>>
    BY <1>3 DEF DevStart
  <2> QED
    BY <1>3, <2>1 DEF DevStart, Started
<1>4. CASE DevNext
  <2>1. Requested /\ toDev' = <<>>
    BY <1>4, FileGetAssumption DEF DevNext, Inv, TypeOK, LinkTypeOK
  <2>2. CASE sent < N
    <3>1. toHost' = <<[cmd |-> "DATA_HDD_FILE_DATA", blk |-> sent + 1]>>
      BY <1>4, <2>2 DEF DevNext
    <3> QED
      BY <1>4, <2>1, <2>2, <3>1, FileGetAssumption DEF DevNext, Delivered, Inv, TypeOK, LinkTypeOK
  <2>3. CASE ~(sent < N)
    <3>1. toHost' = <<Packet("DATA_HDD_FILE_END")>>
      BY <1>4, <2>3 DEF DevNext
    <3> QED
      BY <1>4, <2>1, <2>3, <3>1, FileGetAssumption DEF DevNext, Completed, Inv, TypeOK, LinkTypeOK
  <2> QED
    BY <2>2, <2>3
<1>5. CASE DevClose
  <2>1. Opening
    BY <1>5, FileGetAssumption DEF DevClose, Inv, TypeOK, LinkTypeOK
  <2>2. /\ Tail(<<"SUCCESS", "CMD_HDD_FILE_SEND">>) = <<"CMD_HDD_FILE_SEND">>
        /\ Tail(<<"SUCCESS">>) = <<>>
        /\ Head(<<"CMD_HDD_FILE_SEND">>) = "CMD_HDD_FILE_SEND"
    OBVIOUS
  <2>3. Head(toDev) = "SUCCESS"
    BY <1>5 DEF DevClose
  <2>4. toDev' = <<"CMD_HDD_FILE_SEND">> \/ toDev' = <<>>
    BY <2>1, <2>2, <2>3
  <2> QED
    BY <1>5, <2>1, <2>4 DEF DevClose, Lost
<1>6. CASE DevCancel
  BY <1>6 DEF DevCancel
<1>7. CASE DevRefuse
  <2>1. toDev' = <<>> /\ toHost' = <<Packet("FAIL")>>
    BY <1>7, FileGetAssumption DEF DevRefuse, Inv, TypeOK, LinkTypeOK
  <2> QED
    BY <2>1 DEF Refused
<1> QED
  BY <1>3, <1>4, <1>5, <1>6, <1>7 DEF Device

(***************************************************************************)
(* Only END makes a call return 0, and in sync END comes after N blocks.   *)
(***************************************************************************)
LEMMA CleanReturnAfterHost ==
  ASSUME Inv, Host
  PROVE  CleanReturn'
<1> SUFFICES ASSUME pc' = "idle", result' = "ok", inSync', state' # "ABORT"
             PROVE  Quiet' /\ Len(dst') = N /\ ~torn'
  BY DEF CleanReturn, Returned
<1>1. CASE RecvEnd
  <2>1. PICK a \in Transmit("SUCCESS") :
          /\ toHost # <<>> /\ Head(toHost).cmd = "DATA_HDD_FILE_END"
          /\ pc = "loop" /\ inSync /\ state # "ABORT"
          /\ toHost' = Tail(toHost) /\ toDev' = toDev \o a /\ ~rest'
          /\ UNCHANGED <<dst, torn, dev, sent>>
    BY <1>1 DEF RecvEnd, Receive, devVars
  <2>2. Completed /\ ~torn /\ toDev = <<>> /\ Tail(toHost) = <<>>
    BY <2>1, TokenWithHost DEF Inv, OneToken
  <2>3. toDev' = <<"SUCCESS">> \/ toDev' = <<>>
    BY <2>1, <2>2, TransmitCases
  <2> QED
    BY <2>1, <2>2, <2>3 DEF Completed, Quiet
<1>2. CASE ~RecvEnd
  <2>1. pc = "loop"
    BY RestTaken
       DEF Host, RecvStart, RecvData, RecvDataCannotWrite, RecvUnexpected, RecvEnd,
           RecvFail, RecvSuccess, RecvUnhandled, RecvRunt, ReadFails, Receive
  <2>2. pc' = pc \/ result' = "eproto"
    BY <1>2, RestTaken
       DEF Host, RecvStart, RecvData, RecvDataCannotWrite, RecvUnexpected, RecvFail,
           RecvSuccess, RecvUnhandled, RecvRunt, ReadFails, Return
  <2> QED
    BY <2>1, <2>2
<1> QED
  BY <1>1, <1>2

(* The device can only take the SUCCESS that ends its transfer. *)
LEMMA CleanReturnAfterDevice ==
  ASSUME Inv, Device
  PROVE  CleanReturn'
<1>1. UNCHANGED <<hostVars, rest>> /\ toDev # <<>> /\ toDev' = Tail(toDev)
  BY DEF Device, DevStart, DevNext, DevClose, DevCancel, DevRefuse, DevTake
<1> SUFFICES ASSUME Returned("ok"), inSync, state # "ABORT" PROVE Quiet'
  BY <1>1 DEF Inv, CleanReturn, Returned, hostVars
<1>2. /\ toHost = <<>> /\ ~rest
      /\ toDev = <<"SUCCESS">> /\ (dev = "idle" \/ sent = N + 1)
  BY <1>1 DEF Inv, CleanReturn, Quiet
<1>3. DevClose
  BY <1>2, FileGetAssumption
     DEF Device, DevStart, DevNext, DevCancel, DevRefuse, DevTake, Inv, TypeOK, LinkTypeOK
<1> QED
  BY <1>1, <1>2, <1>3 DEF DevClose, Quiet

LEMMA OrderedAfterHost ==
  ASSUME Inv, Host
  PROVE  Ordered'
<1>1. CASE RecvData
  <2> SUFFICES ASSUME inSync', ~tainted', NEW i \in 1..Len(dst') PROVE dst'[i] = i
    BY DEF Ordered
  <2>1. PICK intact \in Reception :
          /\ toHost # <<>> /\ Head(toHost).cmd = "DATA_HDD_FILE_DATA"
          /\ pc = "loop" /\ inSync /\ state = "DATA"
          /\ dst' = Append(dst, IF intact THEN Head(toHost).blk ELSE 0)
          /\ tainted' = (tainted \/ ~intact)
    BY <1>1 DEF RecvData, Receive
  <2>2. ~tainted /\ dst' = Append(dst, Head(toHost).blk)
    BY <2>1
  <2>3. Head(toHost).blk = Len(dst) + 1
    BY <2>1, TokenWithHost DEF Inv, Delivered
  <2>4. \A j \in 1..Len(dst) : dst[j] = j
    BY <2>1, <2>2 DEF Inv, Ordered
  <2> QED
    BY <2>2, <2>3, <2>4 DEF Inv, TypeOK, HostTypeOK
<1>2. CASE ~RecvData /\ ~RecvRestAsData
  <2>1. UNCHANGED <<dst, inSync>>
    BY <1>2
       DEF Host, RecvStart, RecvDataCannotWrite, RecvUnexpected, RecvEnd, RecvFail,
           RecvSuccess, RecvUnhandled, RecvRunt, ReadFails, Receive
  <2>2. tainted => tainted'
    BY <1>2, Zenon
       DEF Host, RecvStart, RecvDataCannotWrite, RecvUnexpected, RecvEnd, RecvFail,
           RecvSuccess, RecvUnhandled, RecvRunt, ReadFails, Receive
  <2> QED
    BY <2>1, <2>2 DEF Inv, Ordered
<1>3. CASE RecvRestAsData
  BY <1>3, RestTaken DEF Ordered
<1> QED
  BY <1>1, <1>2, <1>3

LEMMA InvStep == Inv /\ [Next]_vars => Inv'
<1> SUFFICES ASSUME Inv, [Next]_vars PROVE Inv'
  OBVIOUS
<1>1. TypeOK'
  BY TypeStep DEF Inv
<1>2. CASE UNCHANGED vars
  BY <1>1, <1>2
     DEF vars, hostVars, pipeVars, devVars, Inv, OneToken, CleanReturn, Ordered, Returned,
         Quiet, Opening, Started, Requested, Delivered, Completed, Refused, Lost, Closed
<1>3. CASE CallCannotOpen
  BY <1>1, <1>3 DEF CallCannotOpen, Inv, OneToken, CleanReturn, Ordered, Returned
<1>4. CASE CallPathTooLong
  BY <1>1, <1>4 DEF CallPathTooLong, EnterCall, Inv, OneToken, CleanReturn, Ordered, Returned
<1>5. CASE Call
  <2>1. CleanReturn' /\ Ordered'
    BY <1>5 DEF Call, EnterCall, CleanReturn, Ordered, Returned
  <2> QED
    BY <1>1, <1>5, <2>1, TokenAfterCall DEF Inv
<1>6. CASE Host
  BY <1>1, <1>6, TokenAfterHost, CleanReturnAfterHost, OrderedAfterHost DEF Inv
<1>7. CASE Device
  <2>1. Ordered'
    BY <1>7, DeviceStepTypes DEF Inv, TypeOK, Ordered, hostVars
  <2> QED
    BY <1>1, <1>7, <2>1, TokenAfterDevice, CleanReturnAfterDevice DEF Inv
<1> QED
  BY <1>2, <1>3, <1>4, <1>5, <1>6, <1>7 DEF Next

LEMMA InvHolds == Spec => []Inv
<1> QED
  BY InvInit, InvStep, PTL DEF Spec

(***************************************************************************)
(* The early SUCCESS of get_tf_packet never lets the device run ahead.     *)
(***************************************************************************)
THEOREM OnePacketUnderWay == Spec => []Lockstep
<1>1. Inv => Lockstep
  <2> SUFFICES ASSUME Inv, pc = "loop", inSync, state # "ABORT"
               PROVE  \/ Len(toHost) + Len(toDev) <= 1
                      \/ toDev = <<"SUCCESS", "CMD_HDD_FILE_SEND">> /\ toHost = <<>>
    BY DEF Lockstep
  <2>1. Len(<<>>) = 0 /\ \A x : Len(<<x>>) = 1
    OBVIOUS
  <2>2. CASE toHost = <<>>
    <3>1. \/ toDev = <<>> \/ toDev = <<"SUCCESS">> \/ toDev = <<"CMD_HDD_FILE_SEND">>
          \/ toDev = <<"SUCCESS", "CMD_HDD_FILE_SEND">>
      BY <2>2 DEF Inv, OneToken, Opening, Started, Requested, Delivered, Completed,
                  Refused, Lost
    <3>2. Len(<<"SUCCESS">>) = 1 /\ Len(<<"CMD_HDD_FILE_SEND">>) = 1
      BY <2>1
    <3> QED
      BY <2>1, <2>2, <3>1, <3>2
  <2>3. CASE toHost # <<>>
    <3>1. toDev = <<>> /\ \E p : toHost = <<p>>
      BY <2>3 DEF Inv, OneToken, Opening, Started, Requested, Delivered, Completed,
                  Refused, Lost
    <3> QED
      BY <2>1, <3>1
  <2> QED
    BY <2>2, <2>3
<1> QED
  BY <1>1, InvHolds, PTL

(***************************************************************************)
(* A return of 0 from a call that started in sync and was not aborted is   *)
(* the whole file in order, whatever was late, lost or refused.            *)
(***************************************************************************)
THEOREM CopiesAreWhole == Spec => []SuccessfulCopy
<1>1. Inv => SuccessfulCopy
  <2> SUFFICES ASSUME Inv, Returned("ok"), inSync, state # "ABORT", ~tainted
               PROVE  dst = File /\ ~torn
    BY DEF SuccessfulCopy
  <2>1. Len(dst) = N /\ ~torn /\ dst \in Seq(0..N)
    BY DEF Inv, CleanReturn, TypeOK, HostTypeOK
  <2>2. \A i \in 1..N : dst[i] = i
    BY <2>1 DEF Inv, Ordered
  <2>3. dst = [i \in 1..N |-> dst[i]]
    BY <2>1
  <2> QED
    BY <2>1, <2>2, <2>3 DEF File
<1> QED
  BY <1>1, InvHolds, PTL

(***************************************************************************)
(* Such a return leaves nothing for the next call to trip over.            *)
(***************************************************************************)
THEOREM SuccessIsQuiet == Spec => []SuccessLeavesQuiet
<1>1. Inv => SuccessLeavesQuiet
  BY DEF Inv, CleanReturn, SuccessLeavesQuiet
<1> QED
  BY <1>1, InvHolds, PTL

-----------------------------------------------------------------------------
(***************************************************************************)
(* Refinement.  A caller that goes on only after a success always starts   *)
(* in sync; a refused transfer is cancelled, and the device's answer to    *)
(* the CANCEL, the token now, ends the call.                               *)
(***************************************************************************)
Cancelling ==
  \/ toHost = <<>> /\ (toDev = <<"CANCEL">> \/ toDev = <<>>)
  \/ toHost = <<Packet("SUCCESS")>> /\ toDev = <<>>

Serial ==
  /\ inSync /\ ~tainted /\ ~rest
  /\ pc = "idle" /\ result = "none" => Quiet /\ toDev = <<>>
  /\ pc = "loop" /\ state = "ABORT" => Cancelling
  /\ Returned("ok") => state # "ABORT"

LEMMA SerialInit == Init => Serial
  BY DEF Init, Serial, Quiet, Returned

LEMMA SerialStep ==
  ASSUME Faults \cap {"damage", "disk"} = {}, Reuse = FALSE,
         Inv, Serial, [Next]_vars
  PROVE  Serial'
<1> USE DEF Serial, Returned
<1>1. CASE UNCHANGED vars
  BY <1>1 DEF vars, hostVars, pipeVars, devVars, Cancelling, Quiet
<1>2. CASE CallCannotOpen
  BY <1>2 DEF CallCannotOpen, pipeVars
<1>3. CASE CallPathTooLong \/ Call
  <2>1. /\ EnterCall
        /\ (pc' = "loop" /\ state' = "START") \/ (pc' = "idle" /\ result' = "eproto")
    BY <1>3 DEF CallPathTooLong, Call
  <2>2. MayCall /\ pc = "idle"
    BY <2>1 DEF EnterCall
  <2>3. Quiet
    BY <2>2 DEF MayCall, Inv, CleanReturn
  <2> QED
    BY <2>1, <2>3 DEF EnterCall
<1>4. CASE Host
  <2>a. ~RecvRestAsData /\ ~RecvRunt
    BY DEF RecvRestAsData, RecvRunt
  <2>b. Reception = {TRUE}
    BY DEF Reception
  <2>c. ~rest'
    BY <1>4, <2>a, <2>b
       DEF Host, RecvStart, RecvData, RecvDataCannotWrite, RecvUnexpected, RecvEnd,
           RecvFail, RecvSuccess, RecvUnhandled, ReadFails, Receive, pipeVars
  <2>0. pc = "loop"
    BY <1>4, <2>a
       DEF Host, RecvStart, RecvData, RecvDataCannotWrite, RecvUnexpected, RecvEnd,
           RecvFail, RecvSuccess, RecvUnhandled, RecvRunt, ReadFails, Receive
  <2>1. CASE state = "ABORT"
    <3>1. Cancelling
      BY <2>0, <2>1
    <3>2. RecvSuccess \/ RecvUnhandled \/ ReadFails
      <4>1. toHost # <<>> => Head(toHost).cmd = "SUCCESS"
        BY <3>1 DEF Cancelling, Packet
      <4> QED
        BY <1>4, <2>a, <4>1
           DEF Host, RecvStart, RecvData, RecvDataCannotWrite, RecvUnexpected, RecvEnd,
               RecvFail, RecvRunt, Receive
    <3>3. CASE RecvSuccess
      BY <2>c, <3>3 DEF RecvSuccess, Receive, Return
    <3>4. CASE RecvUnhandled
      BY <2>0, <2>1, <2>c, <3>1, <3>4 DEF RecvUnhandled, Cancelling
    <3>5. CASE ReadFails
      BY <2>c, <3>5 DEF ReadFails, Return
    <3> QED
      BY <3>2, <3>3, <3>4, <3>5
  <2>2. CASE state # "ABORT"
    <3>1. toHost # <<>> =>
            /\ toDev = <<>> /\ Tail(toHost) = <<>>
            /\ Head(toHost).cmd = "DATA_HDD_FILE_START" => state = "START"
            /\ Head(toHost).cmd = "DATA_HDD_FILE_DATA" => state = "DATA"
      BY <2>0, <2>2, TokenWithHost DEF Inv, Started, Delivered
    <3>2. ~RecvUnexpected /\ ~RecvDataCannotWrite
      BY <3>1 DEF RecvUnexpected, RecvDataCannotWrite, Receive
    <3>3. CASE RecvFail
      <4>1. PICK c \in Transmit("CANCEL") :
              /\ toHost # <<>> /\ toHost' = Tail(toHost) /\ toDev' = toDev \o c
              /\ UNCHANGED <<pc, inSync, tainted>>
        BY <3>3 DEF RecvFail, Receive
      <4>2. toHost' = <<>> /\ (toDev' = <<"CANCEL">> \/ toDev' = <<>>)
        BY <3>1, <4>1, TransmitCases
      <4> QED
        BY <2>0, <2>c, <4>1, <4>2 DEF Cancelling
    <3>4. CASE RecvStart
      BY <2>0, <2>c, <3>4 DEF RecvStart, Receive
    <3>5. CASE RecvData
      BY <2>0, <2>2, <2>b, <2>c, <3>5 DEF RecvData, Receive
    <3>6. CASE RecvEnd \/ RecvSuccess
      <4>1. /\ pc' = "idle" /\ result' \in {"ok", "eproto"}
            /\ UNCHANGED <<state, tainted, inSync>>
        BY <3>6 DEF RecvEnd, RecvSuccess, Receive, Return
      <4> QED
        BY <2>2, <2>c, <4>1
    <3>7. CASE RecvUnhandled
      BY <2>0, <2>2, <2>c, <3>7 DEF RecvUnhandled
    <3>8. CASE ReadFails
      BY <2>c, <3>8 DEF ReadFails, Return
    <3> QED
      BY <1>4, <2>a, <3>2, <3>3, <3>4, <3>5, <3>6, <3>7, <3>8 DEF Host
  <2> QED
    BY <2>1, <2>2
<1>5. CASE Device
  <2>1. UNCHANGED <<hostVars, rest>> /\ toDev # <<>> /\ toDev' = Tail(toDev)
    BY <1>5 DEF Device, DevStart, DevNext, DevClose, DevCancel, DevRefuse, DevTake
  <2>2. ASSUME pc = "loop", state = "ABORT" PROVE Cancelling'
    <3>1. toHost = <<>> /\ toDev = <<"CANCEL">> /\ toDev' = <<>>
      BY <2>1, <2>2 DEF Cancelling
    <3>2. toHost' = Append(toHost, Packet("SUCCESS"))
      BY <1>5, <3>1
         DEF Device, DevStart, DevNext, DevClose, DevCancel, DevRefuse, DevTake, DevSay
    <3> QED
      BY <3>1, <3>2 DEF Cancelling
  <2> QED
    BY <2>1, <2>2 DEF hostVars
<1> QED
  BY <1>1, <1>2, <1>3, <1>4, <1>5 DEF Next

(***************************************************************************)
(* Every step of a serial caller's calls is a step of FileCopy or leaves   *)
(* its variables alone.                                                    *)
(***************************************************************************)
LEMMA StepRefines ==
  ASSUME Faults \cap {"damage", "disk"} = {}, Reuse = FALSE,
         Inv, Serial, [Next]_vars
  PROVE  [Abstract!CopyNext]_Abstract!copyVars
<1> USE DEF Phase, Abstract!CopyNext, Abstract!copyVars
<1>0. TypeOK /\ HostTypeOK
  BY DEF Inv, TypeOK
<1>1. CASE UNCHANGED vars
  BY <1>1 DEF vars, hostVars
<1>2. CASE CallCannotOpen
  BY <1>2 DEF CallCannotOpen, Abstract!Refuse
<1>3. CASE CallPathTooLong
  BY <1>3 DEF CallPathTooLong, EnterCall, Abstract!Refuse
<1>4. CASE Call
  BY <1>4 DEF Call, EnterCall, Abstract!Begin
<1>5. CASE Host
  <2>a. ~RecvRestAsData
    BY DEF RecvRestAsData, Serial
  <2>0. pc = "loop" /\ (state = "ABORT" => Cancelling)
    BY <1>5, <2>a
       DEF Host, RecvStart, RecvData, RecvDataCannotWrite, RecvUnexpected, RecvEnd,
           RecvFail, RecvSuccess, RecvUnhandled, RecvRunt, ReadFails, Receive, Serial
  <2>1. CASE RecvData
    <3>1. PICK intact \in Reception :
            /\ toHost # <<>> /\ Head(toHost).cmd = "DATA_HDD_FILE_DATA" /\ state = "DATA"
            /\ dst' = Append(dst, IF intact THEN Head(toHost).blk ELSE 0)
            /\ UNCHANGED <<pc, result>>
      BY <2>1 DEF RecvData, Receive
    <3>2. dst' = Append(dst, Head(toHost).blk)
      BY <3>1 DEF Reception
    <3>3. Head(toHost).blk = Len(dst) + 1 /\ Len(dst) < N
      BY <2>0, <3>1, TokenWithHost, FileGetAssumption
         DEF Inv, Serial, Delivered, TypeOK, LinkTypeOK, HostTypeOK
    <3> QED
      BY <2>0, <3>1, <3>2, <3>3 DEF Abstract!Extend
  <2>2. CASE RecvEnd
    <3>1. state # "ABORT"
      BY <2>0, <2>2 DEF RecvEnd, Receive, Cancelling, Packet
    <3>2. Len(dst) = N
      BY <2>0, <2>2, <3>1, TokenWithHost DEF RecvEnd, Receive, Inv, Serial, Completed
    <3>3. pc' = "idle" /\ result' = "ok" /\ dst' = dst
      BY <2>2 DEF RecvEnd, Return
    <3> QED
      BY <2>0, <3>2, <3>3 DEF Abstract!Succeed
  <2>3. CASE RecvSuccess \/ RecvRunt \/ ReadFails
    <3>1. pc' = "idle" /\ result' = "eproto" /\ dst' = dst
      BY <2>3 DEF RecvSuccess, RecvRunt, ReadFails, Return
    <3> QED
      BY <2>0, <3>1 DEF Abstract!GiveUp
  <2>4. CASE RecvStart \/ RecvUnexpected \/ RecvFail \/ RecvUnhandled
    BY <2>4 DEF RecvStart, RecvUnexpected, RecvFail, RecvUnhandled
  <2>5. ~RecvDataCannotWrite
    BY DEF RecvDataCannotWrite
  <2> QED
    BY <1>5, <2>a, <2>1, <2>2, <2>3, <2>4, <2>5 DEF Host
<1>6. CASE Device
  BY <1>6, DeviceStepTypes DEF Inv, TypeOK, hostVars
<1> QED
  BY <1>1, <1>2, <1>3, <1>4, <1>5, <1>6 DEF Next

(***************************************************************************)
(* Without damaged packets and failed writes, and for a caller that stops  *)
(* at the first failure, a fetch keeps FileCopy's promise: the copy grows  *)
(* in file order and success means that it is whole.                       *)
(***************************************************************************)
THEOREM FetchImplementsFileCopy ==
  ASSUME Faults \cap {"damage", "disk"} = {}, Reuse = FALSE
  PROVE  Spec => FileCopySafety
<1>1. Init => Abstract!CopyInit
  BY DEF Init, Abstract!CopyInit, Phase
<1>2. Inv /\ Serial /\ [Next]_vars => Serial'
  BY SerialStep
<1>3. Inv /\ Serial /\ [Next]_vars => [Abstract!CopyNext]_Abstract!copyVars
  BY StepRefines
<1> QED
  BY <1>1, <1>2, <1>3, SerialInit, InvHolds, PTL DEF Spec, FileCopySafety, Abstract!CopySafety

-----------------------------------------------------------------------------
(***************************************************************************)
(* A handle that is used again whatever the last call returned: what the   *)
(* packets of earlier calls, still under way, can do to a later one; and   *)
(* calls that were aborted.                                                *)
(***************************************************************************)

(***************************************************************************)
(* The device sends the blocks of a file one after the other, and a START  *)
(* first, however often it is interrupted.  So in the pipe a data packet   *)
(* follows the one before it, the last packet is the last one sent, and    *)
(* the first is the one after the last block that was stored.              *)
(***************************************************************************)
PartOfFile == {"DATA_HDD_FILE_START", "DATA_HDD_FILE_DATA"}

(* START counts as block 0. *)
Number(p) == IF p.cmd = "DATA_HDD_FILE_DATA" THEN p.blk ELSE 0

Follows(p, q) ==
  q.cmd = "DATA_HDD_FILE_DATA" => p.cmd \in PartOfFile /\ q.blk = Number(p) + 1

Chained == \A i \in 1..(Len(toHost) - 1) : Follows(toHost[i], toHost[i + 1])

Sending == dev = "sending" /\ sent <= N

LastSent ==
  Sending /\ toHost # <<>> =>
    toHost[Len(toHost)].cmd \in PartOfFile /\ Number(toHost[Len(toHost)]) = sent

Reading == pc = "loop" /\ state = "DATA" /\ ~tainted

NextRead ==
  Reading =>
    /\ toHost # <<>> /\ Head(toHost).cmd = "DATA_HDD_FILE_DATA"
         => Head(toHost).blk = Len(dst) + 1
    /\ toHost = <<>> /\ Sending => sent = Len(dst)

Prefix == ~tainted => \A i \in 1..Len(dst) : dst[i] = i

Fresh == pc = "loop" /\ state = "START" => dst = <<>>

(* The pipe may hold packets of a listing as well. *)
AnyCommands == Commands \cup {"DATA_HDD_DIR", "DATA_HDD_DIR_END"}
AnyPackets  == [cmd : AnyCommands, blk : 0..N]

StreamTypeOK == toHost \in Seq(AnyPackets) /\ dst \in Seq(0..N) /\ sent \in 0..(N + 1)

ReuseInv == StreamTypeOK /\ Chained /\ LastSent /\ NextRead /\ Prefix /\ Fresh

LEMMA AnswersArePackets ==
  ASSUME NEW c \in AnyCommands
  PROVE  Packet(c) \in AnyPackets /\ Packet(c).cmd = c /\ Packet(c).blk = 0
  BY FileGetAssumption DEF Packet, AnyPackets

LEMMA ReuseInit == Init => ReuseInv
<1> SUFFICES ASSUME Init PROVE ReuseInv
  OBVIOUS
<1>1. StreamTypeOK
  BY FileGetAssumption DEF Init, StreamTypeOK
<1> QED
  BY <1>1 DEF Init, ReuseInv, Chained, LastSent, NextRead, Prefix, Fresh, Sending, Reading

(***************************************************************************)
(* Taking the first packet off the pipe.                                   *)
(***************************************************************************)
LEMMA PipeAfterTake ==
  ASSUME ReuseInv, toHost # <<>>, toHost' = Tail(toHost), UNCHANGED devVars
  PROVE  /\ toHost' \in Seq(AnyPackets) /\ Chained' /\ LastSent'
         /\ toHost' # <<>> => Follows(Head(toHost), Head(toHost'))
         /\ toHost' = <<>> /\ Sending' =>
              Head(toHost).cmd \in PartOfFile /\ Number(Head(toHost)) = sent
<1> DEFINE q == toHost
<1>1. q \in Seq(AnyPackets) /\ q # <<>>
  BY DEF ReuseInv, StreamTypeOK
<1>2. /\ Len(Tail(q)) = Len(q) - 1 /\ Len(q) \in Nat \ {0} /\ Head(q) = q[1]
      /\ \A i \in 1..(Len(q) - 1) : Tail(q)[i] = q[i + 1]
  BY <1>1
<1>3. Tail(q) # <<>> => Len(q) > 1 /\ Head(Tail(q)) = q[2]
  BY <1>1
<1>4. Tail(q) = <<>> => Len(q) = 1
  <2>1. Len(<<>>) = 0
    OBVIOUS
  <2> QED
    BY <1>2, <2>1
<1>5. Chained'
  <2> SUFFICES ASSUME NEW i \in 1..(Len(Tail(q)) - 1)
               PROVE  Follows(Tail(q)[i], Tail(q)[i + 1])
    BY DEF Chained, Follows
  <2>1. i \in 1..(Len(q) - 1) /\ i + 1 \in 1..(Len(q) - 1)
    BY <1>2
  <2>2. Tail(q)[i] = q[i + 1] /\ Tail(q)[i + 1] = q[i + 1 + 1]
    BY <1>2, <2>1
  <2>3. Follows(q[i + 1], q[i + 1 + 1])
    BY <2>1 DEF ReuseInv, Chained
  <2> QED
    BY <2>2, <2>3
<1>6. LastSent'
  <2> SUFFICES ASSUME Sending', Tail(q) # <<>>
               PROVE  /\ Tail(q)[Len(Tail(q))].cmd \in PartOfFile
                      /\ Number(Tail(q)[Len(Tail(q))]) = sent
    BY DEF LastSent, devVars
  <2>1. Sending
    BY DEF Sending, devVars
  <2>2. Tail(q)[Len(Tail(q))] = q[Len(q)]
    BY <1>2, <1>3
  <2> QED
    BY <1>1, <2>1, <2>2 DEF ReuseInv, LastSent
<1>7. toHost' # <<>> => Follows(Head(toHost), Head(toHost'))
  <2> SUFFICES ASSUME Tail(q) # <<>> PROVE Follows(q[1], q[2])
    BY <1>2, <1>3
  <2>1. 1 \in 1..(Len(q) - 1) /\ 1 + 1 = 2
    BY <1>2, <1>3
  <2> QED
    BY <2>1 DEF ReuseInv, Chained
<1>8. toHost' = <<>> /\ Sending' =>
        Head(toHost).cmd \in PartOfFile /\ Number(Head(toHost)) = sent
  BY <1>1, <1>2, <1>4 DEF ReuseInv, LastSent, Sending, devVars
<1>9. toHost' \in Seq(AnyPackets)
  BY <1>1, HeadTailProperties
<1> QED
  BY <1>5, <1>6, <1>7, <1>8, <1>9

LEMMA PipeUntouched ==
  ASSUME ReuseInv, UNCHANGED <<toHost, dev, sent>>
  PROVE  toHost' \in Seq(AnyPackets) /\ Chained' /\ LastSent'
  BY DEF ReuseInv, StreamTypeOK, Chained, LastSent, Sending, Follows

(* START opens the file, if it is the first thing a call reads. *)
LEMMA ReuseAfterStart ==
  ASSUME ReuseInv, RecvStart
  PROVE  ReuseInv'
<1>1. /\ toHost # <<>> /\ Head(toHost).cmd = "DATA_HDD_FILE_START"
      /\ toHost' = Tail(toHost) /\ pc = "loop" /\ state = "START" /\ state' = "DATA"
      /\ UNCHANGED devVars /\ UNCHANGED <<dst, tainted>>
  BY DEF RecvStart, Receive
<1>2. dst = <<>> /\ Len(dst) = 0
  BY <1>1 DEF ReuseInv, Fresh
<1>3. Number(Head(toHost)) = 0
  BY <1>1 DEF Number
<1> QED
  BY <1>1, <1>2, <1>3, PipeAfterTake
     DEF ReuseInv, StreamTypeOK, NextRead, Prefix, Fresh, Follows, Sending, devVars

(* A data packet that is stored is the next block, unless it is damaged. *)
LEMMA ReuseAfterData ==
  ASSUME ReuseInv, RecvData
  PROVE  ReuseInv'
<1>1. PICK intact \in Reception :
        /\ toHost # <<>> /\ Head(toHost).cmd = "DATA_HDD_FILE_DATA"
        /\ toHost' = Tail(toHost) /\ pc = "loop" /\ state = "DATA" /\ state' = "DATA"
        /\ dst' = Append(dst, IF intact THEN Head(toHost).blk ELSE 0)
        /\ tainted' = (tainted \/ ~intact)
        /\ UNCHANGED devVars
  BY DEF RecvData, Receive
<1>2. dst \in Seq(0..N) /\ dst' \in Seq(0..N)
  <2>1. dst \in Seq(0..N) /\ Head(toHost) \in AnyPackets
    BY <1>1 DEF ReuseInv, StreamTypeOK
  <2>2. Head(toHost).blk \in 0..N
    BY <2>1 DEF AnyPackets
  <2> QED
    BY <1>1, <2>1, <2>2, FileGetAssumption
<1>3. /\ Len(dst') = Len(dst) + 1 /\ Len(dst) \in Nat
      /\ dst'[Len(dst) + 1] = (IF intact THEN Head(toHost).blk ELSE 0)
      /\ \A i \in 1..Len(dst) : dst'[i] = dst[i]
  BY <1>1, <1>2
<1>4. Number(Head(toHost)) = Head(toHost).blk
  BY <1>1 DEF Number
<1>5. StreamTypeOK' /\ Chained' /\ LastSent' /\ Fresh'
  BY <1>1, <1>2, PipeAfterTake DEF ReuseInv, StreamTypeOK, Fresh, devVars
<1>6. ASSUME ~tainted' PROVE intact /\ ~tainted /\ Head(toHost).blk = Len(dst) + 1
  BY <1>1, <1>6 DEF ReuseInv, NextRead, Reading
<1>7. NextRead'
  <2> SUFFICES ASSUME ~tainted'
               PROVE  /\ toHost' # <<>> /\ Head(toHost').cmd = "DATA_HDD_FILE_DATA"
                           => Head(toHost').blk = Len(dst') + 1
                      /\ toHost' = <<>> /\ Sending' => sent' = Len(dst')
    BY DEF NextRead, Reading
  <2>1. Number(Head(toHost)) = Len(dst')
    BY <1>3, <1>4, <1>6
  <2>2. /\ toHost' # <<>> => Follows(Head(toHost), Head(toHost'))
        /\ toHost' = <<>> /\ Sending' => Number(Head(toHost)) = sent
    BY <1>1, PipeAfterTake
  <2> QED
    BY <1>1, <2>1, <2>2 DEF Follows, devVars
<1>8. Prefix'
  <2> SUFFICES ASSUME ~tainted', NEW i \in 1..Len(dst') PROVE dst'[i] = i
    BY DEF Prefix
  <2>1. CASE i = Len(dst) + 1
    BY <2>1, <1>3, <1>6
  <2>2. CASE i \in 1..Len(dst)
    BY <2>2, <1>3, <1>6 DEF ReuseInv, Prefix
  <2> QED
    BY <2>1, <2>2, <1>3
<1> QED
  BY <1>5, <1>7, <1>8 DEF ReuseInv

(* Every other iteration stores nothing and does not go on in state DATA, *)
(* except that an unrecognisable packet taints the call.                  *)
LEMMA ReuseAfterHost ==
  ASSUME ReuseInv, Host
  PROVE  ReuseInv'
<1>1. CASE RecvStart
  BY <1>1, ReuseAfterStart
<1>2. CASE RecvData
  BY <1>2, ReuseAfterData
<1>3. CASE ~RecvStart /\ ~RecvData /\ ~RecvRestAsData
  <2>1. /\ toHost' = toHost \/ (toHost # <<>> /\ toHost' = Tail(toHost))
        /\ UNCHANGED devVars
    BY HostTakes
  <2>2. toHost' \in Seq(AnyPackets) /\ Chained' /\ LastSent'
    BY <2>1, PipeAfterTake, PipeUntouched DEF devVars
  <2>3. UNCHANGED dst
    BY <1>3
       DEF Host, RecvDataCannotWrite, RecvUnexpected, RecvEnd, RecvFail, RecvSuccess,
           RecvUnhandled, RecvRunt, ReadFails
  <2>3a. tainted => tainted'
    BY <1>3, Zenon
       DEF Host, RecvDataCannotWrite, RecvUnexpected, RecvEnd, RecvFail, RecvSuccess,
           RecvUnhandled, RecvRunt, ReadFails
  <2>4. \/ pc' # "loop" \/ state' = "ABORT"
        \/ UNCHANGED <<pc, state, tainted, toHost>>
        \/ UNCHANGED <<pc, state>> /\ tainted'
    BY <1>3, ZenonT(30)
       DEF Host, RecvDataCannotWrite, RecvUnexpected, RecvEnd, RecvFail, RecvSuccess,
           RecvUnhandled, RecvRunt, ReadFails, Return
  <2>5. Prefix' /\ Fresh'
    BY <2>3, <2>3a, <2>4 DEF ReuseInv, Prefix, Fresh
  <2>6. NextRead'
    BY <2>1, <2>3, <2>4 DEF ReuseInv, NextRead, Reading, Sending, devVars
  <2> QED
    BY <2>1, <2>2, <2>3, <2>5, <2>6 DEF ReuseInv, StreamTypeOK, devVars
<1>4. CASE RecvRestAsData
  <2>1. /\ UNCHANGED <<toHost, dev, sent>> /\ tainted'
        /\ state' = "DATA" \/ state' = "ABORT"
        /\ dst' = Append(dst, 0) \/ dst' = dst
    BY <1>4, RestTaken
  <2>2. dst' \in Seq(0..N)
    <3>1. dst \in Seq(0..N) /\ 0 \in 0..N
      BY FileGetAssumption DEF ReuseInv, StreamTypeOK
    <3>2. Append(dst, 0) \in Seq(0..N)
      BY <3>1
    <3> QED
      BY <2>1, <3>1, <3>2, Zenon
  <2> QED
    BY <2>1, <2>2, PipeUntouched
       DEF ReuseInv, StreamTypeOK, NextRead, Prefix, Fresh, Reading
<1> QED
  BY <1>1, <1>2, <1>3, <1>4

(***************************************************************************)
(* What the device sends goes to the end of the pipe.                      *)
(***************************************************************************)
LEMMA PipeAfterSend ==
  ASSUME ReuseInv, UNCHANGED hostVars,
         NEW p \in AnyPackets, toHost' = Append(toHost, p),
         p.cmd = "DATA_HDD_FILE_DATA" => Sending /\ p.blk = sent + 1,
         Sending' => p.cmd \in PartOfFile /\ Number(p) = sent'
  PROVE  toHost' \in Seq(AnyPackets) /\ Chained' /\ LastSent' /\ NextRead'
<1> DEFINE q == toHost
           r == Append(q, p)
<1>1. q \in Seq(AnyPackets) /\ r \in Seq(AnyPackets)
  BY DEF ReuseInv, StreamTypeOK
<1>2. /\ Len(r) = Len(q) + 1 /\ Len(q) \in Nat /\ r[Len(q) + 1] = p /\ r # <<>>
      /\ \A i \in 1..Len(q) : r[i] = q[i]
  BY <1>1
<1>3. Chained'
  <2> SUFFICES ASSUME NEW i \in 1..(Len(r) - 1) PROVE Follows(r[i], r[i + 1])
    BY DEF Chained, Follows
  <2>1. CASE i \in 1..(Len(q) - 1)
    <3>1. r[i] = q[i] /\ r[i + 1] = q[i + 1]
      BY <2>1, <1>2
    <3> QED
      BY <2>1, <3>1 DEF ReuseInv, Chained
  <2>2. CASE i = Len(q)
    <3>1. q # <<>> /\ r[i] = q[Len(q)] /\ r[i + 1] = p
      BY <2>2, <1>2
    <3>2. SUFFICES ASSUME p.cmd = "DATA_HDD_FILE_DATA"
                   PROVE  q[Len(q)].cmd \in PartOfFile /\ p.blk = Number(q[Len(q)]) + 1
      BY <3>1 DEF Follows
    <3> QED
      BY <3>1, <3>2 DEF ReuseInv, LastSent
  <2> QED
    BY <2>1, <2>2, <1>2
<1>4. LastSent'
  BY <1>2 DEF LastSent
<1>5. NextRead'
  <2> SUFFICES ASSUME Reading, Head(r).cmd = "DATA_HDD_FILE_DATA"
               PROVE  Head(r).blk = Len(dst) + 1
    BY <1>2 DEF NextRead, Reading, hostVars
  <2>1. CASE q # <<>>
    <3>1. Head(r) = Head(q)
      BY <2>1, <1>1
    <3> QED
      BY <2>1, <3>1 DEF ReuseInv, NextRead
  <2>2. CASE q = <<>>
    <3>1. Head(r) = p
      BY <2>2, <1>1
    <3> QED
      BY <2>2, <3>1 DEF ReuseInv, NextRead
  <2> QED
    BY <2>1, <2>2
<1> QED
  BY <1>1, <1>3, <1>4, <1>5

LEMMA ReuseAfterDevice ==
  ASSUME ReuseInv, Device
  PROVE  ReuseInv'
<1> DEFINE Goal == toHost' \in Seq(AnyPackets) /\ Chained' /\ LastSent' /\ NextRead'
<1>1. UNCHANGED hostVars
  BY DEF Device, DevStart, DevNext, DevClose, DevCancel, DevRefuse, DevTake
<1>2. Prefix' /\ Fresh'
  BY <1>1 DEF ReuseInv, Prefix, Fresh, hostVars
<1>2a. StreamTypeOK' <=> toHost' \in Seq(AnyPackets) /\ sent' \in 0..(N + 1)
  BY <1>1 DEF ReuseInv, StreamTypeOK, hostVars
<1>2b. sent' \in 0..(N + 1)
  BY FileGetAssumption
     DEF ReuseInv, StreamTypeOK, Device, DevStart, DevNext, DevClose, DevCancel, DevRefuse
<1> SUFFICES Goal
  BY <1>2, <1>2a, <1>2b DEF ReuseInv
<1>3. CASE DevStart
  <2> DEFINE p == Packet("DATA_HDD_FILE_START")
  <2>1. /\ p \in AnyPackets /\ p.cmd = "DATA_HDD_FILE_START" /\ Number(p) = 0
        /\ toHost' = Append(toHost, p) /\ sent' = 0
    BY <1>3, AnswersArePackets
       DEF AnyCommands, Commands, DevStart, DevSay, Number
  <2> QED
    BY <1>1, <2>1, PipeAfterSend DEF PartOfFile
<1>4. CASE DevNext
  <2>1. Sending /\ sent' = sent + 1 /\ sent \in 0..N
    BY <1>4, FileGetAssumption DEF DevNext, Sending, ReuseInv, StreamTypeOK
  <2>2. CASE sent < N
    <3> DEFINE p == [cmd |-> "DATA_HDD_FILE_DATA", blk |-> sent + 1]
    <3>1. p \in AnyPackets /\ Number(p) = sent' /\ toHost' = Append(toHost, p)
      BY <1>4, <2>1, <2>2, FileGetAssumption
         DEF DevNext, DevSay, AnyPackets, AnyCommands, Commands, Number
    <3> QED
      BY <1>1, <2>1, <3>1, PipeAfterSend DEF PartOfFile
  <2>3. CASE ~(sent < N)
    <3> DEFINE p == Packet("DATA_HDD_FILE_END")
    <3>1. /\ p \in AnyPackets /\ p.cmd # "DATA_HDD_FILE_DATA"
          /\ toHost' = Append(toHost, p) /\ ~Sending'
      BY <1>4, <2>1, <2>3, FileGetAssumption, AnswersArePackets
         DEF AnyCommands, Commands, DevNext, DevSay, Sending
    <3> QED
      BY <1>1, <3>1, PipeAfterSend
  <2> QED
    BY <2>2, <2>3
<1>5. CASE DevClose
  <2>1. UNCHANGED toHost /\ ~Sending'
    BY <1>5 DEF DevClose, Sending
  <2> QED
    BY <1>1, <2>1
       DEF ReuseInv, StreamTypeOK, Chained, LastSent, NextRead, Reading, Follows, hostVars
<1>6. CASE DevCancel
  <2> DEFINE p == Packet("SUCCESS")
  <2>1. p \in AnyPackets /\ p.cmd # "DATA_HDD_FILE_DATA"
    BY AnswersArePackets DEF AnyCommands, Commands
  <2>2. toHost' = Append(toHost, p) /\ ~Sending'
    BY <1>6 DEF DevCancel, DevSay, Sending
  <2> QED
    BY <1>1, <2>1, <2>2, PipeAfterSend
<1>7. CASE DevRefuse
  <2> DEFINE p == Packet("FAIL")
  <2>1. p \in AnyPackets /\ p.cmd # "DATA_HDD_FILE_DATA"
    BY AnswersArePackets DEF AnyCommands, Commands
  <2>2. toHost' = Append(toHost, p) /\ ~Sending'
    BY <1>7 DEF DevRefuse, DevSay, Sending
  <2> QED
    BY <1>1, <2>1, <2>2, PipeAfterSend
<1> QED
  BY <1>3, <1>4, <1>5, <1>6, <1>7 DEF Device

LEMMA ReuseAfterCall ==
  ASSUME ReuseInv, CallCannotOpen \/ CallPathTooLong \/ Call
  PROVE  ReuseInv'
<1>1. UNCHANGED <<toHost, dev, sent>>
  BY DEF CallCannotOpen, CallPathTooLong, Call, EnterCall, pipeVars, devVars
<1>2. toHost' \in Seq(AnyPackets) /\ Chained' /\ LastSent'
  BY <1>1, PipeUntouched
<1>3. /\ pc' = "idle" \/ (state' = "START" /\ dst' = <<>>)
      /\ UNCHANGED <<dst, tainted>> \/ dst' = <<>>
  BY DEF ReuseInv, CallCannotOpen, CallPathTooLong, Call, EnterCall
<1>4. NextRead' /\ Fresh'
  BY <1>3 DEF NextRead, Reading, Fresh
<1>5. Prefix'
  BY <1>3 DEF ReuseInv, Prefix
<1>6. dst' \in Seq(0..N)
  <2>1. <<>> \in Seq(0..N) /\ dst \in Seq(0..N)
    BY DEF ReuseInv, StreamTypeOK
  <2>2. dst' = dst \/ dst' = <<>>
    BY <1>3
  <2> QED
    BY <2>1, <2>2
<1> QED
  BY <1>1, <1>2, <1>4, <1>5, <1>6 DEF ReuseInv, StreamTypeOK

LEMMA ReuseStep == ReuseInv /\ [Next]_vars => ReuseInv'
<1> SUFFICES ASSUME ReuseInv, [Next]_vars PROVE ReuseInv'
  OBVIOUS
<1>1. CASE UNCHANGED vars
  BY <1>1
     DEF vars, hostVars, pipeVars, devVars, ReuseInv, StreamTypeOK, Chained,
         LastSent, NextRead, Prefix, Fresh, Sending, Reading, Follows
<1> QED
  BY <1>1, ReuseAfterCall, ReuseAfterHost, ReuseAfterDevice DEF Next

(***************************************************************************)
(* What puppy-get relies on: however many calls on this handle failed      *)
(* before, and whatever of them is still under way, a return of 0 and a    *)
(* destination of the device's size mean the device's file, unless a       *)
(* packet of this call arrived damaged.                                    *)
(***************************************************************************)
THEOREM SizesAreEnough == Spec => []SizeCheckSuffices
<1>1. ReuseInv => SizeCheckSuffices
  <2> SUFFICES ASSUME ReuseInv, FullSize, ~tainted PROVE dst = File
    BY DEF SizeCheckSuffices
  <2>1. Len(dst) = N /\ dst \in Seq(0..N) /\ \A i \in 1..N : dst[i] = i
    BY DEF ReuseInv, Prefix, FullSize, StreamTypeOK
  <2>2. dst = [i \in 1..N |-> dst[i]]
    BY <2>1
  <2> QED
    BY <2>1, <2>2 DEF File
<1> QED
  BY <1>1, ReuseInit, ReuseStep, PTL DEF Spec
-----------------------------------------------------------------------------
(***************************************************************************)
(* Calls that started in sync: what an abort means for the file, and the   *)
(* time stamp.  A call is aborted either before the last block has been    *)
(* stored, or by a FAIL, and then the device has no END left to send.      *)
(***************************************************************************)
CannotEnd ==
  /\ dev = "idle"
  /\ \A i \in 1..Len(toHost) : toHost[i].cmd # "DATA_HDD_FILE_END"
  /\ \A i \in 1..Len(toDev) : toDev[i] # "CMD_HDD_FILE_SEND"

RefusedIdle ==
  pc = "loop" /\ inSync /\ state # "ABORT" /\ toHost # <<>> /\ Head(toHost).cmd = "FAIL"
    => dev = "idle"

AbortedShort ==
  /\ pc = "loop" /\ inSync /\ state = "ABORT" => Len(dst) < N \/ CannotEnd
  /\ Returned("ok") /\ inSync /\ state = "ABORT" => Len(dst) < N

Stamped ==
  Program = "libpuppy" /\ inSync =>
    /\ pc = "loop" /\ state = "DATA" => modtime \in {"stamp", "junk"}
    /\ Returned("ok") /\ state # "ABORT" => mtime \in {"stamp", "junk"}

SyncInv == Inv /\ RefusedIdle /\ AbortedShort /\ Stamped

LEMMA SyncInit == Init => SyncInv
  BY InvInit DEF Init, SyncInv, RefusedIdle, AbortedShort, Stamped, Returned

(* Answers the host may give in a call that has been aborted. *)
LEMMA RepliesAreNoCommands ==
  ASSUME NEW S, toDev \in Seq(S), NEW t \in Seq(Replies), toDev' = toDev \o t,
         \A i \in 1..Len(toDev) : toDev[i] # "CMD_HDD_FILE_SEND"
  PROVE  \A i \in 1..Len(toDev') : toDev'[i] # "CMD_HDD_FILE_SEND"
<1>1. /\ Len(toDev') = Len(toDev) + Len(t) /\ Len(toDev) \in Nat /\ Len(t) \in Nat
      /\ \A i \in 1..Len(toDev) : toDev'[i] = toDev[i]
      /\ \A i \in 1..Len(t) : toDev'[Len(toDev) + i] = t[i] /\ t[i] \in Replies
  OBVIOUS
<1> SUFFICES ASSUME NEW i \in 1..Len(toDev'), i \notin 1..Len(toDev)
             PROVE  toDev'[i] # "CMD_HDD_FILE_SEND"
  BY <1>1
<1>2. i - Len(toDev) \in 1..Len(t) /\ i = Len(toDev) + (i - Len(toDev))
  BY <1>1
<1> QED
  BY <1>1, <1>2 DEF Replies

(* FAIL is all there is in the link when it arrives in sync. *)
LEMMA RefusalIsAlone ==
  ASSUME SyncInv, pc = "loop", inSync, state # "ABORT", toHost # <<>>,
         Head(toHost).cmd = "FAIL"
  PROVE  CannotEnd /\ toDev = <<>> /\ Tail(toHost) = <<>>
<1>1. toDev = <<>> /\ Tail(toHost) = <<>>
  BY TokenWithHost DEF SyncInv, Inv
<1>2. dev = "idle"
  BY DEF SyncInv, RefusedIdle
<1>3. Len(toHost) = 1 /\ toHost[1] = Head(toHost)
  <2>1. toHost \in Seq(Packets)
    BY DEF SyncInv, Inv, TypeOK, LinkTypeOK
  <2>2. Len(Tail(toHost)) = Len(toHost) - 1 /\ Head(toHost) = toHost[1]
    BY <2>1
  <2>3. Len(<<>>) = 0 /\ Len(toHost) \in Nat
    BY <2>1
  <2> QED
    BY <1>1, <2>2, <2>3
<1> QED
  BY <1>1, <1>2, <1>3 DEF CannotEnd
(***************************************************************************)
(* How an iteration can abort the call: on the next block, which then is   *)
(* missing, or on a FAIL.                                                  *)
(***************************************************************************)
LEMMA AbortingStep ==
  ASSUME SyncInv, Host, pc = "loop", inSync, state # "ABORT",
         pc' = "loop", state' = "ABORT", inSync'
  PROVE  Len(dst') < N \/ CannotEnd'
<1>1. CASE RecvDataCannotWrite
  <2>1. toHost # <<>> /\ Head(toHost).cmd = "DATA_HDD_FILE_DATA" /\ UNCHANGED dst
    BY <1>1 DEF RecvDataCannotWrite, Receive
  <2>2. Delivered
    BY <2>1, TokenWithHost DEF SyncInv, Inv
  <2> QED
    BY <2>1, <2>2, FileGetAssumption DEF Delivered, SyncInv, Inv, TypeOK, HostTypeOK
<1>2. CASE RecvUnexpected
  <2>1. PICK cmd \in {"DATA_HDD_FILE_START", "DATA_HDD_FILE_DATA"} :
          /\ toHost # <<>> /\ Head(toHost).cmd = cmd
          /\ state # (IF cmd = "DATA_HDD_FILE_START" THEN "START" ELSE "DATA")
    BY <1>2 DEF RecvUnexpected, Receive
  <2> QED
    BY <2>1, TokenWithHost DEF SyncInv, Inv, Started, Delivered
<1>3. CASE RecvFail
  <2>1. PICK c \in Transmit("CANCEL") :
          /\ toHost # <<>> /\ Head(toHost).cmd = "FAIL" /\ toHost' = Tail(toHost)
          /\ toDev' = toDev \o c /\ UNCHANGED devVars
    BY <1>3 DEF RecvFail, Receive
  <2>2. CannotEnd /\ toDev = <<>> /\ toHost' = <<>>
    BY <2>1, RefusalIsAlone
  <2>3. toDev' = <<"CANCEL">> \/ toDev' = <<>>
    BY <2>1, <2>2, TransmitCases
  <2>4. Len(toHost') = 0 /\ \A i \in 1..Len(toDev') : toDev'[i] # "CMD_HDD_FILE_SEND"
    BY <2>2, <2>3
  <2> QED
    BY <2>1, <2>2, <2>4 DEF CannotEnd, devVars
<1>4. state' = state \/ RecvDataCannotWrite \/ RecvUnexpected \/ RecvFail \/ RecvStart
  BY RestTaken DEF Host, RecvData, RecvEnd, RecvSuccess, RecvUnhandled, RecvRunt, ReadFails
<1>5. ~RecvStart
  BY DEF RecvStart
<1> QED
  BY <1>1, <1>2, <1>3, <1>4, <1>5

(* What the host does once the call has been aborted. *)
LEMMA AbortedStep ==
  ASSUME SyncInv, Host, pc = "loop", state = "ABORT", CannotEnd
  PROVE  CannotEnd' /\ ~RecvEnd
<1>1. toHost \in Seq(Packets) /\ toDev \in Seq(Requests) /\ LinkTypeOK
  BY DEF SyncInv, Inv, TypeOK, LinkTypeOK
<1>2. /\ toHost' = toHost \/ (toHost # <<>> /\ toHost' = Tail(toHost))
      /\ UNCHANGED devVars
  BY <1>1, HostOnLink
<1>3. \A i \in 1..Len(toHost') : toHost'[i].cmd # "DATA_HDD_FILE_END"
  <2>1. CASE toHost' = toHost
    BY <2>1 DEF CannotEnd
  <2>2. CASE toHost # <<>> /\ toHost' = Tail(toHost)
    <3>1. \A i \in 1..Len(toHost') : toHost'[i] = toHost[i + 1] /\ i + 1 \in 1..Len(toHost)
      BY <1>1, <2>2
    <3> QED
      BY <3>1 DEF CannotEnd
  <2> QED
    BY <1>2, <2>1, <2>2
<1>4. ~RecvEnd
  <2> SUFFICES ASSUME RecvEnd PROVE FALSE
    OBVIOUS
  <2>1. toHost # <<>> /\ Head(toHost).cmd = "DATA_HDD_FILE_END"
    BY DEF RecvEnd, Receive
  <2>2. Head(toHost) = toHost[1] /\ 1 \in 1..Len(toHost)
    BY <1>1, <2>1
  <2> QED
    BY <2>1, <2>2 DEF CannotEnd
<1>5. PICK t \in Seq(Replies) : toDev' = toDev \o t
  BY <1>1, HostAnswers DEF Replies, Requests
<1>6. \A i \in 1..Len(toDev') : toDev'[i] # "CMD_HDD_FILE_SEND"
  BY <1>1, <1>5, RepliesAreNoCommands DEF CannotEnd
<1> QED
  BY <1>2, <1>3, <1>4, <1>6 DEF CannotEnd, devVars
(* Only END returns 0; every other iteration goes on or fails. *)
LEMMA OnlyEndSucceeds ==
  ASSUME Host, pc' = "idle", result' = "ok"
  PROVE  RecvEnd
<1>1. pc = "loop"
  BY RestTaken DEF Host, RecvStart, RecvData, RecvDataCannotWrite, RecvUnexpected, RecvEnd,
         RecvFail, RecvSuccess, RecvUnhandled, RecvRunt, ReadFails, Receive
<1> SUFFICES ASSUME ~RecvEnd PROVE pc' = pc \/ result' = "eproto"
  BY <1>1
<1> QED
  BY RestTaken DEF Host, RecvStart, RecvData, RecvDataCannotWrite, RecvUnexpected, RecvFail,
         RecvSuccess, RecvUnhandled, RecvRunt, ReadFails, Return

LEMMA SyncAfterHost ==
  ASSUME SyncInv, Host
  PROVE  RefusedIdle' /\ AbortedShort' /\ Stamped'
<1> SUFFICES ASSUME ~RecvRestAsData PROVE RefusedIdle' /\ AbortedShort' /\ Stamped'
  BY RestTaken DEF RefusedIdle, AbortedShort, Stamped
<1>1. pc = "loop" /\ UNCHANGED <<inSync, calls>>
  BY DEF Host, RecvStart, RecvData, RecvDataCannotWrite, RecvUnexpected, RecvEnd,
         RecvFail, RecvSuccess, RecvUnhandled, RecvRunt, ReadFails, Receive
<1>2. /\ toHost' = toHost \/ (toHost # <<>> /\ toHost' = Tail(toHost))
      /\ UNCHANGED devVars
  BY HostOnLink DEF SyncInv, Inv, TypeOK
<1>3. pc' = "loop" /\ state' # "ABORT" => state # "ABORT"
  BY DEF Host, RecvStart, RecvData, RecvDataCannotWrite, RecvUnexpected, RecvEnd,
         RecvFail, RecvSuccess, RecvUnhandled, RecvRunt, ReadFails, Return
<1>4. RefusedIdle'
  <2> SUFFICES ASSUME pc' = "loop", inSync, state # "ABORT", toHost' # <<>>,
                      Head(toHost').cmd = "FAIL"
               PROVE  dev = "idle"
    BY <1>1, <1>2, <1>3 DEF RefusedIdle, devVars
  <2>1. toHost # <<>> => Tail(toHost) = <<>>
    BY <1>1, TokenWithHost DEF SyncInv, Inv
  <2> QED
    BY <1>1, <1>2, <2>1 DEF SyncInv, RefusedIdle
<1>5. AbortedShort'
  <2>1. ASSUME pc' = "loop", inSync, state' = "ABORT" PROVE Len(dst') < N \/ CannotEnd'
    <3>1. CASE state # "ABORT"
      BY <1>1, <2>1, <3>1, AbortingStep
    <3>2. CASE state = "ABORT"
      <4>1. UNCHANGED dst
        BY <3>2 DEF Host, RecvStart, RecvData, RecvDataCannotWrite, RecvUnexpected, RecvEnd,
                    RecvFail, RecvSuccess, RecvUnhandled, RecvRunt, ReadFails
      <4> QED
        BY <1>1, <2>1, <3>2, <4>1, AbortedStep DEF SyncInv, AbortedShort
    <3> QED
      BY <3>1, <3>2
  <2>2. ASSUME pc' = "idle", result' = "ok", inSync, state' = "ABORT" PROVE Len(dst') < N
    <3>1. RecvEnd
      BY <2>2, OnlyEndSucceeds
    <3>2. UNCHANGED <<state, dst>>
      BY <3>1 DEF RecvEnd
    <3> QED
      BY <1>1, <2>2, <3>1, <3>2, AbortedStep DEF SyncInv, AbortedShort
  <2> QED
    BY <1>1, <2>1, <2>2 DEF AbortedShort, Returned
<1>6. Stamped'
  <2> SUFFICES ASSUME Program = "libpuppy", inSync
               PROVE  /\ pc' = "loop" /\ state' = "DATA" => modtime' \in {"stamp", "junk"}
                      /\ Returned("ok")' /\ state' # "ABORT" => mtime' \in {"stamp", "junk"}
    BY <1>1 DEF Stamped
  <2>1. pc' = "loop" /\ state' = "DATA" => modtime' \in {"stamp", "junk"}
    <3>1. CASE RecvStart
      BY <3>1 DEF RecvStart
    <3>2. CASE ~RecvStart
      <4>1. UNCHANGED modtime /\ (state' = "DATA" => state = "DATA")
        BY <3>2 DEF Host, RecvData, RecvDataCannotWrite, RecvUnexpected, RecvEnd,
                    RecvFail, RecvSuccess, RecvUnhandled, RecvRunt, ReadFails, Return
      <4> QED
        BY <1>1, <4>1 DEF SyncInv, Stamped
    <3> QED
      BY <3>1, <3>2
  <2>2. ASSUME pc' = "idle", result' = "ok", state' # "ABORT"
        PROVE  mtime' \in {"stamp", "junk"}
    <3>1. RecvEnd
      BY <2>2, OnlyEndSucceeds
    <3>2. /\ toHost # <<>> /\ Head(toHost).cmd = "DATA_HDD_FILE_END"
          /\ state' = state /\ mtime' = modtime
      BY <3>1 DEF RecvEnd, Receive, Return
    <3>3. state = "DATA"
      BY <1>1, <2>2, <3>2, TokenWithHost DEF SyncInv, Inv, Completed
    <3> QED
      BY <1>1, <3>2, <3>3 DEF SyncInv, Stamped
  <2> QED
    BY <2>1, <2>2 DEF Returned
<1> QED
  BY <1>4, <1>5, <1>6

LEMMA SyncAfterDevice ==
  ASSUME SyncInv, Device
  PROVE  RefusedIdle' /\ AbortedShort' /\ Stamped'
<1>1. UNCHANGED hostVars /\ toDev # <<>> /\ toDev' = Tail(toDev)
  BY DEF Device, DevStart, DevNext, DevClose, DevCancel, DevRefuse, DevTake
<1>2. toDev \in Seq(Requests) /\ toHost \in Seq(Packets)
  BY DEF SyncInv, Inv, TypeOK, LinkTypeOK
<1>3. Stamped'
  BY <1>1 DEF SyncInv, Stamped, Returned, hostVars
<1>4. RefusedIdle'
  <2> SUFFICES ASSUME pc = "loop", inSync, state # "ABORT", toHost' # <<>>,
                      Head(toHost').cmd = "FAIL"
               PROVE  dev' = "idle"
    BY <1>1 DEF RefusedIdle, hostVars
  <2>1. toHost = <<>>
    BY <1>1, TokenWithDevice DEF SyncInv, Inv
  <2>2. ~DevStart
    BY <2>1 DEF DevStart, DevSay, Packet
  <2>3. ~DevNext
    BY <2>1 DEF DevNext, DevSay, Packet
  <2> QED
    BY <2>2, <2>3 DEF Device, DevClose, DevCancel, DevRefuse
<1>5. ASSUME CannotEnd PROVE CannotEnd'
  <2>1. toDev[1] # "CMD_HDD_FILE_SEND" /\ Head(toDev) = toDev[1]
    BY <1>1, <1>2, <1>5 DEF CannotEnd
  <2>2. ~DevStart /\ ~DevNext
    BY <1>5, <2>1 DEF DevStart, DevNext, DevTake, CannotEnd
  <2>3. dev' = "idle" /\ (toHost' = toHost \/ \E c \in {"SUCCESS", "FAIL"} :
                                                 toHost' = Append(toHost, Packet(c)))
    BY <1>1, <2>2 DEF Device, DevClose, DevCancel, DevRefuse, DevSay
  <2>4. \A i \in 1..Len(toHost') : toHost'[i].cmd # "DATA_HDD_FILE_END"
    <3>1. CASE toHost' = toHost
      BY <1>5, <3>1 DEF CannotEnd
    <3>2. ASSUME NEW c \in {"SUCCESS", "FAIL"}, toHost' = Append(toHost, Packet(c))
          PROVE  \A i \in 1..Len(toHost') : toHost'[i].cmd # "DATA_HDD_FILE_END"
      <4>1. /\ Len(toHost') = Len(toHost) + 1
            /\ \A i \in 1..Len(toHost) : toHost'[i] = toHost[i]
            /\ toHost'[Len(toHost) + 1] = Packet(c)
        BY <1>2, <3>2
      <4>2. Packet(c).cmd # "DATA_HDD_FILE_END"
        BY <3>2 DEF Packet
      <4>3. \A i \in 1..Len(toHost') : i \in 1..Len(toHost) \/ i = Len(toHost) + 1
        BY <1>2, <4>1
      <4> QED
        BY <1>5, <4>1, <4>2, <4>3 DEF CannotEnd
    <3> QED
      BY <2>3, <3>1, <3>2
  <2>5. \A i \in 1..Len(toDev') : toDev'[i] # "CMD_HDD_FILE_SEND"
    <3>1. \A i \in 1..Len(toDev') : toDev'[i] = toDev[i + 1] /\ i + 1 \in 1..Len(toDev)
      BY <1>1, <1>2
    <3> QED
      BY <1>5, <3>1 DEF CannotEnd
  <2> QED
    BY <2>3, <2>4, <2>5 DEF CannotEnd
<1>6. AbortedShort'
  BY <1>1, <1>5 DEF SyncInv, AbortedShort, Returned, hostVars
<1> QED
  BY <1>3, <1>4, <1>6

LEMMA SyncStep == SyncInv /\ [Next]_vars => SyncInv'
<1> SUFFICES ASSUME SyncInv, [Next]_vars PROVE SyncInv'
  OBVIOUS
<1>1. Inv'
  BY InvStep DEF SyncInv
<1>2. CASE UNCHANGED vars
  BY <1>1, <1>2
     DEF vars, hostVars, pipeVars, devVars, SyncInv, RefusedIdle, AbortedShort, Stamped,
         CannotEnd, Returned
<1>3. CASE CallCannotOpen \/ CallPathTooLong
  BY <1>1, <1>3
     DEF CallCannotOpen, CallPathTooLong, EnterCall, SyncInv, RefusedIdle, AbortedShort,
         Stamped, Returned
<1>4. CASE Call
  BY <1>1, <1>4
     DEF Call, EnterCall, Quiet, SyncInv, RefusedIdle, AbortedShort, Stamped, Returned
<1> QED
  BY <1>1, <1>2, <1>3, <1>4, SyncAfterHost, SyncAfterDevice DEF Next, SyncInv

(***************************************************************************)
(* END overtakes the answer to the CANCEL only when blocks are missing, so *)
(* that the caller can tell by the size (libpuppy.c:793 and 813).          *)
(***************************************************************************)
THEOREM AbortsAreDetectable == Spec => []AbortDetectable
<1>1. SyncInv => AbortDetectable
  <2>1. SyncInv => Len(dst) \in Nat
    BY DEF SyncInv, Inv, TypeOK, HostTypeOK
  <2> QED
    BY <2>1, FileGetAssumption DEF SyncInv, AbortedShort, AbortDetectable, FullSize
<1> QED
  BY <1>1, SyncInit, SyncStep, PTL DEF Spec

(***************************************************************************)
(* A file that was fetched has the time the device had for it, because in  *)
(* libpuppy.c the label "out" stands before utime().                       *)
(***************************************************************************)
THEOREM TimestampsAreKept == Spec => []TimestampKept
<1>1. SyncInv => TimestampKept
  BY DEF SyncInv, Stamped, TimestampKept
<1> QED
  BY <1>1, SyncInit, SyncStep, PTL DEF Spec

-----------------------------------------------------------------------------
(***************************************************************************)
(* A sound link: packets are neither lost, late nor damaged, but the       *)
(* device may refuse and a call may fail before it begins.  The token is   *)
(* then always somewhere, so that no read of the loop can fail, and a call *)
(* ends with the last answer that was due to it.                           *)
(***************************************************************************)
TokenThere ==
  /\ Opening => toDev # <<"SUCCESS">>
  /\ ~Lost

Sound ==
  /\ inSync /\ ~rest
  /\ pc = "idle" => Quiet
  /\ pc = "loop" /\ state # "ABORT" => TokenThere
  /\ pc = "loop" /\ state = "ABORT" => Cancelling /\ ~Lost

LEMMA SoundInit == Init => Sound
  BY DEF Init, Sound, Quiet

(* On a sound link a request always leaves. *)
LEMMA SoundTransmit ==
  ASSUME Faults \subseteq {"refuse", "local"}
  PROVE  /\ \A request : Transmit(request) = {<<request>>}
         /\ EarlyAck("DATA_HDD_FILE_DATA") = {<<"SUCCESS">>}
         /\ ReadMayFail => Lost
         /\ "damage" \notin Faults /\ "disk" \notin Faults /\ "read" \notin Faults
<1>1. {"send", "damage", "disk", "read", "late"} \cap Faults = {}
  OBVIOUS
<1>2. \A request : Transmit(request) = {<<request>>}
  BY <1>1 DEF Transmit
<1>3. ReadMayFail => Lost
  BY <1>1 DEF ReadMayFail, Lost
<1> QED
  BY <1>1, <1>2, <1>3 DEF EarlyAck

LEMMA SoundAfterCall ==
  ASSUME Faults \subseteq {"refuse", "local"}, Inv, Sound, Call
  PROVE  Sound'
<1>1. /\ pc = "idle" /\ pc' = "loop" /\ state' = "START" /\ inSync' = Quiet
      /\ toHost' = toHost /\ rest' = rest /\ toDev' = toDev \o <<"CMD_HDD_FILE_SEND">>
  BY SoundTransmit DEF Call, EnterCall
<1>2. toHost = <<>> /\ ~rest /\ (toDev = <<>> \/ toDev = <<"SUCCESS">>)
  BY <1>1 DEF Sound, Quiet
<1>3. \/ toDev' = <<"CMD_HDD_FILE_SEND">>
      \/ toDev' = <<"SUCCESS", "CMD_HDD_FILE_SEND">>
  <2>1. CASE toDev = <<>>
    BY <1>1, <2>1
  <2>2. CASE toDev = <<"SUCCESS">>
    BY <1>1, <2>2, PairOfPackets
  <2> QED
    BY <1>2, <2>1, <2>2
<1>4. /\ <<"CMD_HDD_FILE_SEND">> # <<>> /\ <<"CMD_HDD_FILE_SEND">> # <<"SUCCESS">>
      /\ <<"SUCCESS", "CMD_HDD_FILE_SEND">> # <<>>
      /\ <<"SUCCESS", "CMD_HDD_FILE_SEND">> # <<"SUCCESS">>
  OBVIOUS
<1>5. inSync'
  BY <1>1 DEF Sound
<1>6. TokenThere'
  BY <1>3, <1>4 DEF TokenThere, Lost
<1> QED
  BY <1>1, <1>2, <1>5, <1>6 DEF Sound

LEMMA SoundAfterHost ==
  ASSUME Faults \subseteq {"refuse", "local"}, Inv, Sound, Host
  PROVE  Sound'
<1> USE DEF Receive, Return
<1>0. /\ pc = "loop" /\ inSync /\ ~rest
      /\ ~RecvUnhandled /\ ~RecvRestAsData /\ ~RecvRunt /\ ~RecvDataCannotWrite
  BY SoundTransmit
     DEF Host, RecvStart, RecvData, RecvDataCannotWrite, RecvUnexpected, RecvEnd,
         RecvFail, RecvSuccess, RecvUnhandled, RecvRestAsData, RecvRunt, ReadFails, Sound
<1>1. ~Lost
  BY <1>0 DEF Sound, TokenThere
<1>2. ~ReadFails
  BY <1>1, SoundTransmit DEF ReadFails
<1>3. inSync' /\ UNCHANGED devVars
  BY <1>0, <1>2
     DEF Host, RecvStart, RecvData, RecvDataCannotWrite, RecvUnexpected, RecvEnd,
         RecvFail, RecvSuccess
<1>4. Reception = {TRUE}
  BY SoundTransmit DEF Reception
<1>5. ~rest' /\ toHost # <<>> /\ toHost' = Tail(toHost)
  BY <1>0, <1>2, <1>4
     DEF Host, RecvStart, RecvData, RecvUnexpected, RecvEnd, RecvFail, RecvSuccess
<1>6. CASE state = "ABORT"
  <2>1. toHost = <<Packet("SUCCESS")>> /\ toDev = <<>>
    BY <1>0, <1>5, <1>6 DEF Sound, Cancelling
  <2>2. Head(toHost).cmd = "SUCCESS" /\ toHost' = <<>>
    BY <1>5, <2>1 DEF Packet
  <2>3. RecvSuccess
    BY <1>0, <1>2, <2>2
       DEF Host, RecvStart, RecvData, RecvUnexpected, RecvEnd, RecvFail
  <2>4. pc' = "idle" /\ toDev' = <<>>
    BY <2>1, <2>3 DEF RecvSuccess
  <2> QED
    BY <1>3, <1>5, <2>2, <2>4 DEF Sound, Quiet
<1>7. CASE state # "ABORT"
  <2>1. /\ toDev = <<>> /\ toHost' = <<>>
        /\ Head(toHost).cmd = "DATA_HDD_FILE_START" => Started
        /\ Head(toHost).cmd = "DATA_HDD_FILE_DATA" => Delivered
        /\ Head(toHost).cmd = "DATA_HDD_FILE_END" => Completed
    BY <1>0, <1>5, <1>7, TokenWithHost DEF Inv
  <2>2. /\ <<"SUCCESS">> # <<>> /\ <<"CANCEL">> # <<>>
        /\ \A x : <<>> \o <<x>> = <<x>>
    OBVIOUS
  <2>3. CASE RecvStart \/ RecvData
    <3>1. toDev' = <<"SUCCESS">> /\ state' = "DATA" /\ pc' = "loop"
      BY <1>0, <2>1, <2>2, <2>3, SoundTransmit DEF RecvStart, RecvData
    <3>2. TokenThere'
      BY <3>1, <2>2 DEF TokenThere, Opening, Lost
    <3> QED
      BY <1>3, <1>5, <3>1, <3>2 DEF Sound
  <2>4. ~RecvUnexpected
    BY <2>1 DEF RecvUnexpected, Started, Delivered
  <2>5. CASE RecvEnd
    <3>1. toDev' = <<"SUCCESS">> /\ pc' = "idle" /\ sent = N + 1
      BY <2>1, <2>2, <2>5, SoundTransmit DEF RecvEnd, Completed
    <3> QED
      BY <1>3, <1>5, <2>1, <3>1 DEF Sound, Quiet, devVars
  <2>6. CASE RecvFail
    <3>1. toDev' = <<"CANCEL">> /\ state' = "ABORT" /\ pc' = "loop"
      BY <1>0, <2>1, <2>2, <2>6, SoundTransmit DEF RecvFail
    <3> QED
      BY <1>3, <1>5, <2>1, <2>2, <3>1 DEF Sound, Cancelling, Lost
  <2>7. CASE RecvSuccess
    <3>1. toDev' = <<>> /\ pc' = "idle"
      BY <2>1, <2>7 DEF RecvSuccess
    <3> QED
      BY <1>3, <1>5, <2>1, <3>1 DEF Sound, Quiet
  <2> QED
    BY <1>0, <1>2, <2>3, <2>4, <2>5, <2>6, <2>7 DEF Host
<1> QED
  BY <1>6, <1>7

LEMMA SoundAfterDevice ==
  ASSUME Inv, Sound, Device
  PROVE  Sound'
<1>1. UNCHANGED <<hostVars, rest>> /\ toDev # <<>> /\ toDev' = Tail(toDev)
  BY DEF Device, DevStart, DevNext, DevClose, DevCancel, DevRefuse, DevTake
<1>2. \/ DevClose
      \/ \E p : toHost' = Append(toHost, p)
  BY DEF Device, DevStart, DevNext, DevClose, DevCancel, DevRefuse, DevSay
<1>3. \A p : Append(<<>>, p) # <<>>
  OBVIOUS
<1>4. CASE pc = "idle"
  <2>1. toHost = <<>> /\ toDev = <<"SUCCESS">> /\ (dev = "idle" \/ sent = N + 1)
    BY <1>1, <1>4 DEF Sound, Quiet
  <2>2. Head(toDev) = "SUCCESS" /\ toDev' = <<>>
    BY <1>1, <2>1
  <2>3. DevClose
    BY <2>1, <2>2, FileGetAssumption
       DEF Device, DevStart, DevNext, DevCancel, DevRefuse, DevTake, Inv, TypeOK, LinkTypeOK
  <2> QED
    BY <1>1, <1>4, <2>1, <2>2, <2>3 DEF DevClose, Sound, Quiet, hostVars
<1>5. CASE pc = "loop" /\ state # "ABORT"
  <2>1. toHost = <<>> /\ (Opening \/ Requested)
    BY <1>1, <1>5, TokenWithDevice DEF Sound, Inv
  <2>2. CASE DevClose
    <3>1. Opening /\ Head(toDev) = "SUCCESS"
      BY <2>1, <2>2, FileGetAssumption
         DEF DevClose, DevTake, Requested, Inv, TypeOK, LinkTypeOK
    <3>2. toDev # <<"SUCCESS">>
      BY <1>5, <3>1 DEF Sound, TokenThere
    <3>3. toDev = <<"SUCCESS", "CMD_HDD_FILE_SEND">>
      BY <3>1, <3>2 DEF Opening
    <3>4. toDev' = <<"CMD_HDD_FILE_SEND">>
      BY <1>1, <3>3
    <3>5. toDev' # <<>> /\ toDev' # <<"SUCCESS">>
      BY <3>4
    <3> QED
      BY <1>1, <1>5, <3>5 DEF Sound, TokenThere, Lost, hostVars
  <2>3. CASE \E p : toHost' = Append(toHost, p)
    <3>1. toHost' # <<>>
      BY <2>1, <2>3, <1>3
    <3>2. TokenThere'
      BY <3>1 DEF TokenThere, Opening, Lost
    <3> QED
      BY <1>1, <1>5, <3>2 DEF Sound, hostVars
  <2> QED
    BY <1>2, <2>2, <2>3
<1>6. CASE pc = "loop" /\ state = "ABORT"
  <2>1. toHost = <<>> /\ toDev = <<"CANCEL">>
    BY <1>1, <1>6 DEF Sound, Cancelling
  <2>2. Head(toDev) = "CANCEL" /\ toDev' = <<>>
    BY <1>1, <2>1
  <2>3. DevCancel
    BY <2>2 DEF Device, DevStart, DevNext, DevClose, DevRefuse, DevTake
  <2>4. toHost' = <<Packet("SUCCESS")>>
    BY <2>1, <2>3 DEF DevCancel, DevSay
  <2>5. Cancelling' /\ ~Lost'
    BY <2>2, <2>4 DEF Cancelling, Lost
  <2> QED
    BY <1>1, <1>6, <2>5 DEF Sound, hostVars
<1> QED
  BY <1>4, <1>5, <1>6 DEF Inv, TypeOK, HostTypeOK

LEMMA SoundStep ==
  ASSUME Faults \subseteq {"refuse", "local"}, Inv, Sound, [Next]_vars
  PROVE  Sound'
<1>1. CASE UNCHANGED vars
  BY <1>1
     DEF vars, hostVars, pipeVars, devVars, Sound, TokenThere, Cancelling, Opening, Lost,
         Quiet, Closed
<1>2. CASE CallCannotOpen
  BY <1>2
     DEF CallCannotOpen, pipeVars, devVars, Sound, TokenThere, Cancelling, Opening, Lost,
         Quiet, Closed
<1>3. CASE CallPathTooLong
  BY <1>3 DEF CallPathTooLong, EnterCall, devVars, Sound, Quiet
<1> QED
  BY <1>1, <1>2, <1>3, SoundAfterCall, SoundAfterHost, SoundAfterDevice DEF Next

(***************************************************************************)
(* On a sound link every call begins and ends with a quiet link, however   *)
(* the device answered it and whatever the caller did with the outcome.    *)
(***************************************************************************)
THEOREM QuietBetweenCalls ==
  ASSUME Faults \subseteq {"refuse", "local"}
  PROVE  Spec => [](pc = "idle" => Quiet)
<1>1. Inv /\ Sound /\ [Next]_vars => Sound'
  BY SoundStep
<1>2. Sound => (pc = "idle" => Quiet)
  BY DEF Sound
<1> QED
  BY <1>1, <1>2, SoundInit, InvHolds, PTL DEF Spec

==============================================================================
