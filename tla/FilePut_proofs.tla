---------------------------- MODULE FilePut_proofs ----------------------------
(***************************************************************************)
(* Proofs about FilePut, for every size of the file, every change of it    *)
(* during the call, every number of calls and every choice of faults.      *)
(***************************************************************************)
EXTENDS FilePut, SequenceTheorems, TLAPS

(* The only packet is taken out of a pipe. *)
LEMMA TailOfOne == \A x : Tail(<<x>>) = <<>>
  OBVIOUS

-----------------------------------------------------------------------------
(***************************************************************************)
(* The packets the 512-byte rule allows, and the pipe that holds no other. *)
(***************************************************************************)
SafePackets ==
  {p \in Packets : p.cmd = "DATA_HDD_FILE_DATA" => Even(p.length) % 512 # 0}

SafeQueue == toDev \in Seq(SafePackets)

(***************************************************************************)
(* In a call that began with clean pipes host and device take turns: at    *)
(* most one packet is under way, and what it is tells how much of the file *)
(* each side has dealt with.  A packet cut short tells nothing: it will    *)
(* not be answered.                                                        *)
(***************************************************************************)
OnItsWay(p) ==
  \/ state = "START" /\ p.cmd = "CMD_HDD_FILE_SEND" /\ byteCount = 0
  \/ state = "DATA" /\ p.cmd = "DATA_HDD_FILE_START" /\ byteCount = 0
  \/ /\ state \in {"DATA", "END"} /\ p.cmd = "DATA_HDD_FILE_DATA"
     /\ whole /\ stored = p.off /\ stored + p.bytes = byteCount
  \/ /\ state = "FINISHED" /\ p.cmd = "DATA_HDD_FILE_END"
     /\ whole /\ stored = byteCount

Answered ==
  \/ state = "START" /\ byteCount = 0
  \/ state \in {"DATA", "END"} /\ whole /\ stored = byteCount
  \/ state = "FINISHED" /\ whole /\ stored = byteCount /\ dev = "idle"

Reached == state \in {"END", "FINISHED"} => byteCount >= fileSize

Sent ==
  /\ toHost = <<>>
  /\ \E p \in SafePackets : toDev = <<p>> /\ (p.complete => OnItsWay(p) /\ Reached)

Acknowledged == toDev = <<>> /\ toHost = <<"SUCCESS">> /\ Answered /\ Reached

Refused == toDev = <<>> /\ toHost = <<"FAIL">>

Lost == toDev = <<>> /\ toHost = <<>>

InStep ==
  pc = "loop" /\ inSync =>
    /\ Sent \/ Acknowledged \/ Refused \/ Lost
    /\ pos = byteCount
    /\ actual = fileSize => byteCount <= fileSize

(* What the return from Finish leaves behind. *)
Stored ==
  Returned("ok") /\ inSync =>
    /\ toDev = <<>> /\ dev = "idle" /\ whole
    /\ stored = byteCount /\ byteCount >= fileSize
    /\ actual = fileSize => byteCount <= fileSize

Inv == TypeOK /\ SafeQueue /\ InStep /\ Stored

-----------------------------------------------------------------------------
(***************************************************************************)
(* The 512-byte rule.  Putting four bytes back is enough: if one packet is *)
(* a multiple of 512 bytes long, the one four bytes shorter is not, and    *)
(* there is something left to send.                                        *)
(***************************************************************************)
LEMMA EvenIsNat == \A n \in Nat : Even(n) \in Nat /\ Even(n) \in {n, n + 1}
BY SMT DEF Even

LEMMA UpTo == ASSUME NEW m \in Nat, NEW n \in Nat, n <= m PROVE n \in 0..m
OBVIOUS

LEMMA KeptAvoids512 ==
  ASSUME NEW w \in 1..PayloadSize
  PROVE  /\ Kept(w) \in 1..w
         /\ DataLength(Kept(w)) \in 0..MAXIMUM_PACKET_SIZE
         /\ Even(DataLength(Kept(w))) % 512 # 0
<1>a. PayloadSize = 65518
  BY SMTT(30) DEF PayloadSize, MAXIMUM_PACKET_SIZE, PACKET_HEAD_SIZE
<1>0. w \in Nat /\ 1 <= w /\ w <= 65518
  BY <1>a
<1>1. \A v \in Nat : DataLength(v) = v + 16
  BY SMT DEF DataLength, PACKET_HEAD_SIZE
<1>2. \A v \in 1..4 : Even(v + 16) % 512 # 0
  BY SMT DEF Even
<1>3. \A v \in Nat : v > 4 /\ Even(v + 16) % 512 = 0 => Even(v - 4 + 16) % 512 # 0
  BY SMT DEF Even
<1>4. DataLength(w) = w + 16
  BY <1>0, <1>1
<1>5. MAXIMUM_PACKET_SIZE \in Nat
  BY DEF MAXIMUM_PACKET_SIZE
<1>6. CASE w > 4 /\ Even(w + 16) % 512 = 0
  <2>1. Kept(w) = w - 4
    BY <1>4, <1>6, Zenon DEF Kept
  <2>2. w \in Nat /\ w - 4 \in Nat
    BY <1>0, <1>6
  <2>3. DataLength(w - 4) = w - 4 + 16
    BY <1>1, <2>2
  <2>4. Even(DataLength(Kept(w))) % 512 # 0
    BY <1>3, <1>6, <2>1, <2>2, <2>3, Zenon
  <2>5. DataLength(Kept(w)) = w - 4 + 16
    BY <2>1, <2>3, Zenon
  <2>6. Kept(w) \in 1..w
    BY <1>0, <1>6, <2>1
  <2>7. DataLength(Kept(w)) \in Nat /\ DataLength(Kept(w)) <= MAXIMUM_PACKET_SIZE
    BY <1>0, <1>6, <2>5 DEF MAXIMUM_PACKET_SIZE
  <2>8. DataLength(Kept(w)) \in 0..MAXIMUM_PACKET_SIZE
    BY <1>5, <2>7, UpTo
  <2> QED
    BY <2>4, <2>6, <2>8, Zenon
<1>7. CASE w > 4 /\ Even(w + 16) % 512 # 0
  <2>1. Kept(w) = w
    BY <1>4, <1>7, Zenon DEF Kept
  <2>2. Even(DataLength(Kept(w))) % 512 # 0
    BY <1>4, <1>7, <2>1, Zenon
  <2>3. DataLength(Kept(w)) = w + 16
    BY <1>4, <2>1, Zenon
  <2>4. Kept(w) \in 1..w
    BY <1>0, <2>1
  <2>5. DataLength(Kept(w)) \in Nat /\ DataLength(Kept(w)) <= MAXIMUM_PACKET_SIZE
    BY <1>0, <2>3 DEF MAXIMUM_PACKET_SIZE
  <2>8. DataLength(Kept(w)) \in 0..MAXIMUM_PACKET_SIZE
    BY <1>5, <2>5, UpTo
  <2> QED
    BY <2>2, <2>4, <2>8, Zenon
<1>8. CASE ~(w > 4)
  <2>1. Kept(w) = w
    BY <1>8, Zenon DEF Kept
  <2>2. w \in 1..4
    BY <1>0, <1>8
  <2>3. Even(DataLength(Kept(w))) % 512 # 0
    BY <1>2, <1>4, <2>1, <2>2, Zenon
  <2>4. DataLength(Kept(w)) = w + 16
    BY <1>4, <2>1, Zenon
  <2>5. Kept(w) \in 1..w
    BY <1>0, <2>1
  <2>6. DataLength(Kept(w)) \in Nat /\ DataLength(Kept(w)) <= MAXIMUM_PACKET_SIZE
    BY <1>0, <2>4 DEF MAXIMUM_PACKET_SIZE
  <2>8. DataLength(Kept(w)) \in 0..MAXIMUM_PACKET_SIZE
    BY <1>5, <2>6, UpTo
  <2> QED
    BY <2>3, <2>5, <2>8, Zenon
<1> QED
  BY <1>6, <1>7, <1>8, Zenon

LEMMA AvailableType ==
  ASSUME HostTypeOK, Available > 0
  PROVE  Available \in 1..PayloadSize /\ Available <= actual - pos
<1>1. pos \in Nat /\ actual \in Nat
  BY DEF HostTypeOK
<1>2. PayloadSize \in Nat
  BY DEF PayloadSize, MAXIMUM_PACKET_SIZE, PACKET_HEAD_SIZE
<1>3. CASE pos >= actual
  BY <1>1, <1>3 DEF Available
<1>4. CASE pos < actual /\ actual - pos < PayloadSize
  <2>1. Available = actual - pos
    BY <1>1, <1>4 DEF Available
  <2> QED
    BY <1>1, <1>2, <1>4, <2>1
<1>5. CASE pos < actual /\ ~(actual - pos < PayloadSize)
  <2>1. Available = PayloadSize
    BY <1>1, <1>5 DEF Available
  <2> QED
    BY <1>1, <1>2, <1>5, <2>1
<1> QED
  BY <1>1, <1>3, <1>4, <1>5

(* A read that is not cut short by the end of the file may be by the disk. *)
LEMMA ReadType ==
  ASSUME HostTypeOK, Available > 0, NEW got \in Reads
  PROVE  got \in 1..PayloadSize /\ got <= actual - pos
<1>1. Available \in 1..PayloadSize /\ Available <= actual - pos
  BY AvailableType
<1>2. got = Available \/ (got \in Nat \ {0} /\ got < Available)
  BY FilePutAssumption DEF Reads
<1>3. PayloadSize \in Nat /\ actual - pos \in Int
  BY DEF PayloadSize, MAXIMUM_PACKET_SIZE, PACKET_HEAD_SIZE, HostTypeOK
<1> HIDE DEF Available, Reads
<1> QED
  BY <1>1, <1>2, <1>3

-----------------------------------------------------------------------------
(***************************************************************************)
(* What the host sends is a packet, and a safe one.                        *)
(***************************************************************************)
LEMMA PacketType ==
  ASSUME NEW cmd \in Commands, NEW length \in 0..MAXIMUM_PACKET_SIZE,
         NEW off \in Nat, NEW w \in Nat
  PROVE  Packet(cmd, length, off, w) \in Packets
<1>1. TRUE \in BOOLEAN
  OBVIOUS
<1> QED
  BY <1>1, Zenon DEF Packet, Packets

LEMMA PacketFields ==
  ASSUME NEW cmd, NEW length, NEW off, NEW w
  PROVE  /\ Packet(cmd, length, off, w).cmd = cmd
         /\ Packet(cmd, length, off, w).length = length
         /\ Packet(cmd, length, off, w).off = off
         /\ Packet(cmd, length, off, w).bytes = w
BY DEF Packet

LEMMA CommandPacketSafe ==
  ASSUME NEW cmd \in Commands \ {"DATA_HDD_FILE_DATA"}, NEW length \in 0..200
  PROVE  Packet(cmd, length, 0, 0) \in SafePackets
<1>1. length \in 0..MAXIMUM_PACKET_SIZE
  BY DEF MAXIMUM_PACKET_SIZE
<1>2. Packet(cmd, length, 0, 0) \in Packets
  BY <1>1, PacketType
<1>3. Packet(cmd, length, 0, 0).cmd # "DATA_HDD_FILE_DATA"
  BY PacketFields
<1> QED
  BY <1>2, <1>3, Zenon DEF SafePackets

LEMMA DataPacketSafe ==
  ASSUME HostTypeOK, Available > 0, NEW got \in Reads
  PROVE  DataPacket(Kept(got)) \in SafePackets
<1>1. /\ Kept(got) \in 1..got /\ got \in 1..PayloadSize
      /\ DataLength(Kept(got)) \in 0..MAXIMUM_PACKET_SIZE
      /\ Even(DataLength(Kept(got))) % 512 # 0
  BY ReadType, KeptAvoids512
<1>2. Kept(got) \in Nat /\ byteCount \in Nat
  BY <1>1 DEF HostTypeOK
<1>3. "DATA_HDD_FILE_DATA" \in Commands
  BY DEF Commands
<1>4. DataPacket(Kept(got)) \in Packets
  BY <1>1, <1>2, <1>3, PacketType, Zenon DEF DataPacket
<1>5. DataPacket(Kept(got)).length = DataLength(Kept(got))
  BY DEF DataPacket, Packet
<1> QED
  BY <1>1, <1>4, <1>5, Zenon DEF SafePackets

LEMMA LeavesSafe ==
  ASSUME NEW p \in SafePackets, NEW r
  PROVE  Leaves(p, r) \in Seq(SafePackets)
<1> DEFINE q == [p EXCEPT !.complete = (r = Even(p.length))]
<1>1. p \in Packets /\ (p.cmd = "DATA_HDD_FILE_DATA" => Even(p.length) % 512 # 0)
  BY Zenon DEF SafePackets
<1>2. (r = Even(p.length)) \in BOOLEAN
  OBVIOUS
<1>3. q \in Packets
  BY <1>1, <1>2, Zenon DEF Packets
<1>4. q.cmd = p.cmd /\ q.length = p.length
  BY <1>1 DEF Packets
<1>5. q \in SafePackets
  BY <1>1, <1>3, <1>4, Zenon DEF SafePackets
<1> HIDE DEF q
<1>6. <<q>> \in Seq(SafePackets) /\ <<>> \in Seq(SafePackets)
  BY <1>5
<1> QED
  BY <1>6, Zenon DEF Leaves, q

LEMMA TransmitSafe ==
  ASSUME NEW p \in SafePackets, NEW t \in Transmit(p)
  PROVE  t \in Seq(SafePackets)
<1>1. <<p>> \in Seq(SafePackets) /\ <<>> \in Seq(SafePackets)
  OBVIOUS
<1>2. t = <<p>> \/ t = <<>>
  BY Zenon DEF Transmit
<1> QED
  BY <1>1, <1>2

-----------------------------------------------------------------------------
(***************************************************************************)
(* Types.                                                                  *)
(***************************************************************************)
LEMMA ThePackets ==
  /\ Packet("CMD_HDD_FILE_SEND", 16, 0, 0) \in SafePackets
  /\ StartPacket \in SafePackets
  /\ Packet("DATA_HDD_FILE_END", PACKET_HEAD_SIZE, 0, 0) \in SafePackets
<1>1. {"CMD_HDD_FILE_SEND", "DATA_HDD_FILE_START", "DATA_HDD_FILE_END"}
        \subseteq Commands \ {"DATA_HDD_FILE_DATA"}
  BY DEF Commands
<1>2. 16 \in 0..200 /\ PACKET_HEAD_SIZE \in 0..200 /\ PACKET_HEAD_SIZE + 114 \in 0..200
  BY DEF PACKET_HEAD_SIZE
<1> QED
  BY <1>1, <1>2, CommandPacketSafe DEF StartPacket

LEMMA HostOnLink ==
  ASSUME SafeQueue, HostTypeOK, Host
  PROVE  /\ \E t \in Seq(SafePackets) : toDev' = toDev \o t
         /\ toHost' = toHost \/ (toHost # <<>> /\ toHost' = Tail(toHost))
         /\ UNCHANGED devVars
<1> DEFINE Sends1 == \E t \in Seq(SafePackets) : toDev' = toDev \o t
           Takes  == toHost' = toHost \/ (toHost # <<>> /\ toHost' = Tail(toHost))
<1> SUFFICES Sends1 /\ Takes /\ UNCHANGED devVars
  OBVIOUS
<1> HIDE DEF Sends1, Takes
<1>a. ASSUME NEW cmd, Reply(cmd) PROVE Takes /\ UNCHANGED devVars
  BY <1>a DEF Takes, Reply
<1>b. ASSUME toDev' = toDev PROVE Sends1
  <2>1. <<>> \in Seq(SafePackets) /\ toDev = toDev \o <<>>
    BY DEF SafeQueue
  <2> QED
    BY <1>b, <2>1 DEF Sends1
<1>c. ASSUME NEW t \in Seq(SafePackets), toDev' = toDev \o t PROVE Sends1
  BY <1>c DEF Sends1
<1>1. CASE SendStart
  BY <1>1, <1>a, <1>c, ThePackets, TransmitSafe DEF SendStart
<1>2. CASE SendData
  <2>1. Available > 0
    BY <1>2 DEF SendData
  <2>a. PICK got \in Reads : \E r \in Sends(Even(DataLength(Kept(got)))) :
          toDev' = toDev \o Leaves(DataPacket(Kept(got)), r)
    BY <1>2, Zenon DEF SendData
  <2>2. PICK r : toDev' = toDev \o Leaves(DataPacket(Kept(got)), r)
    BY <2>a
  <2>3. Leaves(DataPacket(Kept(got)), r) \in Seq(SafePackets)
    BY <2>1, DataPacketSafe, LeavesSafe
  <2>4. Reply("SUCCESS")
    BY <1>2, Zenon DEF SendData
  <2> QED
    BY <2>2, <2>3, <2>4, <1>a, <1>c
<1>3. CASE SendNothing
  BY <1>3, <1>a, <1>b DEF SendNothing
<1>4. CASE SendEnd
  BY <1>4, <1>a, <1>c, ThePackets, TransmitSafe DEF SendEnd
<1>5. CASE Finish
  BY <1>5, <1>a, <1>b DEF Finish
<1>6. CASE RecvFail
  BY <1>6, <1>a, <1>b DEF RecvFail
<1>7. CASE RecvDamaged
  BY <1>7, <1>b DEF RecvDamaged, Takes
<1>8. CASE ReadFails
  BY <1>8, <1>b DEF ReadFails, Takes, pipeVars
<1> QED
  BY <1>1, <1>2, <1>3, <1>4, <1>5, <1>6, <1>7, <1>8 DEF Host

LEMMA HostStepFlags ==
  ASSUME FlagsTypeOK, Host
  PROVE  FlagsTypeOK'
<1> USE DEF FlagsTypeOK, Reply, devVars
<1>1. CASE SendStart
  BY <1>1, Zenon DEF SendStart
<1>2. CASE SendData
  BY <1>2, Zenon DEF SendData
<1>3. CASE SendNothing
  BY <1>3, Zenon DEF SendNothing
<1>4. CASE SendEnd
  BY <1>4, Zenon DEF SendEnd
<1>5. CASE Finish
  BY <1>5, Zenon DEF Finish
<1>6. CASE RecvFail
  BY <1>6, Zenon DEF RecvFail
<1>7. CASE RecvDamaged
  BY <1>7, Zenon DEF RecvDamaged
<1>8. CASE ReadFails
  BY <1>8, Zenon DEF ReadFails
<1> QED
  BY <1>1, <1>2, <1>3, <1>4, <1>5, <1>6, <1>7, <1>8 DEF Host

LEMMA HostStepTypes ==
  ASSUME HostTypeOK, Host
  PROVE  HostTypeOK'
<1> USE FilePutAssumption DEF HostTypeOK, Reply, Return
<1>1. CASE SendStart
  BY <1>1 DEF SendStart
<1>2. CASE SendData
  <2>1. PICK got \in Reads :
          /\ Available > 0 /\ UNCHANGED <<calls, fileSize, actual>>
          /\ pos' = pos + Kept(got) /\ byteCount' = byteCount + Kept(got)
          /\ state' \in {"END", "DATA"}
          /\ \/ pc' = "idle" /\ result' = "eproto"
             \/ UNCHANGED <<pc, result>>
    BY <1>2, Zenon DEF SendData
  <2>2. Kept(got) \in Nat
    <3>1. got \in 1..PayloadSize
      BY <2>1, ReadType
    <3>2. Kept(got) \in 1..got /\ got \in Nat
      BY <3>1, KeptAvoids512
    <3> QED
      BY <3>2
  <2> QED
    BY <2>1, <2>2
<1>3. CASE SendNothing
  BY <1>3 DEF SendNothing
<1>4. CASE SendEnd
  BY <1>4 DEF SendEnd
<1>5. CASE Finish
  BY <1>5 DEF Finish
<1>6. CASE RecvFail
  BY <1>6 DEF RecvFail
<1>7. CASE RecvDamaged
  BY <1>7 DEF RecvDamaged
<1>8. CASE ReadFails
  BY <1>8 DEF ReadFails
<1> QED
  BY <1>1, <1>2, <1>3, <1>4, <1>5, <1>6, <1>7, <1>8 DEF Host

LEMMA DeviceStepTypes ==
  ASSUME SafeQueue, LinkTypeOK, FlagsTypeOK, Device
  PROVE  SafeQueue' /\ LinkTypeOK' /\ FlagsTypeOK' /\ UNCHANGED hostVars
<1>1. toDev # <<>> /\ toDev' = Tail(toDev) /\ UNCHANGED hostVars
  BY DEF Device, DevOpen, DevBegin, DevStore, DevClose, DevRefuse, DevDiscard, DevTake
<1>2. SafeQueue'
  BY <1>1, HeadTailProperties DEF SafeQueue
<1>3. toDev' \in Seq(Packets)
  BY <1>1, HeadTailProperties DEF LinkTypeOK
<1>4. toHost' \in Seq({"SUCCESS", "FAIL"})
  <2>1. \/ toHost' = toHost
        \/ toHost' = Append(toHost, "SUCCESS")
        \/ toHost' = Append(toHost, "FAIL")
    BY DEF Device, DevOpen, DevBegin, DevStore, DevClose, DevRefuse, DevDiscard, DevSay
  <2> QED
    BY <2>1 DEF LinkTypeOK
<1>5. dev' \in {"idle", "opening", "storing"}
  BY DEF LinkTypeOK, Device, DevOpen, DevBegin, DevStore, DevClose, DevRefuse,
         DevDiscard, devVars
<1>6. stored' \in Nat
  <2>1. stored \in Nat /\ Head(toDev).bytes \in Nat
    <3>1. Head(toDev) \in Packets
      BY <1>1 DEF LinkTypeOK
    <3> QED
      BY <3>1 DEF LinkTypeOK, Packets
  <2> QED
    BY <2>1 DEF Device, DevOpen, DevBegin, DevStore, DevClose, DevRefuse,
                DevDiscard, devVars
<1>7. FlagsTypeOK'
  <2> USE <1>1 DEF FlagsTypeOK, hostVars, devVars
  <2>1. CASE DevOpen
    BY <2>1, Zenon DEF DevOpen
  <2>2. CASE DevBegin
    BY <2>2, Zenon DEF DevBegin
  <2>3. CASE DevStore
    BY <2>3, Zenon DEF DevStore
  <2>4. CASE DevClose
    BY <2>4, Zenon DEF DevClose
  <2>5. CASE DevRefuse
    BY <2>5, Zenon DEF DevRefuse
  <2>6. CASE DevDiscard
    BY <2>6, Zenon DEF DevDiscard
  <2> QED
    BY <2>1, <2>2, <2>3, <2>4, <2>5, <2>6 DEF Device
<1> QED
  BY <1>1, <1>2, <1>3, <1>4, <1>5, <1>6, <1>7 DEF LinkTypeOK

LEMMA SafePacketsTyped == Seq(SafePackets) \subseteq Seq(Packets)
<1>1. SafePackets \subseteq Packets
  BY DEF SafePackets
<1> QED
  BY <1>1

LEMMA CallStepTypes ==
  ASSUME TypeOK, SafeQueue, CallRefused \/ Call \/ Drift
  PROVE  SafeQueue' /\ TypeOK'
<1> USE FilePutAssumption DEF HostTypeOK, pipeVars, devVars
<1>0. LinkTypeOK /\ HostTypeOK /\ FlagsTypeOK
  BY DEF TypeOK
<1>1. CASE CallRefused
  <2>1. FlagsTypeOK'
    BY <1>0, <1>1, Zenon DEF CallRefused, FlagsTypeOK
  <2>2. HostTypeOK'
    BY <1>0, <1>1 DEF CallRefused, Return
  <2> QED
    BY <1>0, <1>1, <2>1, <2>2 DEF CallRefused, TypeOK, LinkTypeOK, SafeQueue
<1>2. CASE Call
  <2>1. FlagsTypeOK'
    BY <1>0, <1>2, Zenon DEF Call, FlagsTypeOK, Quiet
  <2>2. HostTypeOK'
    BY <1>0, <1>2 DEF Call
  <2>3. PICK c \in Transmit(Packet("CMD_HDD_FILE_SEND", 16, 0, 0)) : toDev' = toDev \o c
    BY <1>2 DEF Call
  <2>4. c \in Seq(SafePackets)
    BY ThePackets, TransmitSafe
  <2>5. SafeQueue'
    BY <2>3, <2>4 DEF SafeQueue
  <2>6. toDev' \in Seq(Packets)
    BY <2>5, SafePacketsTyped DEF SafeQueue
  <2> QED
    BY <1>0, <1>2, <2>1, <2>2, <2>5, <2>6 DEF Call, TypeOK, LinkTypeOK
<1>3. CASE Drift
  <2>1. FlagsTypeOK'
    BY <1>0, <1>3, Zenon DEF Drift, FlagsTypeOK
  <2>2. HostTypeOK'
    BY <1>0, <1>3 DEF Drift
  <2> QED
    BY <1>0, <1>3, <2>1, <2>2 DEF Drift, TypeOK, LinkTypeOK, SafeQueue
<1> QED
  BY <1>1, <1>2, <1>3

LEMMA TypeStep == TypeOK /\ SafeQueue /\ [Next]_vars => TypeOK' /\ SafeQueue'
<1> SUFFICES ASSUME TypeOK, SafeQueue, [Next]_vars PROVE TypeOK' /\ SafeQueue'
  OBVIOUS
<1>0. LinkTypeOK /\ HostTypeOK /\ FlagsTypeOK
  BY DEF TypeOK
<1>1. CASE UNCHANGED vars
  BY <1>0, <1>1 DEF vars, hostVars, pipeVars, devVars, TypeOK, LinkTypeOK,
                    HostTypeOK, FlagsTypeOK, SafeQueue
<1>2. CASE CallRefused \/ Call \/ Drift
  BY <1>2, CallStepTypes
<1>3. CASE Host
  <2>1. HostTypeOK' /\ FlagsTypeOK'
    BY <1>0, <1>3, HostStepTypes, HostStepFlags
  <2>2. /\ \E t \in Seq(SafePackets) : toDev' = toDev \o t
        /\ toHost' = toHost \/ (toHost # <<>> /\ toHost' = Tail(toHost))
        /\ UNCHANGED devVars
    BY <1>0, <1>3, HostOnLink
  <2>3. SafeQueue'
    BY <2>2 DEF SafeQueue
  <2>4. toDev' \in Seq(Packets)
    BY <2>3, SafePacketsTyped DEF SafeQueue
  <2>5. toHost' \in Seq({"SUCCESS", "FAIL"})
    BY <1>0, <2>2, HeadTailProperties DEF LinkTypeOK
  <2> QED
    BY <1>0, <2>1, <2>2, <2>3, <2>4, <2>5 DEF TypeOK, LinkTypeOK, devVars
<1>4. CASE Device
  BY <1>0, <1>4, DeviceStepTypes DEF TypeOK, HostTypeOK, hostVars
<1> QED
  BY <1>1, <1>2, <1>3, <1>4 DEF Next

-----------------------------------------------------------------------------
(***************************************************************************)
(* One packet at most is under way in a call that is in sync.              *)
(***************************************************************************)
LEMMA StepsOfInStep ==
  ASSUME InStep, pc = "loop", inSync, toHost # <<>>, Head(toHost) = "SUCCESS"
  PROVE  /\ toDev = <<>> /\ Tail(toHost) = <<>> /\ Answered /\ Reached
         /\ pos = byteCount /\ (actual = fileSize => byteCount <= fileSize)
<1>1. Sent \/ Acknowledged \/ Refused \/ Lost
  BY DEF InStep
<1>2. CASE Acknowledged
  BY <1>2 DEF Acknowledged, InStep
<1>3. CASE Refused
  BY <1>3 DEF Refused
<1> QED
  BY <1>1, <1>2, <1>3 DEF Sent, Lost

LEMMA TransmitOne ==
  ASSUME NEW p, NEW t \in Transmit(p)
  PROVE  <<>> \o t = <<p>> \/ <<>> \o t = <<>>
<1>1. t = <<p>> \/ t = <<>>
  BY Zenon DEF Transmit
<1> QED
  BY <1>1

LEMMA LeavesOne ==
  ASSUME NEW p \in SafePackets, NEW r
  PROVE  \/ <<>> \o Leaves(p, r) = <<>>
         \/ \E q \in SafePackets :
              /\ <<>> \o Leaves(p, r) = <<q>>
              /\ q.cmd = p.cmd /\ q.off = p.off /\ q.bytes = p.bytes
<1> DEFINE q == [p EXCEPT !.complete = (r = Even(p.length))]
<1>1. p \in Packets
  BY Zenon DEF SafePackets
<1>2. q.cmd = p.cmd /\ q.off = p.off /\ q.bytes = p.bytes /\ q.length = p.length
  BY <1>1 DEF Packets
<1>3. (r = Even(p.length)) \in BOOLEAN
  OBVIOUS
<1>4. q \in Packets
  BY <1>1, <1>3, Zenon DEF Packets
<1>5. q \in SafePackets
  BY <1>2, <1>4, Zenon DEF SafePackets
<1>6. Leaves(p, r) = <<q>> \/ Leaves(p, r) = <<>>
  BY Zenon DEF Leaves
<1> HIDE DEF q
<1> QED
  BY <1>2, <1>5, <1>6

LEMMA HostInStep ==
  ASSUME TypeOK, SafeQueue, InStep, Host
  PROVE  InStep' /\ Stored'
<1>0. HostTypeOK /\ LinkTypeOK
  BY DEF TypeOK
<1>a. ASSUME pc' = "idle", result' # "ok" PROVE InStep' /\ Stored'
  BY <1>a DEF InStep, Stored, Returned
<1>b. ASSUME NEW cmd, Reply(cmd)
      PROVE  /\ pc = "loop" /\ toHost # <<>> /\ Head(toHost) = cmd /\ toHost' = Tail(toHost)
             /\ fileSize' = fileSize /\ actual' = actual
             /\ dev' = dev /\ stored' = stored
             /\ inSync' = inSync /\ whole' = whole
  BY <1>b, Zenon DEF Reply, devVars
<1>c. ASSUME ~inSync' PROVE InStep'
  BY <1>c, Zenon DEF InStep
<1>d. ASSUME pc' = "loop" PROVE Stored'
  BY <1>d DEF Stored, Returned
<1>1. CASE SendStart
  <2>1. Reply("SUCCESS") /\ state = "START" /\ state' = "DATA"
        /\ UNCHANGED <<pc, pos, byteCount, result>>
    BY <1>1, Zenon DEF SendStart
  <2>2. CASE inSync
    <3>1. /\ toDev = <<>> /\ toHost' = <<>> /\ byteCount = 0 /\ pos = byteCount
          /\ actual = fileSize => byteCount <= fileSize
      BY <1>b, <2>1, <2>2, StepsOfInStep DEF Answered
    <3>2. PICK t \in Transmit(StartPacket) : toDev' = toDev \o t
      BY <1>1 DEF SendStart
    <3>3. toDev' = <<StartPacket>> \/ toDev' = <<>>
      BY <3>1, <3>2, TransmitOne
    <3>4. OnItsWay(StartPacket)'
      BY <2>1, <3>1 DEF OnItsWay, StartPacket, Packet
    <3>5. Reached'
      BY <2>1 DEF Reached
    <3>6. Sent' \/ Lost'
      BY <3>1, <3>3, <3>4, <3>5, ThePackets, Zenon DEF Sent, Lost
    <3> QED
      BY <1>b, <1>d, <2>1, <3>1, <3>6 DEF InStep
  <2> QED
    BY <1>b, <1>c, <1>d, <2>1, <2>2
<1>2. CASE SendData
  <2>0. PICK got \in Reads :
          LET w == Kept(got) IN
            /\ Reply("SUCCESS") /\ state = "DATA" /\ Available > 0
            /\ pos' = pos + w /\ byteCount' = byteCount + w
            /\ state' = IF byteCount' >= fileSize THEN "END" ELSE "DATA"
            /\ \E r \in Sends(Even(DataLength(w))) :
                 /\ toDev' = toDev \o Leaves(DataPacket(w), r)
                 /\ \/ pc' = "idle" /\ result' = "eproto"
                    \/ UNCHANGED <<pc, result>>
    BY <1>2, Zenon DEF SendData, Return
  <2> DEFINE w == Kept(got)
  <2>1. /\ Reply("SUCCESS") /\ state = "DATA" /\ Available > 0
        /\ pos' = pos + w /\ byteCount' = byteCount + w
        /\ state' = IF byteCount' >= fileSize THEN "END" ELSE "DATA"
    BY <2>0, Zenon
  <2>2. PICK r \in Sends(Even(DataLength(w))) :
          /\ toDev' = toDev \o Leaves(DataPacket(w), r)
          /\ \/ pc' = "idle" /\ result' = "eproto"
             \/ UNCHANGED <<pc, result>>
    BY <2>0, Zenon
  <2>3. w \in Nat /\ w <= actual - pos
    <3>1. got \in 1..PayloadSize /\ got <= actual - pos
      BY <1>0, <2>1, ReadType
    <3>2. w \in 1..got
      BY <3>1, KeptAvoids512
    <3>3. pos \in Nat /\ actual \in Nat
      BY <1>0 DEF HostTypeOK
    <3> HIDE DEF w
    <3> QED
      BY <3>1, <3>2, <3>3
  <2> HIDE DEF w
  <2>4. CASE pc' = "idle"
    BY <1>a, <1>b, <2>1, <2>2, <2>4
  <2>5. CASE inSync /\ pc' = pc
    <3>1. /\ toDev = <<>> /\ toHost' = <<>> /\ whole /\ stored = byteCount
          /\ pos = byteCount /\ (actual = fileSize => byteCount <= fileSize)
      BY <1>b, <2>1, <2>5, StepsOfInStep, Zenon DEF Answered
    <3>2. /\ pos \in Nat /\ byteCount \in Nat /\ actual \in Nat /\ fileSize \in Nat
      BY <1>0 DEF HostTypeOK
    <3>3. pos' = byteCount' /\ (actual' = fileSize' => byteCount' <= fileSize')
      <4>1. pos' = byteCount'
        BY <2>1, <3>1, Zenon
      <4>2. actual' = actual /\ fileSize' = fileSize
        BY <1>b, <2>1
      <4>3. byteCount + w <= actual
        BY <2>3, <3>1, <3>2
      <4> QED
        BY <2>1, <4>1, <4>2, <4>3
    <3>4. Reached' /\ state' \in {"DATA", "END"}
      BY <1>b, <2>1, <3>2 DEF Reached
    <3>5. DataPacket(w) \in SafePackets
      BY <1>0, <2>1, DataPacketSafe DEF w
    <3>6. \/ toDev' = <<>>
          \/ \E q \in SafePackets :
               /\ toDev' = <<q>> /\ q.cmd = DataPacket(w).cmd
               /\ q.off = DataPacket(w).off /\ q.bytes = DataPacket(w).bytes
      BY <2>2, <3>1, <3>5, LeavesOne
    <3>7. /\ DataPacket(w).cmd = "DATA_HDD_FILE_DATA"
          /\ DataPacket(w).off = byteCount /\ DataPacket(w).bytes = w
      BY DEF DataPacket, Packet
    <3>8. Sent' \/ Lost'
      <4>1. CASE toDev' = <<>>
        BY <3>1, <4>1 DEF Lost
      <4>2. CASE toDev' # <<>>
        <5>1. PICK q \in SafePackets :
                /\ toDev' = <<q>> /\ q.cmd = "DATA_HDD_FILE_DATA"
                /\ q.off = byteCount /\ q.bytes = w
          BY <3>6, <3>7, <4>2, Zenon
        <5>2. whole' /\ stored' = q.off /\ stored' + q.bytes = byteCount'
          BY <1>b, <2>1, <3>1, <5>1, Zenon
        <5>3. OnItsWay(q)'
          BY <3>4, <5>1, <5>2, Zenon DEF OnItsWay
        <5> QED
          BY <3>1, <3>4, <5>1, <5>3, Zenon DEF Sent
      <4> QED
        BY <4>1, <4>2
    <3> QED
      BY <1>b, <1>d, <2>1, <2>5, <3>3, <3>8 DEF InStep
  <2> QED
    BY <1>b, <1>c, <1>d, <2>1, <2>2, <2>4, <2>5
<1>3. CASE SendNothing
  <2>1. /\ Reply("SUCCESS") /\ UNCHANGED <<pc, pos, byteCount, result, toDev>>
    BY <1>3, Zenon DEF SendNothing
  <2>2. CASE inSync
    <3>1. /\ toDev' = <<>> /\ toHost' = <<>>
          /\ pos = byteCount /\ (actual = fileSize => byteCount <= fileSize)
      BY <1>b, <2>1, <2>2, StepsOfInStep
    <3> QED
      BY <1>b, <1>d, <2>1, <3>1 DEF InStep, Lost
  <2> QED
    BY <1>b, <1>c, <1>d, <2>1, <2>2
<1>4. CASE SendEnd
  <2> DEFINE end == Packet("DATA_HDD_FILE_END", PACKET_HEAD_SIZE, 0, 0)
  <2>1. Reply("SUCCESS") /\ state = "END" /\ state' = "FINISHED"
        /\ UNCHANGED <<pc, pos, byteCount, result>>
    BY <1>4, Zenon DEF SendEnd
  <2>2. CASE inSync
    <3>1. /\ toDev = <<>> /\ toHost' = <<>> /\ whole /\ stored = byteCount
          /\ Reached /\ pos = byteCount
          /\ actual = fileSize => byteCount <= fileSize
      BY <1>b, <2>1, <2>2, StepsOfInStep, Zenon DEF Answered
    <3>2. PICK t \in Transmit(end) : toDev' = toDev \o t
      BY <1>4 DEF SendEnd
    <3>3. toDev' = <<end>> \/ toDev' = <<>>
      BY <3>1, <3>2, TransmitOne
    <3>4. end.cmd = "DATA_HDD_FILE_END"
      BY DEF Packet
    <3>5. end \in SafePackets
      BY ThePackets
    <3> HIDE DEF end
    <3>6. whole' /\ stored' = byteCount'
      BY <1>b, <2>1, <3>1, Zenon
    <3>7. OnItsWay(end)'
      BY <2>1, <3>4, <3>6, Zenon DEF OnItsWay, end
    <3>8. Reached'
      BY <1>b, <2>1, <3>1 DEF Reached
    <3>9. Sent' \/ Lost'
      BY <3>1, <3>3, <3>5, <3>7, <3>8, Zenon DEF Sent, Lost, end
    <3> QED
      BY <1>b, <1>d, <2>1, <3>1, <3>9 DEF InStep
  <2> QED
    BY <1>b, <1>c, <1>d, <2>1, <2>2
<1>5. CASE Finish
  <2>1. /\ Reply("SUCCESS") /\ state = "FINISHED" /\ pc' = "idle"
        /\ UNCHANGED <<state, pos, byteCount, toDev>>
    BY <1>5, Zenon DEF Finish, Return
  <2>2. InStep'
    BY <2>1 DEF InStep
  <2>3. CASE inSync
    <3>1. /\ toDev = <<>> /\ whole /\ stored = byteCount /\ dev = "idle"
          /\ Reached /\ (actual = fileSize => byteCount <= fileSize)
      BY <1>b, <2>1, <2>3, StepsOfInStep, Zenon DEF Answered
    <3>2. byteCount >= fileSize
      BY <2>1, <3>1 DEF Reached
    <3>3. whole'
      BY <1>b, <2>1, <3>1, Zenon
    <3>4. /\ toDev' = <<>> /\ stored' = byteCount' /\ dev' = "idle"
          /\ byteCount' >= fileSize' /\ (actual' = fileSize' => byteCount' <= fileSize')
      BY <1>b, <2>1, <3>1, <3>2
    <3> QED
      BY <2>2, <3>3, <3>4, Zenon DEF Stored
  <2>4. CASE ~inSync
    BY <1>b, <2>1, <2>2, <2>4, Zenon DEF Stored
  <2> QED
    BY <2>3, <2>4
<1>6. CASE RecvFail
  BY <1>6, <1>a DEF RecvFail, Return
<1>7. CASE RecvDamaged
  <2>1. /\ pc = "loop" /\ toHost # <<>> /\ toHost' = Tail(toHost)
        /\ UNCHANGED <<fileSize, actual, pos, byteCount, inSync, toDev>>
        /\ \/ pc' = pc
           \/ pc' = "idle" /\ result' = "eproto"
    BY <1>7, Zenon DEF RecvDamaged, Return
  <2>2. CASE inSync /\ pc' = pc
    <3>1. \/ toDev = <<>> /\ toHost = <<"SUCCESS">>
          \/ toDev = <<>> /\ toHost = <<"FAIL">>
      BY <2>1, <2>2 DEF InStep, Sent, Acknowledged, Refused, Lost
    <3>2. Lost'
      BY <2>1, <3>1, TailOfOne DEF Lost
    <3> QED
      BY <1>d, <2>1, <2>2, <3>2 DEF InStep
  <2> QED
    BY <1>a, <1>c, <1>d, <2>1, <2>2
<1>8. CASE ReadFails
  BY <1>8, <1>a DEF ReadFails, Return
<1> QED
  BY <1>1, <1>2, <1>3, <1>4, <1>5, <1>6, <1>7, <1>8 DEF Host

LEMMA DeviceInStep ==
  ASSUME LinkTypeOK, InStep, Stored, Device
  PROVE  InStep' /\ Stored'
<1>1. toDev # <<>> /\ toDev' = Tail(toDev) /\ UNCHANGED hostVars
  BY DEF Device, DevOpen, DevBegin, DevStore, DevClose, DevRefuse, DevDiscard, DevTake
<1>2. Stored'
  BY <1>1, Zenon DEF Stored, Returned, hostVars
<1>3. CASE ~(pc = "loop" /\ inSync)
  BY <1>1, <1>2, <1>3, Zenon DEF InStep, hostVars
<1>4. CASE pc = "loop" /\ inSync
  <2>1. Sent /\ pos = byteCount /\ (actual = fileSize => byteCount <= fileSize)
    BY <1>1, <1>4, Zenon DEF InStep, Acknowledged, Refused, Lost
  <2>2. PICK p \in SafePackets :
          toDev = <<p>> /\ toHost = <<>> /\ (p.complete => OnItsWay(p) /\ Reached)
    BY <2>1, Zenon DEF Sent
  <2>3. Head(toDev) = p /\ toDev' = <<>>
    BY <1>1, <2>2
  <2>4. /\ pos' = byteCount' /\ (actual' = fileSize' => byteCount' <= fileSize')
        /\ (Reached => Reached') /\ state' = state /\ byteCount' = byteCount
    BY <1>1, <2>1 DEF hostVars, Reached
  <2>5. SUFFICES Acknowledged' \/ Refused' \/ Lost'
    BY <1>2, <2>4 DEF InStep
  <2>6. ASSUME NEW answer, DevSay(answer) PROVE toHost' = <<answer>>
    BY <2>2, <2>6 DEF DevSay
  <2>7. ASSUME NEW cmd, DevTake(cmd) PROVE p.cmd = cmd /\ OnItsWay(p) /\ Reached'
    <3>1. p.complete /\ p.cmd = cmd
      BY <2>3, <2>7, Zenon DEF DevTake
    <3> QED
      BY <2>2, <2>4, <3>1, Zenon
  <2>8. CASE DevOpen
    <3>1. p.cmd = "CMD_HDD_FILE_SEND" /\ OnItsWay(p) /\ Reached'
      BY <2>7, <2>8 DEF DevOpen
    <3>2. state = "START" /\ byteCount = 0
      BY <3>1 DEF OnItsWay
    <3>3. toHost' = <<"SUCCESS">>
      BY <2>6, <2>8 DEF DevOpen
    <3> QED
      BY <2>3, <2>4, <3>1, <3>2, <3>3, Zenon DEF Acknowledged, Answered
  <2>9. CASE DevBegin
    <3>1. p.cmd = "DATA_HDD_FILE_START" /\ OnItsWay(p) /\ Reached'
      BY <2>7, <2>9 DEF DevBegin
    <3>2. state = "DATA" /\ byteCount = 0
      BY <3>1 DEF OnItsWay
    <3>3. toHost' = <<"SUCCESS">> /\ stored' = 0 /\ whole' = TRUE
      BY <2>6, <2>9, Zenon DEF DevBegin
    <3> QED
      BY <2>3, <2>4, <3>1, <3>2, <3>3, Zenon DEF Acknowledged, Answered
  <2>10. CASE DevStore
    <3>1. p.cmd = "DATA_HDD_FILE_DATA" /\ OnItsWay(p) /\ Reached'
      BY <2>7, <2>10 DEF DevStore
    <3>2. /\ state \in {"DATA", "END"}
          /\ whole /\ stored = p.off /\ stored + p.bytes = byteCount
      BY <3>1, Zenon DEF OnItsWay
    <3>3. toHost' = <<"SUCCESS">> /\ stored' = stored + p.bytes /\ whole'
      BY <2>3, <2>6, <2>10, <3>2, Zenon DEF DevStore
    <3> QED
      BY <2>3, <2>4, <3>1, <3>2, <3>3, Zenon DEF Acknowledged, Answered
  <2>11. CASE DevClose
    <3>1. p.cmd = "DATA_HDD_FILE_END" /\ OnItsWay(p) /\ Reached'
      BY <2>7, <2>11 DEF DevClose
    <3>2. state = "FINISHED" /\ whole /\ stored = byteCount
      BY <3>1, Zenon DEF OnItsWay
    <3>3. /\ toHost' = <<"SUCCESS">> /\ dev' = "idle"
          /\ stored' = stored /\ whole' = whole
      BY <2>6, <2>11, Zenon DEF DevClose
    <3> QED
      BY <2>3, <2>4, <3>1, <3>2, <3>3, Zenon DEF Acknowledged, Answered
  <2>12. CASE DevRefuse
    BY <2>3, <2>6, <2>12, Zenon DEF DevRefuse, Refused
  <2>13. CASE DevDiscard
    BY <2>2, <2>3, <2>13 DEF DevDiscard, Lost
  <2> QED
    BY <2>8, <2>9, <2>10, <2>11, <2>12, <2>13 DEF Device
<1> QED
  BY <1>3, <1>4

LEMMA CallInStep ==
  ASSUME TypeOK, InStep, Stored, CallRefused \/ Call \/ Drift
  PROVE  InStep' /\ Stored'
<1>1. CASE CallRefused
  BY <1>1 DEF CallRefused, Return, InStep, Stored, Returned
<1>2. CASE Call
  <2>1. pc' = "loop" /\ state' = "START" /\ pos' = 0 /\ byteCount' = 0
        /\ toHost' = toHost /\ fileSize' \in Nat
    BY <1>2, FilePutAssumption DEF Call
  <2>2. inSync' = Quiet
    BY <1>2, Zenon DEF Call
  <2>3. Stored'
    BY <2>1 DEF Stored, Returned
  <2>4. CASE Quiet
    <3> DEFINE p == Packet("CMD_HDD_FILE_SEND", 16, 0, 0)
    <3>1. PICK c \in Transmit(p) : toDev' = toDev \o c
      BY <1>2 DEF Call
    <3>2. toDev' = <<p>> \/ toDev' = <<>>
      BY <2>4, <3>1, TransmitOne DEF Quiet
    <3>3. OnItsWay(p)' /\ Reached'
      BY <2>1 DEF OnItsWay, Reached, Packet
    <3>4. p \in SafePackets
      BY ThePackets
    <3>5. toHost' = <<>>
      BY <2>1, <2>4 DEF Quiet
    <3>6. Sent' \/ Lost'
      BY <3>2, <3>3, <3>4, <3>5, Zenon DEF Sent, Lost
    <3>7. byteCount' <= fileSize'
      BY <2>1
    <3> QED
      BY <2>1, <2>3, <3>6, <3>7, Zenon DEF InStep
  <2>5. CASE ~Quiet
    BY <2>2, <2>3, <2>5, Zenon DEF InStep
  <2> QED
    BY <2>4, <2>5
<1>3. CASE Drift
  <2>1. /\ pc' = "loop" /\ pc = "loop" /\ actual = fileSize
        /\ UNCHANGED <<state, fileSize, pos, byteCount, inSync, toDev, toHost>>
        /\ UNCHANGED <<dev, stored, whole>>
    BY <1>3, Zenon DEF Drift, pipeVars, devVars
  <2>2. Stored'
    BY <2>1 DEF Stored, Returned
  <2>3. InStep'
    <3>1. CASE inSync
      <4>1. /\ Sent \/ Acknowledged \/ Refused \/ Lost
            /\ pos = byteCount /\ byteCount <= fileSize
        BY <2>1, <3>1, Zenon DEF InStep
      <4>2. (Sent => Sent') /\ (Acknowledged => Acknowledged')
        BY <2>1, Zenon DEF Sent, Acknowledged, OnItsWay, Answered, Reached
      <4>3. (Refused => Refused') /\ (Lost => Lost')
        BY <2>1 DEF Refused, Lost
      <4> QED
        BY <2>1, <4>1, <4>2, <4>3, Zenon DEF InStep
    <3>2. CASE ~inSync
      BY <2>1, <3>2, Zenon DEF InStep
    <3> QED
      BY <3>1, <3>2
  <2> QED
    BY <2>2, <2>3
<1> QED
  BY <1>1, <1>2, <1>3

LEMMA InvInit == Init => Inv
<1> SUFFICES ASSUME Init PROVE Inv
  OBVIOUS
<1>1. LinkTypeOK /\ HostTypeOK /\ SafeQueue
  BY FilePutAssumption DEF Init, LinkTypeOK, HostTypeOK, SafeQueue
<1>2. FlagsTypeOK
  BY Zenon DEF Init, FlagsTypeOK
<1> QED
  BY <1>1, <1>2 DEF Init, Inv, TypeOK, InStep, Stored, Returned

LEMMA InvStep == Inv /\ [Next]_vars => Inv'
<1> SUFFICES ASSUME Inv, [Next]_vars PROVE Inv'
  OBVIOUS
<1>1. TypeOK /\ SafeQueue /\ InStep /\ Stored
  BY DEF Inv
<1>2. TypeOK' /\ SafeQueue'
  BY <1>1, TypeStep
<1>3. InStep' /\ Stored'
  <2>1. CASE UNCHANGED vars
    <3>1. UNCHANGED <<pc, state, fileSize, actual, pos, byteCount, result, inSync>>
          /\ UNCHANGED <<toDev, toHost, dev, stored, whole>>
      BY <2>1 DEF vars, hostVars, pipeVars, devVars
    <3> QED
      BY <1>1, <3>1, Zenon DEF InStep, Stored, Returned, Sent, Acknowledged, Refused,
                               Lost, OnItsWay, Answered, Reached
  <2>2. CASE CallRefused \/ Call \/ Drift
    BY <1>1, <2>2, CallInStep
  <2>3. CASE Host
    BY <1>1, <2>3, HostInStep
  <2>4. CASE Device
    BY <1>1, <2>4, DeviceInStep DEF TypeOK
  <2> QED
    BY <2>1, <2>2, <2>3, <2>4 DEF Next
<1> QED
  BY <1>2, <1>3 DEF Inv

LEMMA InvHolds == Spec => []Inv
BY InvInit, InvStep, PTL DEF Spec

-----------------------------------------------------------------------------
(***************************************************************************)
(* Every variable of the put keeps its type, and the length field of every *)
(* packet fits in 16 bits, whatever the link and the local disk do.        *)
(***************************************************************************)
THEOREM TypeCorrect == Spec => []TypeOK
<1>1. Inv => TypeOK
  BY DEF Inv
<1> QED
  BY <1>1, InvHolds, PTL

(***************************************************************************)
(* No data packet of any file, growing, shrinking or left alone, makes a   *)
(* transfer that is a multiple of 512 bytes long (libpuppy.c:629).         *)
(***************************************************************************)
THEOREM NoMultipleOf512 == Spec => []PacketsAvoid512
<1>1. Inv => PacketsAvoid512
  <2> SUFFICES ASSUME Inv, NEW i \in 1..Len(toDev),
                      toDev[i].cmd = "DATA_HDD_FILE_DATA"
               PROVE  Even(toDev[i].length) % 512 # 0
    BY DEF PacketsAvoid512
  <2>1. toDev[i] \in SafePackets
    BY DEF Inv, SafeQueue
  <2> QED
    BY <2>1, Zenon DEF SafePackets
<1> QED
  BY <1>1, InvHolds, PTL

(***************************************************************************)
(* A call that began with clean pipes never has two packets under way, so  *)
(* the reply it reads is the reply to what it sent last.                   *)
(***************************************************************************)
THEOREM TakingTurns == Spec => []Lockstep
<1>1. Inv => Lockstep
  <2> SUFFICES ASSUME Inv, pc = "loop", inSync
               PROVE  Len(toHost) + Len(toDev) <= 1
    BY DEF Lockstep
  <2>1. Sent \/ Acknowledged \/ Refused \/ Lost
    BY DEF Inv, InStep
  <2>2. CASE Sent
    <3>1. PICK p : toDev = <<p>> /\ toHost = <<>>
      BY <2>2 DEF Sent
    <3> QED
      BY <3>1
  <2>3. CASE Acknowledged \/ Refused \/ Lost
    <3>1. toDev = <<>> /\ toHost \in {<<"SUCCESS">>, <<"FAIL">>, <<>>}
      BY <2>3, Zenon DEF Acknowledged, Refused, Lost
    <3>2. Len(toDev) = 0 /\ Len(toHost) \in 0..1
      BY <3>1
    <3> QED
      BY <3>2
  <2> QED
    BY <2>1, <2>2, <2>3
<1> QED
  BY <1>1, InvHolds, PTL

(***************************************************************************)
(* The 0 that puppy_hdd_file_put returns can be believed: the device has   *)
(* closed a file with everything the local one held when the call began.   *)
(***************************************************************************)
THEOREM PutsAreComplete == Spec => []PutComplete
<1>1. Inv => PutComplete
  <2> SUFFICES ASSUME Inv, Returned("ok"), inSync
               PROVE  /\ dev = "idle" /\ whole
                      /\ stored = byteCount /\ stored >= fileSize
                      /\ actual = fileSize => stored = fileSize
    BY DEF PutComplete
  <2>1. /\ dev = "idle" /\ whole /\ stored = byteCount /\ byteCount >= fileSize
        /\ actual = fileSize => byteCount <= fileSize
    BY Zenon DEF Inv, Stored
  <2>2. byteCount \in Nat /\ fileSize \in Nat
    BY DEF Inv, TypeOK, HostTypeOK
  <2>3. stored >= fileSize /\ (actual = fileSize => stored = fileSize)
    BY <2>1, <2>2
  <2> QED
    BY <2>1, <2>3, Zenon
<1> QED
  BY <1>1, InvHolds, PTL

-----------------------------------------------------------------------------
(***************************************************************************)
(* A sound link: packets are neither lost, late nor damaged, but the       *)
(* device may refuse, the local file may shrink under the call and a call  *)
(* may fail before it begins.  Every send leaves whole, so that a call     *)
(* only returns with an answer it has read, or when nothing is under way.  *)
(***************************************************************************)
Sound == inSync /\ (pc = "idle" => Quiet)

(* A data packet that leaves whole passes the test r < w. *)
LEMMA WholeSendPasses ==
  ASSUME TypeOK, "send" \notin Faults, SendData
  PROVE  UNCHANGED <<pc, result>>
<1>1. PICK got \in Reads :
        /\ Available > 0
        /\ \E r \in Sends(Even(DataLength(Kept(got)))) :
             IF r < Kept(got) THEN Return("eproto") ELSE UNCHANGED <<pc, result>>
  BY Zenon DEF SendData
<1> DEFINE w == Kept(got)
<1>2. w \in Nat
  BY <1>1, ReadType, KeptAvoids512 DEF TypeOK
<1>3. DataLength(w) \in Nat /\ DataLength(w) >= w
  BY <1>2 DEF DataLength, PACKET_HEAD_SIZE
<1>4. Even(DataLength(w)) \in Nat /\ Even(DataLength(w)) >= w
  BY <1>2, <1>3, EvenIsNat
<1>5. Sends(Even(DataLength(w))) = {Even(DataLength(w))}
  BY DEF Sends
<1>6. PICK r \in Sends(Even(DataLength(w))) :
        IF r < w THEN Return("eproto") ELSE UNCHANGED <<pc, result>>
  BY <1>1
<1> HIDE DEF w
<1>7. ~(r < w)
  BY <1>2, <1>4, <1>5, <1>6
<1> QED
  BY <1>6, <1>7

LEMMA SoundAfterHost ==
  ASSUME Faults \subseteq {"refuse", "local"}, Inv, Sound, Host
  PROVE  Sound'
<1>1. {"send", "damage", "disk", "read", "late"} \cap Faults = {}
  OBVIOUS
<1>2. ~RecvDamaged /\ (ReadFails => Lost)
  BY <1>1 DEF RecvDamaged, ReadFails, ReadMayFail, Lost
<1>3. inSync'
  BY <1>2 DEF Host, SendStart, SendData, SendNothing, SendEnd, Finish, RecvFail, ReadFails,
              Reply, Sound
<1>4. CASE pc' # "idle"
  BY <1>3, <1>4 DEF Sound
<1>5. CASE pc' = "idle"
  <2>1. pc = "loop"
    BY <1>2 DEF Host, SendStart, SendData, SendNothing, SendEnd, Finish, RecvFail,
                ReadFails, Reply
  <2>2. Finish \/ RecvFail \/ ReadFails
    <3>1. ~SendData
      BY <1>1, <1>5, <2>1, WholeSendPasses DEF Inv
    <3> QED
      BY <1>2, <1>5, <2>1, <3>1 DEF Host, SendStart, SendNothing, SendEnd
  <2>3. CASE ReadFails
    BY <1>2, <1>3, <2>3 DEF ReadFails, Lost, Sound, Quiet, pipeVars
  <2>4. CASE Finish \/ RecvFail
    <3>1. toHost # <<>> /\ toHost' = Tail(toHost) /\ toDev' = toDev
      BY <2>4 DEF Finish, RecvFail, Reply
    <3>2. Acknowledged \/ Refused
      BY <2>1, <3>1 DEF Inv, InStep, Sound, Sent, Lost
    <3>3. toDev' = <<>> /\ toHost' = <<>>
      BY <3>1, <3>2, TailOfOne DEF Acknowledged, Refused
    <3> QED
      BY <1>3, <3>3 DEF Sound, Quiet
  <2> QED
    BY <2>2, <2>3, <2>4
<1> QED
  BY <1>4, <1>5

LEMMA SoundStep ==
  ASSUME Faults \subseteq {"refuse", "local"}, Inv, Sound, [Next]_vars
  PROVE  Sound'
<1>1. CASE UNCHANGED vars
  BY <1>1 DEF vars, hostVars, pipeVars, Sound, Quiet
<1>2. CASE CallRefused
  BY <1>2 DEF CallRefused, Return, pipeVars, Sound, Quiet
<1>3. CASE Call \/ Drift
  <2>1. pc' = "loop" /\ inSync'
    BY <1>3 DEF Call, Drift, Sound
  <2> QED
    BY <2>1 DEF Sound
<1>4. CASE Device
  <2>1. UNCHANGED hostVars /\ toDev # <<>>
    BY <1>4 DEF Device, DevOpen, DevBegin, DevStore, DevClose, DevRefuse, DevDiscard, DevTake
  <2> QED
    BY <2>1 DEF Sound, Quiet, hostVars
<1> QED
  BY <1>1, <1>2, <1>3, <1>4, SoundAfterHost DEF Next

(***************************************************************************)
(* On a sound link every store begins and ends with both pipes empty:      *)
(* whether it succeeded, was refused or found the local file shrunk, the   *)
(* answer to every packet it sent has been read.                           *)
(***************************************************************************)
THEOREM QuietBetweenCalls ==
  ASSUME Faults \subseteq {"refuse", "local"}
  PROVE  Spec => [](pc = "idle" => Quiet)
<1>1. Init => Sound
  BY DEF Init, Sound, Quiet
<1>2. Inv /\ Sound /\ [Next]_vars => Sound'
  BY SoundStep
<1>3. Sound => (pc = "idle" => Quiet)
  BY DEF Sound
<1> QED
  BY <1>1, <1>2, <1>3, InvHolds, PTL DEF Spec

=============================================================================
