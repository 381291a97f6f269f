----------------------------- MODULE BulkIO_proofs -----------------------------
(***************************************************************************)
(* Proofs about the chunk loops of usb_io.c, for every length of a packet  *)
(* and of a path, every command the device may send and every link: what   *)
(* the writes count and how long commands are; that the early answer       *)
(* agrees with the switch; which packets of a device that waits are whole; *)
(* and that the loops make a queue of packets of the byte stream.          *)
(***************************************************************************)
EXTENDS BulkIO, SequenceTheorems, TLAPS

-----------------------------------------------------------------------------
(***************************************************************************)
(* The lengths of the commands' packets.                                   *)
(***************************************************************************)
LEMMA SixteenBits == ASSUME NEW n \in Nat, n < 65536 PROVE W16(n) = n
  BY DEF W16

(* Rounding up to an even length overshoots no packet that fits. *)
LEMMA RoundedUp ==
  ASSUME NEW n \in Nat, n < MAXIMUM_PACKET_SIZE
  PROVE  /\ Even(n) \in Nat /\ Even(n) % 2 = 0
         /\ n <= Even(n) /\ Even(n) < MAXIMUM_PACKET_SIZE
  BY DEF Even, MAXIMUM_PACKET_SIZE

(* What 16 bits keep of the length of a path with its NUL: all of it, or by *)
(* 65536 or more too little.                                                *)
KeptOrCut(n) ==
  /\ n \in Nat /\ W16(n + 1) \in Nat
  /\ IF n + 1 < 65536 THEN W16(n + 1) = n + 1 ELSE W16(n + 1) + 65536 <= n + 1

LEMMA PathLengthCut == ASSUME NEW n \in PathLengths PROVE KeptOrCut(n)
<1>1. n \in Nat
  BY DEF PathLengths
<1>2. PICK m \in Nat : m = n + 1
  BY <1>1
<1>3. W16(m) \in Nat
  BY <1>2 DEF W16
<1>4. CASE m < 65536
  BY <1>1, <1>2, <1>4, SixteenBits, SMT DEF KeptOrCut
<1>5. CASE m >= 65536
  <2>1. m % 65536 <= m - 65536
    BY <1>2, <1>5, SMT
  <2> QED
    BY <1>1, <1>2, <1>3, <1>5, <2>1, SMT DEF KeptOrCut, W16
<1> QED
  BY <1>2, <1>4, <1>5

(* The size a command tests, and the size it needs: the same if the lengths *)
(* of its paths were kept, else far less.                                   *)
LEMMA SizeIsNeeded ==
  ASSUME NEW r, r.kind \in CommandKinds, r.a \in PathLengths, r.b \in PathLengths
  PROVE  /\ CommandSize(r.kind, r.a, r.b) \in Nat
         /\ CommandSize(r.kind, r.a, r.b) >= PACKET_HEAD_SIZE
         /\ Needs(r) \in Nat
         /\ IF LengthsKept(r)
            THEN CommandSize(r.kind, r.a, r.b) = Needs(r)
            ELSE CommandSize(r.kind, r.a, r.b) + 65536 <= Needs(r)
<1> SUFFICES /\ PayloadSize(r.kind, r.a, r.b) \in Nat
             /\ Content(r) \in Nat
             /\ IF LengthsKept(r)
                THEN PayloadSize(r.kind, r.a, r.b) = Content(r)
                ELSE PayloadSize(r.kind, r.a, r.b) + 65536 <= Content(r)
  BY SMT DEF CommandSize, Needs, PACKET_HEAD_SIZE
<1>1. KeptOrCut(r.a) /\ KeptOrCut(r.b)
  BY PathLengthCut, Zenon
<1>0. r.kind \notin {"CMD_HDD_RENAME", "CMD_HDD_CREATE_DIR"} => LengthsKept(r)
  BY DEF LengthsKept
<1>2. CASE r.kind = "CMD_READY"
  <2>1. PayloadSize(r.kind, r.a, r.b) = 0 /\ Content(r) = 0
    BY <1>2, Zenon DEF PayloadSize, Content
  <2> QED
    BY <1>0, <1>2, <2>1
<1>3. CASE r.kind = "CMD_TURBO"
  <2>1. PayloadSize(r.kind, r.a, r.b) = 4 /\ Content(r) = 4
    BY <1>3, Zenon DEF PayloadSize, Content
  <2> QED
    BY <1>0, <1>3, <2>1
<1>4. CASE r.kind = "CMD_HDD_DIR" \/ r.kind = "CMD_HDD_DEL"
  <2>1. PayloadSize(r.kind, r.a, r.b) = r.a + 1 /\ Content(r) = r.a + 1
    BY <1>4, Zenon DEF PayloadSize, Content
  <2> QED
    BY <1>0, <1>1, <1>4, <2>1 DEF KeptOrCut
<1>5. CASE r.kind = "CMD_HDD_FILE_SEND"
  <2>1. PayloadSize(r.kind, r.a, r.b) = 1 + 2 + r.a + 1 /\ Content(r) = 3 + r.a + 1
    BY <1>5, Zenon DEF PayloadSize, Content
  <2> QED
    BY <1>0, <1>1, <1>5, <2>1 DEF KeptOrCut
<1>6. CASE r.kind = "CMD_HDD_RENAME"
  <2>1. /\ PayloadSize(r.kind, r.a, r.b) = 2 + W16(r.a + 1) + 2 + W16(r.b + 1)
        /\ Content(r) = 4 + r.a + r.b + 2
    BY <1>6, Zenon DEF PayloadSize, Content
  <2>2. LengthsKept(r) <=> r.a + 1 < 65536 /\ r.b + 1 < 65536
    BY <1>6 DEF LengthsKept
  <2> QED
    BY <1>1, <2>1, <2>2, SMT DEF KeptOrCut
<1>7. CASE r.kind = "CMD_HDD_CREATE_DIR"
  <2>1. PayloadSize(r.kind, r.a, r.b) = 2 + W16(r.a + 1) /\ Content(r) = 2 + r.a + 1
    BY <1>7, Zenon DEF PayloadSize, Content
  <2>2. LengthsKept(r) <=> r.a + 1 < 65536
    BY <1>7 DEF LengthsKept
  <2> QED
    BY <1>1, <2>1, <2>2, SMT DEF KeptOrCut
<1> QED
  BY <1>2, <1>3, <1>4, <1>5, <1>6, <1>7 DEF CommandKinds

(* A request is one of the commands, its paths no longer than a word. *)
LEMMA RequestBounds ==
  ASSUME NEW r \in Requests
  PROVE  r.kind \in CommandKinds /\ r.a \in PathLengths /\ r.b \in PathLengths
<1>1. r \in [kind : CommandKinds, a : PathLengths, b : PathLengths]
  BY BulkIOAssumption, Zenon
<1> QED
  BY <1>1

-----------------------------------------------------------------------------
(***************************************************************************)
(* usb_bulk_write: in the loop exactly what was counted has left, and the  *)
(* count is whole chunks short of the length; only the ioctl that fails    *)
(* may put more on the wire than the count says.                           *)
(***************************************************************************)
CountOK ==
  /\ sent = length => left = length
  /\ sent < length => sent % MAX_WRITE = 0
  /\ sent <= left /\ left <= length

WriteInv ==
  /\ length \in Nat /\ sent \in Nat /\ left \in Nat
  /\ pc = "write" => left = sent /\ sent < length /\ sent % MAX_WRITE = 0
  /\ pc # "write" => CountOK
  /\ CommandsFit

(* Nothing has been written. *)
LEMMA WriteInit == Init => WriteInv
  BY DEF Init, WriteInv, CountOK, CommandsFit

(* A command that is sent has the length it tested. *)
LEMMA AfterWriteBegin ==
  ASSUME WriteInv, WriteBegin
  PROVE  WriteInv'
<1> DEFINE size == CommandSize(request'.kind, request'.a, request'.b)
<1>1. /\ pc = "idle" /\ request' \in Requests /\ sent' = 0 /\ left' = 0
      /\ IF TooLong(size) THEN length' = 0 /\ UNCHANGED pc
                          ELSE length' = Even(W16(size)) /\ pc' = "write"
  BY DEF WriteBegin
<1>2. /\ size \in Nat /\ size >= PACKET_HEAD_SIZE /\ Needs(request') \in Nat
      /\ IF LengthsKept(request') THEN size = Needs(request')
                                  ELSE size + 65536 <= Needs(request')
  BY <1>1, RequestBounds, SizeIsNeeded
<1> HIDE DEF size
<1>3. CASE TooLong(size)
  <2>1. Needs(request') >= MAXIMUM_PACKET_SIZE
    BY <1>2, <1>3 DEF TooLong, MAXIMUM_PACKET_SIZE
  <2> QED
    BY <1>1, <1>3, <2>1 DEF WriteInv, CountOK, CommandsFit
<1>4. CASE ~TooLong(size)
  <2>1. size \in Nat /\ size < MAXIMUM_PACKET_SIZE
    BY <1>2, <1>4 DEF TooLong, MAXIMUM_PACKET_SIZE
  <2>2. length' = Even(size)
    BY <1>1, <1>4, <2>1, SixteenBits DEF MAXIMUM_PACKET_SIZE
  <2>3. /\ length' \in Nat /\ length' % 2 = 0 /\ length' > 0
        /\ size <= length' /\ length' < MAXIMUM_PACKET_SIZE
    BY <1>2, <2>1, <2>2, RoundedUp DEF PACKET_HEAD_SIZE
  <2>4. Needs(request') <= length' <=> LengthsKept(request')
    BY <1>2, <2>1, <2>3, SMT DEF MAXIMUM_PACKET_SIZE
  <2> QED
    BY <1>1, <1>4, <2>3, <2>4 DEF WriteInv, CommandsFit, MAX_WRITE
<1> QED
  BY <1>3, <1>4

(* A chunk that leaves is whole unless it is the last one. *)
LEMMA AfterWrite ==
  ASSUME WriteInv, WriteChunk \/ WriteFails
  PROVE  WriteInv'
<1>1. /\ pc = "write" /\ left = sent /\ sent < length /\ sent % MAX_WRITE = 0
      /\ length \in Nat /\ sent \in Nat
      /\ UNCHANGED <<request, length>>
  BY DEF WriteChunk, WriteFails, WriteInv
<1>2. CommandsFit'
  BY <1>1 DEF WriteInv, CommandsFit
<1>3. /\ WriteLength \in Nat /\ WriteLength > 0 /\ sent + WriteLength <= length
      /\ WriteLength = MAX_WRITE \/ sent + WriteLength = length
  BY <1>1 DEF WriteLength, Least, MAX_WRITE
<1>4. CASE WriteChunk
  <2>1. sent' = sent + WriteLength /\ left' = left + WriteLength
    BY <1>4 DEF WriteChunk
  <2>2. sent' < length => sent' % MAX_WRITE = 0
    BY <1>1, <1>3, <2>1 DEF MAX_WRITE
  <2>3. pc' = IF sent' < length THEN "write" ELSE "idle"
    BY <1>4 DEF WriteChunk
  <2> QED
    BY <1>1, <1>2, <1>3, <2>1, <2>2, <2>3 DEF WriteInv, CountOK
<1>5. CASE WriteFails
  <2>1. /\ sent' = sent /\ pc' = "idle"
    BY <1>5 DEF WriteFails
  <2>2. PICK part \in Departed : left' = left + part
    BY <1>5 DEF WriteFails
  <2>3. part \in Nat /\ part <= WriteLength
    BY <1>3, <2>2 DEF Departed, USB_PACKET
  <2> QED
    BY <1>1, <1>2, <1>3, <2>1, <2>2, <2>3 DEF WriteInv, CountOK
<1> QED
  BY <1>4, <1>5

(* Reads and the device leave the writing loop alone. *)
LEMMA WriteStep == WriteInv /\ [Next]_vars => WriteInv'
<1> SUFFICES ASSUME WriteInv, [Next]_vars PROVE WriteInv'
  OBVIOUS
<1>1. CASE WriteBegin
  BY <1>1, AfterWriteBegin
<1>2. CASE WriteChunk \/ WriteFails
  BY <1>2, AfterWrite
<1>3. CASE ReadBegin
  BY <1>3 DEF ReadBegin, WriteInv, CountOK, CommandsFit, MAX_WRITE
<1>4. CASE Fill \/ ReadFails
  <2>1. UNCHANGED writeVars /\ pc = "read" /\ pc' \in {"read", "idle"}
    BY <1>4, Zenon DEF Fill, ReadFails, ChunkDone, Return
  <2> QED
    BY <2>1 DEF writeVars, WriteInv, CountOK, CommandsFit
<1>5. CASE DevSend \/ UNCHANGED vars
  <2>1. UNCHANGED writeVars /\ UNCHANGED pc
    BY <1>5 DEF DevSend, vars
  <2> QED
    BY <2>1 DEF writeVars, WriteInv, CountOK, CommandsFit
<1> QED
  BY <1>1, <1>2, <1>3, <1>4, <1>5 DEF Next, Loop

(***************************************************************************)
(* The count that usb_bulk_write returns tells its caller the truth: all   *)
(* of the packet has left, or a number of whole chunks and maybe more.     *)
(***************************************************************************)
THEOREM CountsAreHonest == Spec => []SendCountHonest
<1>1. WriteInv => SendCountHonest
  BY DEF WriteInv, CountOK, SendCountHonest
<1> QED
  BY <1>1, WriteInit, WriteStep, PTL DEF Spec

(***************************************************************************)
(* A command that is refused is one that no packet can hold, and the       *)
(* packet of one that is sent has room for it exactly when no length of a  *)
(* path was cut to 16 bits: for paths of every length that a command line  *)
(* can hold.                                                               *)
(***************************************************************************)
THEOREM CommandsFitTheirPackets == Spec => []CommandsFit
<1>1. WriteInv => CommandsFit
  BY DEF WriteInv
<1> QED
  BY <1>1, WriteInit, WriteStep, PTL DEF Spec

-----------------------------------------------------------------------------
(***************************************************************************)
(* A head that was swapped on its way out is in order again after it was   *)
(* swapped on its way in, and its swapped bytes read raw are the command.  *)
(***************************************************************************)
LEMMA EightBytes ==
  ASSUME NEW n \in Nat, NEW c \in Nat \X Nat, NEW h, h = Head8(n, 0, c)
  PROVE  /\ Len(h) = 8
         /\ h[1] = n \div 256 /\ h[2] = n % 256
         /\ h[5] = c[1] \div 256 /\ h[6] = c[1] % 256
         /\ h[7] = c[2] \div 256 /\ h[8] = c[2] % 256
<1>1. c[1] \in Nat /\ c[2] \in Nat
  OBVIOUS
<1>a. \A v \in Nat : v \div 256 \in Nat /\ v % 256 \in Nat
  OBVIOUS
<1>2. PICK b \in [1..8 -> Nat] : b = [i \in 1..PACKET_HEAD_SIZE |-> 0]
  BY DEF PACKET_HEAD_SIZE
<1>3. PICK h1 : h1 = put_u16(b, 1, n)
  OBVIOUS
<1>4. h1 \in [1..8 -> Nat] /\ h1[1] = n \div 256 /\ h1[2] = n % 256
  BY <1>3, <1>a DEF put_u16
<1>5. PICK h2 : h2 = put_u16(h1, 3, 0)
  OBVIOUS
<1>6. h2 \in [1..8 -> Nat] /\ h2[1] = h1[1] /\ h2[2] = h1[2]
  BY <1>4, <1>5 DEF put_u16
<1>7. PICK h3 : h3 = put_u16(h2, 5, c[1])
  OBVIOUS
<1>8. /\ h3 \in [1..8 -> Nat] /\ h3[1] = h2[1] /\ h3[2] = h2[2]
      /\ h3[5] = c[1] \div 256 /\ h3[6] = c[1] % 256
  BY <1>1, <1>6, <1>7, <1>a DEF put_u16
<1>9. h = put_u16(h3, 7, c[2])
  BY <1>2, <1>3, <1>5, <1>7, 5 + 2 = 7 DEF Head8, put_u32
<1>10. /\ h \in [1..8 -> Nat] /\ h[1] = h3[1] /\ h[2] = h3[2]
       /\ h[5] = h3[5] /\ h[6] = h3[6]
       /\ h[7] = c[2] \div 256 /\ h[8] = c[2] % 256
  BY <1>1, <1>8, <1>9, <1>a DEF put_u16
<1>11. Len(h) = 8
  BY <1>10
<1> QED
  BY <1>4, <1>6, <1>8, <1>10, <1>11

(* Swapping all eight bytes of a head. *)
LEMMA SwapEight ==
  ASSUME NEW h, Len(h) = 8, NEW count \in Nat, count >= 8,
         NEW s, s = byte_swap(h, count)
  PROVE  /\ Len(s) = 8
         /\ s[1] = h[2] /\ s[2] = h[1]
         /\ s[5] = h[6] /\ s[6] = h[5] /\ s[7] = h[8] /\ s[8] = h[7]
<1>1. s = [i \in 1..8 |-> IF i % 2 = 1 THEN h[i + 1] ELSE h[i - 1]]
  <2>1. \A i \in 1..8 : ~(i > 2 * (count \div 2))
    OBVIOUS
  <2> QED
    BY <2>1 DEF byte_swap
<1>2. Len(s) = 8
  BY <1>1
<1>3. s[1] = h[2] /\ s[2] = h[1]
  BY <1>1
<1>4. s[5] = h[6] /\ s[6] = h[5]
  BY <1>1
<1>5. s[7] = h[8] /\ s[8] = h[7]
  BY <1>1
<1> QED
  BY <1>2, <1>3, <1>4, <1>5

(* A number is made of its high and its low byte. *)
LEMMA Halves == \A n \in Nat : (256 * (n \div 256)) + (n % 256) = n
  OBVIOUS

(* The head that the device sends: the command is found on the swapped bytes, *)
(* and command and length on the bytes in order.                              *)
LEMMA HeadRoundTrip ==
  ASSUME NEW n \in Nat, PACKET_HEAD_SIZE <= n, n < MAXIMUM_PACKET_SIZE,
         NEW c \in Nat \X Nat,
         NEW wire, wire = swap_out_packet(Head8(n, 0, c))
  PROVE  /\ get_u32_raw(wire, 5) = c
         /\ get_u32(swap_in_packet(wire), 5) = c
         /\ get_u16(swap_in_packet(wire), 1) = n
<1>0. c[1] \in Nat /\ c[2] \in Nat /\ c = <<c[1], c[2]>>
  OBVIOUS
<1>1. PICK h : h = Head8(n, 0, c)
  OBVIOUS
<1>2. /\ Len(h) = 8
      /\ h[1] = n \div 256 /\ h[2] = n % 256
      /\ h[5] = c[1] \div 256 /\ h[6] = c[1] % 256
      /\ h[7] = c[2] \div 256 /\ h[8] = c[2] % 256
  BY <1>1, EightBytes
<1>3. get_u16(h, 1) = n
  BY <1>2, Halves, 1 + 1 = 2 DEF get_u16
<1>4. Even(n) \in Nat /\ Even(n) >= 8
  BY DEF Even, PACKET_HEAD_SIZE
<1>5. wire = byte_swap(h, Even(n))
  BY <1>1, <1>3, Zenon DEF swap_out_packet
<1>6. /\ Len(wire) = 8
      /\ wire[1] = h[2] /\ wire[2] = h[1]
      /\ wire[5] = h[6] /\ wire[6] = h[5] /\ wire[7] = h[8] /\ wire[8] = h[7]
  BY <1>2, <1>4, <1>5, SwapEight
<1>7. get_u16_raw(wire, 1) = n /\ get_u16_raw(wire, 5) = c[1] /\ get_u16_raw(wire, 7) = c[2]
  BY <1>0, <1>2, <1>6, Halves DEF get_u16_raw
<1>8. PICK count \in Nat : count >= 8 /\ swap_in_packet(wire) = byte_swap(wire, count)
  BY <1>4, <1>7 DEF swap_in_packet, MAXIMUM_PACKET_SIZE
<1>9. PICK r : r = byte_swap(wire, count)
  OBVIOUS
<1>10. /\ r[1] = wire[2] /\ r[2] = wire[1] /\ r[5] = wire[6] /\ r[6] = wire[5]
       /\ r[7] = wire[8] /\ r[8] = wire[7]
  BY <1>6, <1>8, <1>9, SwapEight
<1>11. get_u16(r, 1) = n /\ get_u16(r, 5) = c[1] /\ get_u16(r, 7) = c[2]
  BY <1>0, <1>2, <1>6, <1>10, Halves DEF get_u16
<1>12. get_u32_raw(wire, 5) = c
  BY <1>0, <1>7, 5 + 2 = 7 DEF get_u32_raw
<1>13. get_u32(r, 5) = c
  BY <1>0, <1>11, 5 + 2 = 7 DEF get_u32
<1> QED
  BY <1>8, <1>9, <1>11, <1>12, <1>13

(* Eight bytes of which the first two, in order, are a length of a head or *)
(* more have been swapped to the last: the command is the same as found.   *)
LEMMA RawAgrees ==
  ASSUME NEW h \in [1..8 -> 0..255],
         get_u16(swap_in_packet(h), 1) >= 8
  PROVE  get_u32(swap_in_packet(h), 5) = get_u32_raw(h, 5)
<1>0. Len(h) = 8 /\ h[1] \in Nat /\ h[2] \in Nat
  OBVIOUS
<1>a. 256 * h[2] + h[1] \in Nat
  BY <1>0
<1>b. get_u16_raw(h, 1) = 256 * h[2] + h[1]
  BY 1 + 1 = 2 DEF get_u16_raw
<1>1. PICK n \in Nat : n = get_u16_raw(h, 1)
  BY <1>a, <1>b
<1>2. PICK count \in Nat : /\ swap_in_packet(h) = byte_swap(h, count)
                           /\ Even(n) < 8 => count = Even(n)
                           /\ Even(n) >= 8 => count >= 8
  BY <1>1 DEF swap_in_packet, Even, MAXIMUM_PACKET_SIZE
<1>3. PICK r : r = byte_swap(h, count)
  OBVIOUS
<1>4. CASE Even(n) < 8
  <2>1. n < 8
    BY <1>4 DEF Even
  <2>2. CASE n = 0
    <3>1. h[1] = 0 /\ h[2] = 0
      BY <1>0, <1>1, <1>b, <2>2
    <3>2. count = 0
      BY <1>2, <1>4, <2>2 DEF Even
    <3>3. r[1] = 0 /\ r[2] = 0
      BY <1>0, <1>3, <3>1, <3>2 DEF byte_swap
    <3>4. get_u16(r, 1) = 0
      BY <3>3 DEF get_u16
    <3> QED
      BY <1>2, <1>3, <3>4
  <2>3. CASE n # 0
    <3>1. count >= 2
      BY <1>2, <1>4, <2>3 DEF Even
    <3>2. r[1] = h[2] /\ r[2] = h[1]
      BY <1>0, <1>3, <3>1 DEF byte_swap
    <3>3. get_u16(r, 1) = n
      BY <1>1, <3>2 DEF get_u16, get_u16_raw
    <3> QED
      BY <1>2, <1>3, <2>1, <3>3
  <2> QED
    BY <2>2, <2>3
<1>5. CASE Even(n) >= 8
  <2>1. /\ r[5] = h[6] /\ r[6] = h[5] /\ r[7] = h[8] /\ r[8] = h[7]
    BY <1>0, <1>2, <1>3, <1>5, SwapEight
  <2>2. get_u16(r, 5) = get_u16_raw(h, 5) /\ get_u16(r, 7) = get_u16_raw(h, 7)
    BY <2>1, 5 + 1 = 6, 7 + 1 = 8 DEF get_u16, get_u16_raw
  <2> QED
    BY <1>2, <1>3, <2>2, 5 + 2 = 7 DEF get_u32, get_u32_raw
<1>6. Even(n) \in Nat
  BY <1>1 DEF Even
<1> QED
  BY <1>4, <1>5, <1>6

-----------------------------------------------------------------------------
(***************************************************************************)
(* What the stream and a read of it are made of.                           *)
(***************************************************************************)
Lengths == {p.length : p \in Answers}

HeadsFor(n) == {swap_out_packet(Head8(n, 0, c)) : c \in Words \X Words}

Heads == UNION {HeadsFor(n) : n \in Lengths}

Queued ==
  {q \in [pkt : Nat, off : Nat, length : Lengths, head : Heads] :
     q.off <= q.length /\ q.head \in HeadsFor(q.length)}

Parts ==
  {q \in [pkt : Nat, from : Nat, bytes : Nat, length : Lengths, head : Heads] :
     q.head \in HeadsFor(q.length)}

(* The lengths of packets are numbers with room for a head. *)
LEMMA LengthBounds ==
  ASSUME NEW n \in Lengths
  PROVE  n \in Nat /\ PACKET_HEAD_SIZE <= n /\ n < MAXIMUM_PACKET_SIZE
<1>1. PICK p \in Answers : n = p.length
  BY DEF Lengths
<1>2. p \in [length : PACKET_HEAD_SIZE..(MAXIMUM_PACKET_SIZE - 1), cmd : Words \X Words]
  BY BulkIOAssumption
<1>3. n \in PACKET_HEAD_SIZE..(MAXIMUM_PACKET_SIZE - 1)
  BY <1>1, <1>2
<1> QED
  BY <1>3 DEF PACKET_HEAD_SIZE, MAXIMUM_PACKET_SIZE

(* What is known of a packet in the stream. *)
LEMMA QueuedFields ==
  ASSUME NEW q \in Queued
  PROVE  /\ q.pkt \in Nat /\ q.off \in Nat /\ q.length \in Nat /\ q.length \in Lengths
         /\ q.head \in HeadsFor(q.length) /\ q.head \in Heads
         /\ q.off <= q.length
         /\ PACKET_HEAD_SIZE <= q.length /\ q.length < MAXIMUM_PACKET_SIZE
<1>1. /\ q.pkt \in Nat /\ q.off \in Nat /\ q.length \in Lengths
      /\ q.head \in Heads /\ q.head \in HeadsFor(q.length) /\ q.off <= q.length
  BY DEF Queued
<1> QED
  BY <1>1, LengthBounds

(* What is known of a part of a packet that has been read. *)
LEMMA PartFields ==
  ASSUME NEW q \in Parts
  PROVE  /\ q.pkt \in Nat /\ q.from \in Nat /\ q.bytes \in Nat
         /\ q.length \in Nat /\ q.length \in Lengths
         /\ q.head \in HeadsFor(q.length)
         /\ PACKET_HEAD_SIZE <= q.length /\ q.length < MAXIMUM_PACKET_SIZE
<1>1. /\ q.pkt \in Nat /\ q.from \in Nat /\ q.bytes \in Nat /\ q.length \in Lengths
      /\ q.head \in HeadsFor(q.length)
  BY DEF Parts
<1> QED
  BY <1>1, LengthBounds

(* n more bytes of a packet have been read. *)
LEMMA ReadFurther ==
  ASSUME NEW q \in Queued, NEW n \in Nat, q.off + n <= q.length,
         NEW r, r = [q EXCEPT !.off = @ + n]
  PROVE  /\ r \in Queued
         /\ r.pkt = q.pkt /\ r.off = q.off + n /\ r.length = q.length
<1>1. r.pkt = q.pkt /\ r.off = q.off + n /\ r.length = q.length /\ r.head = q.head
  BY DEF Queued
<1>2. q.off + n \in Nat
  BY DEF Queued
<1>3. r \in [pkt : Nat, off : Nat, length : Lengths, head : Heads]
  BY <1>2 DEF Queued
<1> QED
  BY <1>1, <1>3, QueuedFields DEF Queued

(* A packet just sent, with nothing of it read. *)
LEMMA NewPacket ==
  ASSUME NEW p \in Answers, NEW k \in Nat,
         NEW r, r = [pkt |-> k, off |-> 0, length |-> p.length,
                     head |-> swap_out_packet(Head8(p.length, 0, p.cmd))]
  PROVE  r \in Queued /\ r.pkt = k /\ r.off = 0
<1>1. p.length \in Lengths
  BY DEF Lengths
<1>2. p.cmd \in Words \X Words
  BY BulkIOAssumption
<1>3. swap_out_packet(Head8(p.length, 0, p.cmd)) \in HeadsFor(p.length)
  BY <1>2 DEF HeadsFor
<1>4. swap_out_packet(Head8(p.length, 0, p.cmd)) \in Heads
  BY <1>1, <1>3 DEF Heads
<1>5. r.length \in Nat /\ r.off <= r.length
  BY <1>1, LengthBounds
<1> QED
  BY <1>1, <1>3, <1>4, <1>5 DEF Queued

(* More of the same packet. *)
LEMMA PartMore ==
  ASSUME NEW q \in Parts, NEW n \in Nat, NEW r, r = [q EXCEPT !.bytes = @ + n]
  PROVE  /\ r \in Parts
         /\ r.pkt = q.pkt /\ r.from = q.from /\ r.bytes = q.bytes + n
         /\ r.length = q.length /\ r.head = q.head
<1>1. /\ r.pkt = q.pkt /\ r.from = q.from /\ r.bytes = q.bytes + n
      /\ r.length = q.length /\ r.head = q.head
  BY DEF Parts
<1>2. q.bytes + n \in Nat
  BY DEF Parts
<1>3. r \in [pkt : Nat, from : Nat, bytes : Nat, length : Lengths, head : Heads]
  BY <1>2 DEF Parts
<1> QED
  BY <1>1, <1>3, PartFields DEF Parts

(* The first of a packet. *)
LEMMA PartNew ==
  ASSUME NEW p \in Queued, NEW n \in Nat,
         NEW r, r = [pkt |-> p.pkt, from |-> p.off, bytes |-> n,
                     length |-> p.length, head |-> p.head]
  PROVE  /\ r \in Parts
         /\ r.pkt = p.pkt /\ r.from = p.off /\ r.bytes = n
         /\ r.length = p.length /\ r.head = p.head
  BY QueuedFields DEF Parts

(* The first packet of a stream is replaced. *)
LEMMA HeadReplaced ==
  ASSUME NEW S, NEW s \in Seq(S), s # <<>>, NEW q \in S,
         NEW t, t = <<q>> \o Tail(s)
  PROVE  /\ t \in Seq(S) /\ t # <<>> /\ Len(t) = Len(s)
         /\ t[1] = q /\ (\A i \in 2..Len(s) : t[i] = s[i])
         /\ Tail(t) = Tail(s)
<1>1. Tail(s) \in Seq(S) /\ <<q>> \in Seq(S) /\ Len(<<q>>) = 1 /\ <<q>>[1] = q
  OBVIOUS
<1>2. Len(s) \in Nat /\ Len(s) > 0 /\ Len(Tail(s)) = Len(s) - 1
  BY HeadTailProperties, LenProperties, EmptySeq
<1>3. /\ t \in Seq(S) /\ Len(t) = 1 + Len(Tail(s))
      /\ \A i \in 1..(1 + Len(Tail(s))) : t[i] = IF i <= 1 THEN <<q>>[i] ELSE Tail(s)[i - 1]
  BY <1>1, ConcatProperties
<1>4. \A i \in 1..(Len(s) - 1) : Tail(s)[i] = s[i + 1]
  BY <1>2, HeadTailProperties
<1>5. Len(t) = Len(s) /\ t # <<>>
  BY <1>2, <1>3
<1>6. t[1] = q
  BY <1>1, <1>2, <1>3
<1>7. \A i \in 2..Len(s) : t[i] = s[i]
  <2> TAKE i \in 2..Len(s)
  <2>1. i - 1 \in 1..(Len(s) - 1) /\ (i - 1) + 1 = i /\ i \in 1..(1 + Len(Tail(s))) /\ ~(i <= 1)
    BY <1>2
  <2> QED
    BY <1>3, <1>4, <2>1
<1>8. Tail(t) = Tail(s)
  <2>1. /\ Tail(t) \in Seq(S) /\ Len(Tail(t)) = Len(t) - 1
        /\ \A i \in 1..(Len(t) - 1) : Tail(t)[i] = t[i + 1]
    BY <1>3, <1>5, HeadTailProperties
  <2>2. \A i \in 1..(Len(s) - 1) : Tail(t)[i] = Tail(s)[i]
    <3> TAKE i \in 1..(Len(s) - 1)
    <3>1. i + 1 \in 2..Len(s)
      BY <1>2
    <3> QED
      BY <1>4, <1>5, <1>7, <2>1, <3>1
  <2> QED
    BY <1>1, <1>2, <1>5, <2>1, <2>2, SeqEqual
<1> QED
  BY <1>3, <1>5, <1>6, <1>7, <1>8

-----------------------------------------------------------------------------
(***************************************************************************)
(* What is always true of a read.  The packets of the stream are in the    *)
(* order they were sent in, and only the first has been touched; a read    *)
(* has taken bytes up to where the stream goes on, be that inside the last *)
(* packet it touched or behind it; and an ioctl has not got all it asked   *)
(* for yet.                                                                *)
(***************************************************************************)
Ordered(s) ==
  \A i, j \in 1..Len(s) : i < j => s[i].pkt < s[j].pkt /\ s[j].off = 0

Beyond(s, k) == \A i \in 1..Len(s) : s[i].pkt > k /\ s[i].off = 0

UpTo(s, k) == \A i \in 1..Len(s) : s[i].pkt <= k

ReadTypes ==
  /\ link \in Links /\ packets \in Nat
  /\ retrieved \in Nat /\ urb \in Nat
  /\ stream \in Seq(Queued) /\ taken \in Seq(Parts)

(* The stream is in the order of sending. *)
StreamOK == Ordered(stream) /\ UpTo(stream, packets)

Last == taken[Len(taken)]

(* Only the first part may be the rest of a packet. *)
TakenOK ==
  /\ \A i \in 2..Len(taken) : taken[i].from = 0
  /\ taken # <<>> => Last.pkt <= packets

(* Chunks begin at multiples of 4096, and one part accounts for all bytes. *)
ChunkOK ==
  pc = "read" =>
    /\ retrieved < MAXIMUM_PACKET_SIZE /\ retrieved % MAX_READ = 0
    /\ urb < ReadLength
    /\ taken = <<>> => retrieved = 0 /\ urb = 0
    /\ Len(taken) = 1 => taken[1].bytes = retrieved + urb

(* The read continues in the packet it took last, or that one is at its end. *)
Inside ==
  /\ stream # <<>> /\ taken # <<>>
  /\ stream[1].pkt = Last.pkt /\ stream[1].length = Last.length
  /\ stream[1].off = Last.from + Last.bytes /\ stream[1].off > 0

Behind == Beyond(stream, Last.pkt) /\ Last.from + Last.bytes = Last.length

Follows == pc = "read" /\ taken # <<>> => Inside \/ Behind

(* Of a packet all read there is left at most the empty chunk that marks it. *)
AtEnd ==
  stream # <<>> /\ stream[1].off = stream[1].length =>
    link.zlp /\ stream[1].length % USB_PACKET = 0

ReadInv ==
  ReadTypes /\ StreamOK /\ TakenOK /\ ChunkOK /\ Follows /\ AtEnd

-----------------------------------------------------------------------------
(* The kernel fills the buffer. *)
FillCount == Least(stream[1].length - stream[1].off, ReadLength - urb)

FillOver ==
  /\ stream[1].off + FillCount = stream[1].length
  /\ stream[1].length % USB_PACKET # 0 \/ ~link.zlp \/ FillCount = 0

FillDone ==
  \/ urb + FillCount = ReadLength
  \/ FillOver /\ (stream[1].length % USB_PACKET # 0 \/ FillCount = 0)

(* The step Fill with its alternatives named. *)
LEMMA FillMeans ==
  ASSUME stream \in Seq(Queued), Fill
  PROVE  /\ pc = "read" /\ stream # <<>>
         /\ stream' = IF FillOver THEN Tail(stream)
                      ELSE <<[stream[1] EXCEPT !.off = @ + FillCount]>> \o Tail(stream)
         /\ taken' = AndPart(taken, stream[1], FillCount)
         /\ IF FillDone
            THEN ChunkDone(urb + FillCount, taken')
            ELSE urb' = urb + FillCount /\ UNCHANGED <<pc, retrieved, result, outcome, reply, acked>>
         /\ UNCHANGED <<packets, failed, writeVars>>
<1>1. stream # <<>> /\ pc = "read"
  BY DEF Fill
<1>2. Head(stream) = stream[1]
  BY <1>1
<1> QED
  BY <1>1, <1>2, Zenon DEF Fill, FillDone, FillOver, FillCount

(* A chunk asks for 4096 bytes, or for what is left of the buffer. *)
LEMMA ReadLengthBounds ==
  ASSUME ReadInv, pc = "read"
  PROVE  /\ ReadLength \in Nat /\ ReadLength > 0 /\ urb < ReadLength
         /\ retrieved + ReadLength <= MAXIMUM_PACKET_SIZE
         /\ ReadLength = MAX_READ \/ retrieved + ReadLength = MAXIMUM_PACKET_SIZE
  BY DEF ReadInv, ReadTypes, ChunkOK, ReadLength, Least, MAX_READ, MAXIMUM_PACKET_SIZE

(* The packet in front. *)
LEMMA FirstOfStream ==
  ASSUME stream \in Seq(Queued), stream # <<>>
  PROVE  stream[1] \in Queued /\ Len(stream) \in Nat /\ Len(stream) >= 1
  OBVIOUS

(* The part read last. *)
LEMMA LastOfTaken ==
  ASSUME taken \in Seq(Parts), taken # <<>>
  PROVE  Last \in Parts /\ Len(taken) \in Nat /\ Len(taken) >= 1
  BY DEF Last

(* What the kernel copies ends where the packet or the chunk ends. *)
LEMMA FillCounts ==
  ASSUME ReadInv, pc = "read", stream # <<>>
  PROVE  /\ FillCount \in Nat
         /\ stream[1].off + FillCount <= stream[1].length
         /\ urb + FillCount <= ReadLength
         /\ \/ stream[1].off + FillCount = stream[1].length
            \/ urb + FillCount = ReadLength
         /\ FillCount = 0 => stream[1].off = stream[1].length
<1>1. stream[1].off \in Nat /\ stream[1].length \in Nat /\ stream[1].off <= stream[1].length
  BY FirstOfStream, QueuedFields DEF ReadInv, ReadTypes
<1>2. urb \in Nat /\ ReadLength \in Nat /\ urb < ReadLength
  BY ReadLengthBounds DEF ReadInv, ReadTypes
<1> QED
  BY <1>1, <1>2 DEF FillCount, Least

(* The read goes on, with the bytes of this ioctl added. *)
LEMMA FillGoesOn ==
  ASSUME ReadInv, Fill, pc' = "read"
  PROVE  /\ retrieved' \in Nat /\ urb' \in Nat
         /\ retrieved' + urb' = retrieved + urb + FillCount
         /\ retrieved' < MAXIMUM_PACKET_SIZE /\ retrieved' % MAX_READ = 0
         /\ urb' < ReadLength'
         /\ urb + FillCount = ReadLength => (retrieved + urb + FillCount) % MAX_READ = 0
         /\ ~FillDone \/ (urb + FillCount = ReadLength /\ ReadLength = MAX_READ)
         /\ UNCHANGED <<result, outcome, reply, acked>>
<1>1. /\ pc = "read" /\ stream # <<>>
      /\ IF FillDone
         THEN ChunkDone(urb + FillCount, taken')
         ELSE urb' = urb + FillCount /\ UNCHANGED <<pc, retrieved, result, outcome, reply, acked>>
  BY FillMeans DEF ReadInv, ReadTypes
<1>2. /\ FillCount \in Nat /\ urb + FillCount <= ReadLength
  BY <1>1, FillCounts
<1>3. /\ ReadLength \in Nat /\ ReadLength > 0 /\ urb \in Nat /\ retrieved \in Nat
      /\ retrieved < MAXIMUM_PACKET_SIZE /\ retrieved % MAX_READ = 0
      /\ ReadLength = MAX_READ \/ retrieved + ReadLength = MAXIMUM_PACKET_SIZE
  BY <1>1, ReadLengthBounds DEF ReadInv, ReadTypes, ChunkOK
<1>4. CASE ~FillDone
  <2>1. /\ urb' = urb + FillCount /\ retrieved' = retrieved
        /\ UNCHANGED <<result, outcome, reply, acked>>
    BY <1>1, <1>4
  <2>2. urb + FillCount # ReadLength
    BY <1>4 DEF FillDone
  <2>3. ReadLength' = ReadLength
    BY <2>1 DEF ReadLength
  <2> QED
    BY <1>2, <1>3, <1>4, <2>1, <2>2, <2>3
<1>5. CASE FillDone
  <2>1. retrieved' = retrieved + (urb + FillCount) /\ urb' = 0
    BY <1>1, <1>5 DEF ChunkDone
  <2>2. ~LoopEnds(urb + FillCount)
    BY <1>1, <1>5 DEF ChunkDone, Return
  <2>3. /\ urb + FillCount = ReadLength
        /\ retrieved + (urb + FillCount) < MAXIMUM_PACKET_SIZE
    BY <1>2, <1>3, <2>2 DEF LoopEnds, MAXIMUM_PACKET_SIZE
  <2>4. UNCHANGED <<result, outcome, reply, acked>>
    BY <1>1, <1>5, <2>2 DEF ChunkDone
  <2>5. ReadLength = MAX_READ
    BY <1>3, <2>3
  <2>6. retrieved' % MAX_READ = 0
    BY <1>2, <1>3, <2>1, <2>3, <2>5 DEF MAX_READ
  <2>7. ReadLength' \in Nat /\ ReadLength' > 0
    BY <1>2, <1>3, <2>1, <2>3 DEF ReadLength, Least, MAXIMUM_PACKET_SIZE, MAX_READ
  <2>8. retrieved' = retrieved + urb + FillCount
    BY <1>2, <1>3, <2>1
  <2> QED
    BY <1>2, <1>3, <2>1, <2>3, <2>4, <2>5, <2>6, <2>7, <2>8
<1> QED
  BY <1>4, <1>5

(* Or it returns what it has got. *)
LEMMA FillReturns ==
  ASSUME ReadInv, Fill, pc' # "read"
  PROVE  /\ FillDone /\ LoopEnds(urb + FillCount)
         /\ Return(retrieved + urb + FillCount, taken')
<1>1. /\ pc = "read" /\ stream # <<>>
      /\ IF FillDone
         THEN ChunkDone(urb + FillCount, taken')
         ELSE urb' = urb + FillCount /\ UNCHANGED <<pc, retrieved, result, outcome, reply, acked>>
  BY FillMeans DEF ReadInv, ReadTypes
<1>2. FillDone
  BY <1>1
<1>3. LoopEnds(urb + FillCount) /\ Return(retrieved + (urb + FillCount), taken')
  BY <1>1, <1>2 DEF ChunkDone
<1>4. retrieved + (urb + FillCount) = retrieved + urb + FillCount
  BY <1>1, FillCounts DEF ReadInv, ReadTypes
<1> QED
  BY <1>2, <1>3, <1>4, Zenon

Going == taken # <<>> /\ Last.pkt = stream[1].pkt

(* What is in front is the rest of the part read last, or a new packet. *)
LEMMA GoingIsInside ==
  ASSUME ReadInv, pc = "read", stream # <<>>
  PROVE  /\ Going => Inside
         /\ ~Going => taken = <<>> \/ (Behind /\ stream[1].off = 0)
<1>1. 1 \in 1..Len(stream) /\ stream[1].pkt \in Nat
  BY FirstOfStream, QueuedFields DEF ReadInv, ReadTypes
<1>2. Behind => stream[1].pkt > Last.pkt /\ stream[1].off = 0
  BY <1>1 DEF Behind, Beyond
<1>3. taken # <<>> => Last.pkt \in Nat
  BY LastOfTaken, PartFields DEF ReadInv, ReadTypes
<1>4. taken # <<>> => Inside \/ Behind
  BY DEF ReadInv, Follows
<1> QED
  BY <1>1, <1>2, <1>3, <1>4 DEF Going, Inside

(* The part read last grows, up to where the packet in front now stands. *)
LEMMA MoreOfLast ==
  ASSUME ReadInv, Fill, Going
  PROVE  /\ taken' \in Seq(Parts) /\ taken' # <<>> /\ Len(taken') = Len(taken)
         /\ \A i \in 1..Len(taken) : taken'[i].pkt = taken[i].pkt /\ taken'[i].from = taken[i].from
         /\ Last'.pkt = stream[1].pkt /\ Last'.length = stream[1].length
         /\ Last'.from + Last'.bytes = stream[1].off + FillCount
         /\ Len(taken') = 1 => taken'[1].bytes = retrieved + urb + FillCount
<1>1. pc = "read" /\ stream # <<>> /\ taken' = AndPart(taken, stream[1], FillCount)
  BY FillMeans DEF ReadInv, ReadTypes
<1>2. Inside /\ FillCount \in Nat
  BY <1>1, GoingIsInside, FillCounts
<1>3. PICK m \in Nat : m = Len(taken) /\ m >= 1
  BY LastOfTaken DEF Going, ReadInv, ReadTypes
<1>4. PICK l \in Parts : l = Last /\ l = taken[m]
  BY <1>3, LastOfTaken DEF Going, ReadInv, ReadTypes, Last
<1>5. PICK r : r = [l EXCEPT !.bytes = @ + FillCount]
  OBVIOUS
<1>6. /\ r \in Parts
      /\ r.pkt = l.pkt /\ r.from = l.from /\ r.bytes = l.bytes + FillCount
      /\ r.length = l.length
  BY <1>2, <1>5, PartMore
<1>7. taken' = [taken EXCEPT ![m].bytes = @ + FillCount]
  BY <1>1, <1>3 DEF AndPart, Going, Last
<1>8. taken' = [taken EXCEPT ![m] = r]
  BY <1>4, <1>5, <1>7
<1>9. taken \in Seq(Parts) /\ m \in 1..Len(taken)
  BY <1>3 DEF ReadInv, ReadTypes
<1>10. /\ taken' \in Seq(Parts) /\ Len(taken') = m /\ taken'[m] = r
       /\ \A i \in 1..m : i # m => taken'[i] = taken[i]
  BY <1>3, <1>6, <1>8, <1>9
<1>11. Last' = r
  BY <1>10 DEF Last
<1>12. \A i \in 1..Len(taken) : taken'[i].pkt = taken[i].pkt /\ taken'[i].from = taken[i].from
  <2> TAKE i \in 1..Len(taken)
  <2>1. CASE i = m
    BY <1>4, <1>6, <1>10, <2>1
  <2>2. CASE i # m
    BY <1>3, <1>10, <2>2
  <2> QED
    BY <2>1, <2>2
<1>13. Last'.from + Last'.bytes = stream[1].off + FillCount
  <2>1. l.from \in Nat /\ l.bytes \in Nat /\ stream[1].off = l.from + l.bytes
    BY <1>2, <1>4, PartFields DEF Inside
  <2> QED
    BY <1>2, <1>6, <1>11, <2>1
<1>14. m = 1 => taken'[1].bytes = retrieved + urb + FillCount
  <2>1. m = 1 => l.bytes = retrieved + urb
    BY <1>1, <1>3, <1>4 DEF ReadInv, ChunkOK
  <2> QED
    BY <1>6, <1>10, <2>1
<1>15. taken' # <<>>
  BY <1>3, <1>10
<1> QED
  BY <1>2, <1>3, <1>4, <1>6, <1>10, <1>11, <1>12, <1>13, <1>14, <1>15 DEF Inside

(* A part is added: the packet in front from where it stood. *)
LEMMA NewLast ==
  ASSUME ReadInv, Fill, ~Going
  PROVE  /\ taken' \in Seq(Parts) /\ taken' # <<>> /\ Len(taken') = Len(taken) + 1
         /\ \A i \in 1..Len(taken) : taken'[i] = taken[i]
         /\ Last' = taken'[Len(taken) + 1]
         /\ Last'.pkt = stream[1].pkt /\ Last'.length = stream[1].length
         /\ Last'.from = stream[1].off /\ Last'.bytes = FillCount
         /\ taken # <<>> => stream[1].off = 0
         /\ Len(taken') = 1 => taken'[1].bytes = retrieved + urb + FillCount
<1>1. pc = "read" /\ stream # <<>> /\ taken' = AndPart(taken, stream[1], FillCount)
  BY FillMeans DEF ReadInv, ReadTypes
<1>2. FillCount \in Nat /\ stream[1] \in Queued
  BY <1>1, FillCounts, FirstOfStream DEF ReadInv, ReadTypes
<1>3. PICK r : r = [pkt |-> stream[1].pkt, from |-> stream[1].off, bytes |-> FillCount,
                    length |-> stream[1].length, head |-> stream[1].head]
  OBVIOUS
<1>4. /\ r \in Parts
      /\ r.pkt = stream[1].pkt /\ r.from = stream[1].off /\ r.bytes = FillCount
      /\ r.length = stream[1].length
  BY <1>2, <1>3, PartNew
<1>5. taken' = Append(taken, r)
  BY <1>1, <1>3 DEF AndPart, Going, Last
<1>6. taken \in Seq(Parts)
  BY DEF ReadInv, ReadTypes
<1>7. /\ taken' \in Seq(Parts) /\ Len(taken') = Len(taken) + 1
      /\ \A i \in 1..Len(taken) : taken'[i] = taken[i]
      /\ taken'[Len(taken) + 1] = r
  BY <1>4, <1>5, <1>6, AppendProperties
<1>8. Last' = taken'[Len(taken) + 1] /\ Last' = r
  BY <1>7 DEF Last
<1>9. taken # <<>> => stream[1].off = 0
  BY <1>1, GoingIsInside
<1>10. Len(taken') = 1 => taken'[1].bytes = retrieved + urb + FillCount
  <2> HAVE Len(taken') = 1
  <2>1. Len(taken) \in Nat
    BY <1>6, LenProperties
  <2>2. Len(taken) = 0
    BY <1>7, <2>1
  <2>3. taken = <<>>
    BY <1>6, <2>2, EmptySeq
  <2>4. retrieved = 0 /\ urb = 0
    BY <1>1, <2>3 DEF ReadInv, ChunkOK
  <2> QED
    BY <1>2, <1>4, <1>7, <2>2, <2>4
<1>11. taken' # <<>>
  BY <1>6, <1>7
<1> QED
  BY <1>4, <1>7, <1>8, <1>9, <1>10, <1>11

(* What a read has taken after the kernel filled the buffer. *)
LEMMA TakenAfterFill ==
  ASSUME ReadInv, Fill
  PROVE  /\ taken' \in Seq(Parts) /\ taken' # <<>>
         /\ \A i \in 2..Len(taken') : taken'[i].from = 0
         /\ Last'.pkt = stream[1].pkt /\ Last'.length = stream[1].length
         /\ Last'.from + Last'.bytes = stream[1].off + FillCount
         /\ Len(taken') = 1 => taken'[1].bytes = retrieved + urb + FillCount
<1>0. /\ pc = "read" /\ stream # <<>> /\ Len(taken) \in Nat
      /\ \A i \in 2..Len(taken) : taken[i].from = 0
  BY FillMeans, LenProperties DEF ReadInv, ReadTypes, TakenOK
<1>1. CASE Going
  <2>1. \A i \in 2..Len(taken') : taken'[i].from = 0
    BY <1>0, <1>1, MoreOfLast
  <2> QED
    BY <1>1, <2>1, MoreOfLast
<1>2. CASE ~Going
  <2>1. \A i \in 2..Len(taken') : taken'[i].from = 0
    <3> TAKE i \in 2..Len(taken')
    <3>0. Len(taken') = Len(taken) + 1
      BY <1>2, NewLast
    <3>1. CASE i <= Len(taken)
      <4>1. i \in 1..Len(taken) /\ i \in 2..Len(taken)
        BY <1>0, <3>0, <3>1
      <4> QED
        BY <1>0, <1>2, <4>1, NewLast
    <3>2. CASE i = Len(taken) + 1
      <4>1. taken # <<>>
        BY <3>2, EmptySeq
      <4> QED
        BY <1>2, <3>2, <4>1, NewLast
    <3> QED
      BY <1>0, <3>0, <3>1, <3>2
  <2> QED
    BY <1>2, <2>1, NewLast
<1> QED
  BY <1>1, <1>2

(* Without its first packet the stream is in order behind that one. *)
LEMMA TailInOrder ==
  ASSUME NEW s \in Seq(Queued), s # <<>>, Ordered(s), NEW k, UpTo(s, k)
  PROVE  /\ Tail(s) \in Seq(Queued) /\ Ordered(Tail(s)) /\ UpTo(Tail(s), k)
         /\ Beyond(Tail(s), s[1].pkt)
<1>1. /\ Tail(s) \in Seq(Queued) /\ Len(Tail(s)) = Len(s) - 1 /\ Len(s) \in Nat
      /\ \A i \in 1..Len(Tail(s)) : Tail(s)[i] = s[i + 1]
  BY HeadTailProperties, LenProperties
<1>2. \A i \in 1..Len(Tail(s)) : i + 1 \in 1..Len(s) /\ 1 < i + 1 /\ 1 \in 1..Len(s)
  BY <1>1
<1>3. Ordered(Tail(s))
  <2> SUFFICES ASSUME NEW i \in 1..Len(Tail(s)), NEW j \in 1..Len(Tail(s)), i < j
               PROVE  Tail(s)[i].pkt < Tail(s)[j].pkt /\ Tail(s)[j].off = 0
    BY DEF Ordered
  <2>1. i + 1 < j + 1
    OBVIOUS
  <2>2. s[i + 1].pkt < s[j + 1].pkt /\ s[j + 1].off = 0
    BY <1>2, <2>1 DEF Ordered
  <2> QED
    BY <1>1, <2>2
<1>4. UpTo(Tail(s), k)
  BY <1>1, <1>2 DEF UpTo
<1>5. Beyond(Tail(s), s[1].pkt)
  <2> SUFFICES ASSUME NEW i \in 1..Len(Tail(s))
               PROVE  Tail(s)[i].pkt > s[1].pkt /\ Tail(s)[i].off = 0
    BY DEF Beyond
  <2>1. s[1].pkt < s[i + 1].pkt /\ s[i + 1].off = 0
    BY <1>2 DEF Ordered
  <2>2. s[1] \in Queued /\ s[i + 1] \in Queued
    BY <1>2
  <2>3. s[1].pkt \in Nat /\ s[i + 1].pkt \in Nat
    BY <2>2, QueuedFields
  <2> QED
    BY <1>1, <2>1, <2>3
<1> QED
  BY <1>1, <1>3, <1>4, <1>5

(* What is left of the stream then. *)
LEMMA StreamAfterFill ==
  ASSUME ReadInv, Fill
  PROVE  /\ stream' \in Seq(Queued) /\ Ordered(stream') /\ UpTo(stream', packets)
         /\ FillOver => /\ stream' = Tail(stream)
                        /\ Beyond(stream', stream[1].pkt)
                        /\ stream[1].off + FillCount = stream[1].length
         /\ ~FillOver => /\ stream' # <<>> /\ Len(stream') = Len(stream)
                         /\ stream'[1].pkt = stream[1].pkt
                         /\ stream'[1].off = stream[1].off + FillCount
                         /\ stream'[1].off > 0
                         /\ stream'[1].length = stream[1].length
                         /\ Tail(stream') = Tail(stream)
<1>1. /\ pc = "read" /\ stream # <<>>
      /\ stream' = IF FillOver THEN Tail(stream)
                   ELSE <<[stream[1] EXCEPT !.off = @ + FillCount]>> \o Tail(stream)
  BY FillMeans DEF ReadInv, ReadTypes
<1>2. /\ stream \in Seq(Queued) /\ Ordered(stream) /\ UpTo(stream, packets)
      /\ stream[1] \in Queued /\ Len(stream) \in Nat /\ Len(stream) >= 1
  BY <1>1, FirstOfStream DEF ReadInv, ReadTypes, StreamOK
<1>3. FillCount \in Nat /\ stream[1].off + FillCount <= stream[1].length
      /\ (FillCount = 0 => stream[1].off = stream[1].length)
  BY <1>1, FillCounts
<1>4. CASE FillOver
  BY <1>1, <1>2, <1>4, TailInOrder DEF FillOver
<1>5. CASE ~FillOver
  <2>1. PICK q : q = [stream[1] EXCEPT !.off = @ + FillCount]
    OBVIOUS
  <2>2. /\ q \in Queued
        /\ q.pkt = stream[1].pkt /\ q.off = stream[1].off + FillCount
        /\ q.length = stream[1].length
    BY <1>2, <1>3, <2>1, ReadFurther
  <2>3. stream' = <<q>> \o Tail(stream)
    BY <1>1, <1>5, <2>1
  <2>4. /\ stream' \in Seq(Queued) /\ stream' # <<>> /\ Len(stream') = Len(stream)
        /\ stream'[1] = q /\ (\A i \in 2..Len(stream) : stream'[i] = stream[i])
        /\ Tail(stream') = Tail(stream)
    BY <1>1, <1>2, <2>2, <2>3, HeadReplaced
  <2>5. \A i \in 1..Len(stream) : stream'[i].pkt = stream[i].pkt
    <3> TAKE i \in 1..Len(stream)
    <3>1. i = 1 \/ i \in 2..Len(stream)
      BY <1>2
    <3> QED
      BY <2>2, <2>4, <3>1
  <2>6. UpTo(stream', packets)
    BY <1>2, <2>4, <2>5 DEF UpTo
  <2>7. Ordered(stream')
    <3> SUFFICES ASSUME NEW i \in 1..Len(stream), NEW j \in 1..Len(stream), i < j
                 PROVE  stream'[i].pkt < stream'[j].pkt /\ stream'[j].off = 0
      BY <2>4 DEF Ordered
    <3>1. stream[i].pkt < stream[j].pkt /\ stream[j].off = 0
      BY <1>2 DEF Ordered
    <3>2. j \in 2..Len(stream)
      BY <1>2
    <3> QED
      BY <2>4, <2>5, <3>1, <3>2
  <2>8. stream[1].off \in Nat /\ stream[1].length >= 8
    BY <1>2, QueuedFields DEF PACKET_HEAD_SIZE
  <2>9. stream'[1].off > 0
    BY <1>3, <2>2, <2>4, <2>8
  <2> QED
    BY <1>5, <2>2, <2>4, <2>6, <2>7, <2>9
<1> QED
  BY <1>4, <1>5

-----------------------------------------------------------------------------
(* ReadInv is inductive. *)
LEMMA ReadInit == Init => ReadInv
<1> SUFFICES ASSUME Init PROVE ReadInv
  OBVIOUS
<1>1. /\ link \in Links /\ pc = "idle" /\ stream = <<>> /\ packets = 0
      /\ retrieved = 0 /\ urb = 0 /\ taken = <<>>
  BY DEF Init
<1>2. ReadTypes /\ StreamOK /\ TakenOK
  BY <1>1 DEF ReadTypes, StreamOK, Ordered, UpTo, TakenOK
<1> QED
  BY <1>1, <1>2 DEF ReadInv, ChunkOK, Follows, AtEnd

(* No packet is empty. *)
LEMMA FirstAtEnd ==
  ASSUME NEW s \in Seq(Queued), s # <<>>, s[1].off = 0
  PROVE  s[1].off # s[1].length
<1>1. s[1] \in Queued
  OBVIOUS
<1>2. s[1].length >= 8
  BY <1>1, QueuedFields DEF PACKET_HEAD_SIZE
<1> QED
  BY <1>2

(* The kernel fills the buffer, and the loop goes on or ends. *)
LEMMA ReadInvFill ==
  ASSUME ReadInv, Fill, link' = link
  PROVE  ReadInv'
<1>1. /\ pc = "read" /\ stream # <<>> /\ packets' = packets
      /\ IF FillDone
         THEN ChunkDone(urb + FillCount, taken')
         ELSE urb' = urb + FillCount /\ UNCHANGED <<pc, retrieved, result, outcome, reply, acked>>
  BY FillMeans DEF ReadInv, ReadTypes
<1>2. FillCount \in Nat /\ retrieved \in Nat /\ urb \in Nat
  BY <1>1, FillCounts DEF ReadInv, ReadTypes
<1>3. ReadTypes'
  <2>1. retrieved' \in Nat /\ urb' \in Nat
    BY <1>1, <1>2 DEF ChunkDone
  <2> QED
    BY <1>1, <2>1, TakenAfterFill, StreamAfterFill DEF ReadInv, ReadTypes
<1>4. StreamOK'
  BY <1>1, StreamAfterFill DEF StreamOK
<1>5. TakenOK'
  <2>1. stream[1].pkt <= packets
    BY <1>1, FirstOfStream DEF ReadInv, ReadTypes, StreamOK, UpTo
  <2> QED
    BY <1>1, <2>1, TakenAfterFill DEF TakenOK
<1>6. ChunkOK'
  <2> SUFFICES ASSUME pc' = "read" PROVE ChunkOK'
    BY DEF ChunkOK
  <2>1. retrieved' + urb' = retrieved + urb + FillCount
    BY FillGoesOn
  <2> QED
    BY <2>1, FillGoesOn, TakenAfterFill DEF ChunkOK
<1>7. Follows'
  <2> SUFFICES ASSUME pc' = "read" PROVE Inside' \/ Behind'
    BY DEF Follows
  <2>1. CASE FillOver
    <3>1. Behind'
      BY <2>1, TakenAfterFill, StreamAfterFill DEF Behind
    <3> QED
      BY <3>1
  <2>2. CASE ~FillOver
    <3>1. Inside'
      BY <2>2, TakenAfterFill, StreamAfterFill DEF Inside
    <3> QED
      BY <3>1
  <2> QED
    BY <2>1, <2>2
<1>8. AtEnd'
  <2>1. CASE FillOver
    <3>1. stream' # <<>> => stream'[1].off = 0
      <4>1. stream' \in Seq(Queued) /\ Beyond(stream', stream[1].pkt)
        BY <2>1, StreamAfterFill
      <4>2. stream' # <<>> => 1 \in 1..Len(stream')
        BY <4>1
      <4> QED
        BY <4>1, <4>2 DEF Beyond
    <3> QED
      BY <3>1, FirstAtEnd, StreamAfterFill DEF AtEnd
  <2>2. CASE ~FillOver
    <3>1. stream'[1].off = stream[1].off + FillCount /\ stream'[1].length = stream[1].length
      BY <2>2, StreamAfterFill
    <3> QED
      BY <2>2, <3>1 DEF AtEnd, FillOver
  <2> QED
    BY <2>1, <2>2
<1> QED
  BY <1>3, <1>4, <1>5, <1>6, <1>7, <1>8 DEF ReadInv

(* A new packet is the last of the stream. *)
LEMMA SendMeans ==
  ASSUME ReadInv, DevSend
  PROVE  \E r \in Queued :
           /\ r.pkt = packets + 1 /\ r.off = 0
           /\ stream' = Append(stream, r) /\ packets' = packets + 1
           /\ link.eager \/ (stream = <<>> /\ (pc = "read" => taken = <<>>))
           /\ UNCHANGED <<pc, readVars, writeVars>>
           /\ r.length \in Lengths
<1>1. PICK p \in Answers :
        stream' = Append(stream, [pkt |-> packets', off |-> 0, length |-> p.length,
                                  head |-> swap_out_packet(Head8(p.length, 0, p.cmd))])
  BY DEF DevSend
<1>2. PICK r : r = [pkt |-> packets', off |-> 0, length |-> p.length,
                    head |-> swap_out_packet(Head8(p.length, 0, p.cmd))]
  OBVIOUS
<1>3. packets' = packets + 1 /\ packets' \in Nat
  BY DEF DevSend, ReadInv, ReadTypes
<1>4. r \in Queued /\ r.pkt = packets' /\ r.off = 0
  BY <1>2, <1>3, NewPacket
<1>5. r.length \in Lengths
  BY <1>4, QueuedFields
<1> QED
  BY <1>1, <1>2, <1>3, <1>4, <1>5 DEF DevSend

(* The device sends a packet behind all others. *)
LEMMA ReadInvSend ==
  ASSUME ReadInv, DevSend, link' = link
  PROVE  ReadInv'
<1>1. PICK r \in Queued :
           /\ r.pkt = packets + 1 /\ r.off = 0
           /\ stream' = Append(stream, r) /\ packets' = packets + 1
           /\ UNCHANGED <<pc, readVars, writeVars>>
  BY SendMeans
<1>2. UNCHANGED <<pc, retrieved, urb, taken>>
  BY <1>1 DEF readVars
<1>3. /\ stream \in Seq(Queued) /\ Len(stream) \in Nat /\ packets \in Nat
      /\ Ordered(stream) /\ UpTo(stream, packets)
  BY LenProperties DEF ReadInv, ReadTypes, StreamOK
<1>4. /\ stream' \in Seq(Queued) /\ Len(stream') = Len(stream) + 1
      /\ \A i \in 1..Len(stream) : stream'[i] = stream[i]
      /\ stream'[Len(stream) + 1] = r
  BY <1>1, <1>3, AppendProperties
<1>5. \A i \in 1..Len(stream) : stream[i].pkt \in Nat /\ stream[i].pkt <= packets
  <2> TAKE i \in 1..Len(stream)
  <2>1. stream[i] \in Queued
    BY <1>3
  <2> QED
    BY <1>3, <2>1, QueuedFields DEF UpTo
<1>6. \A i \in 1..Len(stream') : i \in 1..Len(stream) \/ i = Len(stream) + 1
  BY <1>3, <1>4
<1>7. StreamOK'
  <2>1. UpTo(stream', packets')
    <3> SUFFICES ASSUME NEW i \in 1..Len(stream') PROVE stream'[i].pkt <= packets + 1
      BY <1>1 DEF UpTo
    <3>1. CASE i \in 1..Len(stream)
      BY <1>3, <1>4, <1>5, <3>1
    <3>2. CASE i = Len(stream) + 1
      BY <1>1, <1>3, <1>4, <3>2
    <3> QED
      BY <1>6, <3>1, <3>2
  <2>2. Ordered(stream')
    <3> SUFFICES ASSUME NEW i \in 1..Len(stream'), NEW j \in 1..Len(stream'), i < j
                 PROVE  stream'[i].pkt < stream'[j].pkt /\ stream'[j].off = 0
      BY DEF Ordered
    <3>1. i \in 1..Len(stream)
      BY <1>3, <1>4
    <3>2. CASE j \in 1..Len(stream)
      <4>1. stream[i].pkt < stream[j].pkt /\ stream[j].off = 0
        BY <1>3, <3>1, <3>2 DEF Ordered
      <4> QED
        BY <1>4, <3>1, <3>2, <4>1
    <3>3. CASE j = Len(stream) + 1
      <4>1. stream'[i].pkt \in Nat /\ stream'[i].pkt <= packets
        BY <1>4, <1>5, <3>1
      <4> QED
        BY <1>1, <1>3, <1>4, <3>3, <4>1
    <3> QED
      BY <1>6, <3>2, <3>3
  <2> QED
    BY <2>1, <2>2 DEF StreamOK
<1>8. ReadTypes'
  BY <1>1, <1>2, <1>3, <1>4 DEF ReadInv, ReadTypes
<1>9. TakenOK'
  <2>1. taken # <<>> => Last.pkt \in Nat
    BY LastOfTaken, PartFields DEF ReadInv, ReadTypes
  <2> QED
    BY <1>1, <1>2, <1>3, <2>1 DEF ReadInv, TakenOK, Last
<1>10. ChunkOK'
  BY <1>2 DEF ReadInv, ChunkOK, ReadLength
<1>11. Follows'
  <2> SUFFICES ASSUME pc = "read", taken # <<>> PROVE Inside' \/ Behind'
    BY <1>2 DEF Follows
  <2>0. Last' = Last /\ Last.pkt \in Nat /\ Last.pkt <= packets
    BY <1>2, LastOfTaken, PartFields DEF ReadInv, ReadTypes, TakenOK, Last
  <2>1. CASE Inside
    <3>1. stream'[1] = stream[1] /\ stream' # <<>>
      BY <1>3, <1>4, <2>1 DEF Inside
    <3>2. Inside'
      BY <1>2, <2>0, <2>1, <3>1 DEF Inside
    <3> QED
      BY <3>2
  <2>2. CASE Behind
    <3>1. Beyond(stream', Last.pkt)
      <4> SUFFICES ASSUME NEW i \in 1..Len(stream')
                   PROVE  stream'[i].pkt > Last.pkt /\ stream'[i].off = 0
        BY DEF Beyond
      <4>1. CASE i \in 1..Len(stream)
        BY <1>4, <2>2, <4>1 DEF Behind, Beyond
      <4>2. CASE i = Len(stream) + 1
        BY <1>1, <1>3, <1>4, <2>0, <4>2
      <4> QED
        BY <1>6, <4>1, <4>2
    <3>2. Behind'
      BY <2>0, <2>2, <3>1 DEF Behind
    <3> QED
      BY <3>2
  <2> QED
    BY <2>1, <2>2 DEF ReadInv, Follows
<1>12. AtEnd'
  <2>1. CASE stream = <<>>
    <3>1. stream'[1] = r
      BY <1>4, <2>1
    <3> QED
      BY <1>1, <1>4, <3>1, FirstAtEnd DEF AtEnd
  <2>2. CASE stream # <<>>
    <3>1. stream'[1] = stream[1]
      BY <1>3, <1>4, <2>2
    <3> QED
      BY <2>2, <3>1 DEF ReadInv, AtEnd
  <2> QED
    BY <2>1, <2>2
<1> QED
  BY <1>7, <1>8, <1>9, <1>10, <1>11, <1>12 DEF ReadInv

(* The invariant of the reading loop. *)
LEMMA ReadStep == ReadInv /\ [Next]_vars => ReadInv'
<1> SUFFICES ASSUME ReadInv, [Next]_vars PROVE ReadInv'
  OBVIOUS
<1>0. link' = link
  BY DEF Next, Loop, vars
<1>1. CASE Fill
  BY <1>0, <1>1, ReadInvFill
<1>2. CASE DevSend
  BY <1>0, <1>2, ReadInvSend
<1>3. CASE ReadBegin \/ WriteBegin
  <2>1. /\ retrieved' = 0 /\ urb' = 0 /\ taken' = <<>> /\ UNCHANGED <<stream, packets>>
    BY <1>3 DEF ReadBegin, WriteBegin, devVars
  <2>2. ReadTypes' /\ StreamOK' /\ TakenOK' /\ Follows' /\ AtEnd'
    BY <1>0, <2>1 DEF ReadInv, ReadTypes, StreamOK, TakenOK, Follows, AtEnd
  <2>3. ChunkOK'
    BY <2>1 DEF ChunkOK, ReadLength, Least, MAXIMUM_PACKET_SIZE, MAX_READ
  <2> QED
    BY <2>2, <2>3 DEF ReadInv
<1>4. CASE WriteChunk \/ WriteFails \/ ReadFails
  <2>1. UNCHANGED <<stream, packets, retrieved, urb, taken>> /\ pc' # "read"
    BY <1>4, Zenon DEF WriteChunk, WriteFails, ReadFails, Return, devVars, readVars
  <2>2. ReadTypes' /\ StreamOK' /\ TakenOK' /\ Follows' /\ AtEnd' /\ ChunkOK'
    BY <1>0, <2>1 DEF ReadInv, ReadTypes, StreamOK, TakenOK, Follows, AtEnd, ChunkOK, Last
  <2> QED
    BY <2>2 DEF ReadInv
<1>5. CASE UNCHANGED vars
  <2>1. UNCHANGED <<pc, stream, packets, retrieved, urb, taken>>
    BY <1>5 DEF vars, devVars, readVars
  <2>2. ReadTypes' /\ StreamOK' /\ TakenOK' /\ AtEnd'
    BY <1>0, <2>1 DEF ReadInv, ReadTypes, StreamOK, TakenOK, AtEnd, Last
  <2>3. Follows' /\ ChunkOK'
    BY <2>1 DEF ReadInv, Follows, Inside, Behind, Last, ChunkOK, ReadLength
  <2> QED
    BY <2>2, <2>3 DEF ReadInv
<1> QED
  BY <1>1, <1>2, <1>3, <1>4, <1>5 DEF Next, Loop

-----------------------------------------------------------------------------
(***************************************************************************)
(* The early answer.  Every head in the stream was made for the length it  *)
(* goes with, and no read has a count without a part.                      *)
(***************************************************************************)
AckAgrees ==
  reply # <<>> =>
    /\ acked <=> get_u32(reply, 5) = DATA_HDD_FILE_DATA
    /\ taken[1].from = 0 => get_u16(reply, 1) = taken[1].length

AckInv == pc # "read" => AckAgrees

(* The halves of a command are numbers. *)
LEMMA WordsAreNumbers == Words \subseteq Nat
  BY SMT DEF Words

(* A read that returns has judged the head it returns. *)
LEMMA ReturnAgrees ==
  ASSUME taken' \in Seq(Parts), NEW count \in Nat, count > 0 => taken' # <<>>,
         Return(count, taken')
  PROVE  AckAgrees'
<1> SUFFICES ASSUME reply' # <<>>
             PROVE  /\ acked' <=> get_u32(reply', 5) = DATA_HDD_FILE_DATA
                    /\ taken'[1].from = 0 => get_u16(reply', 1) = taken'[1].length
  BY DEF AckAgrees
<1>1. count >= PACKET_HEAD_SIZE /\ \E h \in HeadsOf(taken'[1]) : Judge(count, h)
  <2>1. ~(count < PACKET_HEAD_SIZE) /\ \E h \in HeadsOf(taken'[1]) : Judge(count, h)
    BY Zenon DEF Return, TooShort
  <2> QED
    BY <2>1 DEF PACKET_HEAD_SIZE
<1>2. PICK h \in HeadsOf(taken'[1]) :
        /\ acked' = (get_u32_raw(h, 5) = DATA_HDD_FILE_DATA)
        /\ reply' = swap_in_packet(h)
        /\ get_u16(swap_in_packet(h), 1) >= PACKET_HEAD_SIZE
  BY <1>1, Zenon DEF Judge
<1>3. taken'[1] \in Parts
  BY <1>1 DEF PACKET_HEAD_SIZE
<1>a. CASE taken'[1].from # 0
  <2>1. h \in [1..PACKET_HEAD_SIZE -> 0..255]
    BY <1>a, BulkIOAssumption DEF HeadsOf
  <2>2. get_u32(reply', 5) = get_u32_raw(h, 5)
    BY <1>2, <2>1, RawAgrees DEF PACKET_HEAD_SIZE
  <2> QED
    BY <1>2, <1>a, <2>2
<1>b. CASE taken'[1].from = 0
  <2>1. h = taken'[1].head
    BY <1>b DEF HeadsOf
  <2>2. PICK c \in Words \X Words : h = swap_out_packet(Head8(taken'[1].length, 0, c))
    BY <1>3, <2>1, PartFields DEF HeadsFor
  <2>3. /\ taken'[1].length \in Nat
        /\ PACKET_HEAD_SIZE <= taken'[1].length /\ taken'[1].length < MAXIMUM_PACKET_SIZE
    BY <1>3, PartFields
  <2>4. c \in Nat \X Nat
    BY <2>2, WordsAreNumbers
  <2>5. /\ get_u32_raw(h, 5) = c
        /\ get_u32(swap_in_packet(h), 5) = c
        /\ get_u16(swap_in_packet(h), 1) = taken'[1].length
    BY <2>2, <2>3, <2>4, HeadRoundTrip
  <2> QED
    BY <1>2, <2>5
<1> QED
  BY <1>a, <1>b

(* The judgement stands until the next read returns. *)
LEMMA AckStep == ReadInv /\ AckInv /\ [Next]_vars => AckInv'
<1> SUFFICES ASSUME ReadInv, AckInv, [Next]_vars, pc' # "read" PROVE AckAgrees'
  BY DEF AckInv
<1>1. CASE Fill
  <2>1. Return(retrieved + urb + FillCount, taken')
    BY <1>1, FillReturns
  <2>2. retrieved + urb + FillCount \in Nat
    BY <1>1, FillMeans, FillCounts DEF ReadInv, ReadTypes
  <2>3. taken' \in Seq(Parts) /\ taken' # <<>>
    BY <1>1, TakenAfterFill
  <2> QED
    BY <2>1, <2>2, <2>3, ReturnAgrees
<1>2. CASE ReadFails
  <2>1. pc = "read" /\ Return(retrieved, taken) /\ taken' = taken
    BY <1>2 DEF ReadFails
  <2>2. Return(retrieved, taken')
    BY <2>1
  <2>3. retrieved \in Nat /\ taken' \in Seq(Parts) /\ (retrieved > 0 => taken' # <<>>)
    BY <2>1 DEF ReadInv, ReadTypes, ChunkOK
  <2> QED
    BY <2>2, <2>3, ReturnAgrees
<1>3. CASE ReadBegin \/ WriteBegin
  BY <1>3 DEF ReadBegin, WriteBegin, AckAgrees
<1>4. CASE WriteChunk \/ WriteFails \/ DevSend \/ UNCHANGED vars
  <2>1. pc # "read" /\ UNCHANGED <<taken, reply, acked>>
    BY <1>4 DEF WriteChunk, WriteFails, DevSend, vars, readVars
  <2> QED
    BY <2>1 DEF AckInv, AckAgrees
<1> QED
  BY <1>1, <1>2, <1>3, <1>4 DEF Next, Loop

(***************************************************************************)
(* SUCCESS goes out early for exactly the packets that the caller's switch *)
(* takes for data, and the caller sees the length the device announced:    *)
(* for any packets, any link, and however the stream was cut.              *)
(***************************************************************************)
THEOREM EarlyAcksAgree == Spec => []EarlyAckAgrees
<1>1. Init => AckInv
  BY DEF Init, AckInv, AckAgrees
<1>2. AckInv => EarlyAckAgrees
  BY DEF AckInv, AckAgrees, EarlyAckAgrees
<1> QED
  BY <1>1, <1>2, ReadInit, ReadStep, AckStep, PTL DEF Spec

-----------------------------------------------------------------------------
(***************************************************************************)
(* A device that waits for the answer.  There is never more than one       *)
(* packet on the way, and a read that has the end of one and goes on has   *)
(* found no mark.                                                          *)
(***************************************************************************)
Waits == ~link.eager /\ ~link.failing

WholeIfMarked ==
  outcome = "whole" <=> Marked(taken[1].length) \/ taken[1].length % MAX_READ = 0

WaitInv ==
  Waits =>
    /\ Len(stream) <= 1
    /\ stream # <<>> /\ (pc # "read" \/ taken = <<>>) => stream[1].off = 0
    /\ pc = "read" /\ taken # <<>> =>
         /\ Len(taken) = 1 /\ taken[1].from = 0
         /\ IF stream = <<>> THEN ~Marked(taken[1].length) ELSE stream[1].pkt = taken[1].pkt
    /\ pc # "read" /\ taken # <<>> => WholeIfMarked

(* A queue of at most one packet. *)
LEMMA OneOrNone ==
  ASSUME NEW S, NEW s \in Seq(S), Len(s) <= 1, s # <<>>
  PROVE  Len(s) = 1 /\ Tail(s) = <<>>
<1>1. Len(s) \in Nat /\ Len(s) # 0
  BY LenProperties, EmptySeq
<1>2. Len(s) = 1
  BY <1>1
<1>3. Tail(s) \in Seq(S) /\ Len(Tail(s)) = 0
  BY <1>2, HeadTailProperties
<1> QED
  BY <1>2, <1>3, EmptySeq

(***************************************************************************)
(* A read that has taken from one packet only returns with the end of it,  *)
(* and only if that was marked.                                            *)
(***************************************************************************)
LEMMA ReturnsAtEnd ==
  ASSUME ReadInv, Fill, pc' # "read", Len(taken') = 1
  PROVE  /\ FillOver /\ Marked(stream[1].length)
         /\ Last' = taken'[1]
         /\ taken'[1].from + (retrieved + urb + FillCount) = taken'[1].length
<1>1. pc = "read" /\ stream # <<>>
  BY FillMeans DEF ReadInv, ReadTypes
<1>2. Last' = taken'[1]
  BY DEF Last
<1>3. /\ taken'[1].bytes = retrieved + urb + FillCount
      /\ taken'[1].from + taken'[1].bytes = stream[1].off + FillCount
      /\ taken'[1].length = stream[1].length
  BY <1>2, TakenAfterFill
<1>4. taken'[1].from \in Nat
  <2>1. taken'[1] \in Parts
    BY TakenAfterFill
  <2> QED
    BY <2>1, PartFields
<1>5. /\ stream[1].length \in Nat /\ stream[1].length < MAXIMUM_PACKET_SIZE
      /\ stream[1].off \in Nat
  BY <1>1, FirstOfStream, QueuedFields DEF ReadInv, ReadTypes
<1>6. /\ FillCount \in Nat /\ stream[1].off + FillCount <= stream[1].length
      /\ FillCount = 0 => stream[1].off = stream[1].length
  BY <1>1, FillCounts
<1>7. retrieved \in Nat /\ urb \in Nat
  BY DEF ReadInv, ReadTypes
<1>8. retrieved + (urb + FillCount) < MAXIMUM_PACKET_SIZE
  BY <1>3, <1>4, <1>5, <1>6, <1>7 DEF MAXIMUM_PACKET_SIZE
<1>9. FillDone /\ LoopEnds(urb + FillCount)
  BY FillReturns
<1>10. ReadLength \in Nat /\ ReadLength > 0
  BY <1>1, ReadLengthBounds
<1>11. urb + FillCount # ReadLength
  BY <1>7, <1>8, <1>9, <1>10 DEF LoopEnds, MAXIMUM_PACKET_SIZE
<1>12. FillOver /\ (stream[1].length % USB_PACKET # 0 \/ FillCount = 0)
  BY <1>9, <1>11 DEF FillDone
<1>13. Marked(stream[1].length)
  BY <1>1, <1>6, <1>12 DEF Marked, ReadInv, AtEnd
<1>14. stream[1].off + FillCount = stream[1].length
  BY <1>12 DEF FillOver
<1> QED
  BY <1>2, <1>3, <1>12, <1>13, <1>14

(* It goes on behind the end of a packet only if that was not marked. *)
LEMMA GoesOnUnmarked ==
  ASSUME ReadInv, Fill, pc' = "read", Len(taken') = 1,
         taken'[1].from % USB_PACKET = 0, FillOver
  PROVE  ~Marked(stream[1].length)
<1>1. pc = "read" /\ stream # <<>>
  BY FillMeans DEF ReadInv, ReadTypes
<1>2. stream[1].length % USB_PACKET = 0 /\ FillCount # 0
  <2>1. CASE ~FillDone
    BY <2>1 DEF FillDone
  <2>2. CASE FillDone
    <3>1. urb + FillCount = ReadLength /\ (retrieved + urb + FillCount) % MAX_READ = 0
      BY <2>2, FillGoesOn
    <3>2. FillCount # 0
      BY <1>1, <3>1, ReadLengthBounds DEF ReadInv, ReadTypes
    <3>3. Last' = taken'[1] /\ taken'[1] \in Parts
      BY TakenAfterFill DEF Last
    <3>4. taken'[1].from \in Nat /\ taken'[1].bytes \in Nat
      BY <3>3, PartFields
    <3>5. stream[1].length = taken'[1].from + taken'[1].bytes
      BY <3>3, TakenAfterFill DEF FillOver
    <3>6. taken'[1].bytes % MAX_READ = 0
      BY <3>1, TakenAfterFill
    <3>7. (taken'[1].from + taken'[1].bytes) % USB_PACKET = 0
      BY <3>4, <3>6 DEF USB_PACKET, MAX_READ
    <3> QED
      BY <3>2, <3>5, <3>7
  <2> QED
    BY <2>1, <2>2
<1>3. ~link.zlp
  BY <1>2 DEF FillOver
<1> QED
  BY <1>2, <1>3 DEF Marked

(* What a read returned that has taken from one packet only. *)
LEMMA OnePartOutcome ==
  ASSUME NEW parts, NEW count, parts # <<>>, Len(parts) = 1, parts[1].from \in Nat
  PROVE  Outcome(parts, count) = IF parts[1].from > 0 THEN "rest"
                                 ELSE IF count = parts[1].length THEN "whole" ELSE "part"
<1>1. ~(Len(parts) > 1)
  OBVIOUS
<1>2. CASE parts[1].from > 0
  BY <1>1, <1>2, Zenon DEF Outcome
<1>3. CASE ~(parts[1].from > 0)
  BY <1>1, <1>3, Zenon DEF Outcome
<1> QED
  BY <1>2, <1>3

(* From a device that waits, a chunk is of the only packet there is. *)
LEMMA WaitFill ==
  ASSUME ReadInv, WaitInv, Fill, link' = link
  PROVE  WaitInv'
<1> SUFFICES ASSUME Waits PROVE WaitInv'
  BY DEF WaitInv, Waits
<1>1. pc = "read" /\ stream # <<>> /\ Len(stream) = 1 /\ Tail(stream) = <<>>
  BY FillMeans, OneOrNone DEF ReadInv, ReadTypes, WaitInv
<1>2. Len(taken) \in Nat /\ (taken = <<>> => Len(taken) = 0)
  BY LenProperties DEF ReadInv, ReadTypes
<1>3. Len(taken') = 1 /\ taken'[1].from = 0
  <2>1. CASE Going
    <3>1. Len(taken) = 1 /\ taken[1].from = 0
      BY <1>1, <2>1 DEF WaitInv, Going
    <3> QED
      BY <2>1, <3>1, MoreOfLast
  <2>2. CASE ~Going
    <3>1. taken = <<>>
      BY <1>1, <2>2 DEF WaitInv, Going, Last
    <3>2. stream[1].off = 0
      BY <1>1, <3>1 DEF WaitInv
    <3> QED
      BY <1>2, <2>2, <3>1, <3>2, NewLast
  <2> QED
    BY <2>1, <2>2
<1>4. Last' = taken'[1]
  BY <1>3 DEF Last
<1>5. /\ taken'[1].pkt = stream[1].pkt /\ taken'[1].length = stream[1].length
      /\ taken'[1].bytes = retrieved + urb + FillCount
      /\ taken'[1].from + taken'[1].bytes = stream[1].off + FillCount
      /\ taken' # <<>> /\ taken'[1] \in Parts
  BY <1>3, <1>4, TakenAfterFill, LastOfTaken
<1>6. Len(stream') <= 1
  <2>1. FillOver => stream' = <<>>
    BY <1>1, StreamAfterFill
  <2>2. ~FillOver => Len(stream') = 1
    BY <1>1, StreamAfterFill
  <2>3. Len(<<>>) = 0
    BY EmptySeq
  <2>4. FillOver => Len(stream') = 0
    BY <2>1, <2>3, Zenon
  <2>5. Len(stream') = 0 \/ Len(stream') = 1
    BY <2>2, <2>4
  <2> QED
    BY <2>5
<1>7. CASE pc' = "read"
  <2>1. FillOver => stream' = <<>> /\ ~Marked(taken'[1].length)
    BY <1>1, <1>3, <1>5, <1>7, StreamAfterFill, GoesOnUnmarked DEF USB_PACKET
  <2>2. ~FillOver => stream' # <<>> /\ stream'[1].pkt = taken'[1].pkt
    BY <1>5, StreamAfterFill
  <2>4. IF stream' = <<>> THEN ~Marked(taken[1].length)' ELSE stream'[1].pkt = taken'[1].pkt
    <3>1. FillOver => ~Marked(taken[1].length)'
      BY <2>1 DEF Marked
    <3> QED
      BY <2>1, <2>2, <3>1
  <2> QED
    BY <1>3, <1>5, <1>6, <1>7, <2>4 DEF WaitInv
<1>8. CASE pc' # "read"
  <2>1. /\ FillOver /\ Marked(stream[1].length)
        /\ taken'[1].from + (retrieved + urb + FillCount) = taken'[1].length
    BY <1>3, <1>8, ReturnsAtEnd
  <2>2. retrieved + urb + FillCount \in Nat
    BY <1>1, FillCounts DEF ReadInv, ReadTypes
  <2>3. retrieved + urb + FillCount = taken'[1].length
    BY <1>3, <2>1, <2>2
  <2>4. outcome' = Outcome(taken', retrieved + urb + FillCount)
    BY <1>8, FillReturns DEF Return
  <2>5. outcome' = "whole"
    BY <1>3, <1>5, <2>3, <2>4, OnePartOutcome
  <2>6. Marked(taken[1].length)'
    BY <1>5, <2>1 DEF Marked
  <2>7. stream' = <<>>
    BY <1>1, <2>1, StreamAfterFill
  <2>8. WholeIfMarked'
    BY <2>5, <2>6 DEF WholeIfMarked
  <2> QED
    BY <1>6, <1>8, <2>7, <2>8 DEF WaitInv
<1> QED
  BY <1>7, <1>8

(* An ioctl that only times out has found the stream empty. *)
LEMMA WaitFails ==
  ASSUME ReadInv, WaitInv, ReadFails, link' = link
  PROVE  WaitInv'
<1> SUFFICES ASSUME Waits PROVE WaitInv'
  BY DEF WaitInv, Waits
<1>1. /\ pc = "read" /\ pc' = "idle" /\ stream = <<>>
      /\ outcome' = Outcome(taken, retrieved)
      /\ UNCHANGED <<stream, taken>>
  BY DEF ReadFails, Return, Waits
<1>2. CASE taken = <<>>
  BY <1>1, <1>2 DEF WaitInv
<1>3. CASE taken # <<>>
  <2>1. Len(taken) = 1 /\ taken[1].from = 0 /\ ~Marked(taken[1].length)
    BY <1>1, <1>3 DEF WaitInv
  <2>2. Last = taken[1] /\ taken[1] \in Parts
    BY <1>3, <2>1, LastOfTaken DEF Last, ReadInv, ReadTypes
  <2>3. taken[1].from + taken[1].bytes = taken[1].length
    BY <1>1, <1>3, <2>2 DEF ReadInv, Follows, Inside, Behind
  <2>4. taken[1].length = retrieved + urb
    <3>1. taken[1].bytes = retrieved + urb /\ taken[1].bytes \in Nat
      BY <1>1, <2>1, <2>2, PartFields DEF ReadInv, ChunkOK
    <3> QED
      BY <2>1, <2>3, <3>1
  <2>5. /\ retrieved \in Nat /\ urb \in Nat /\ retrieved % MAX_READ = 0
        /\ urb < MAX_READ
    <3>1. urb < ReadLength /\ ReadLength <= MAX_READ
      BY <1>1, ReadLengthBounds DEF ReadLength, Least, MAX_READ, MAXIMUM_PACKET_SIZE, ReadInv, ReadTypes
    <3> QED
      BY <1>1, <3>1, ReadLengthBounds DEF ReadInv, ReadTypes, ChunkOK, MAX_READ
  <2>6. retrieved = taken[1].length <=> taken[1].length % MAX_READ = 0
    <3>1. (retrieved + urb) % MAX_READ = urb
      BY <2>5 DEF MAX_READ
    <3> QED
      BY <2>4, <2>5, <3>1
  <2>7. outcome' = IF retrieved = taken[1].length THEN "whole" ELSE "part"
    BY <1>1, <1>3, <2>1, OnePartOutcome
  <2>8. WholeIfMarked'
    BY <1>1, <2>1, <2>6, <2>7 DEF WholeIfMarked, Marked
  <2> QED
    BY <1>1, <2>8 DEF WaitInv
<1> QED
  BY <1>2, <1>3

(* The invariant of a device that waits. *)
LEMMA WaitStep == ReadInv /\ WaitInv /\ [Next]_vars => WaitInv'
<1> SUFFICES ASSUME ReadInv, WaitInv, [Next]_vars PROVE WaitInv'
  OBVIOUS
<1>0. link' = link
  BY DEF Next, Loop, vars
<1>1. CASE Fill
  BY <1>0, <1>1, WaitFill
<1>2. CASE ReadFails
  BY <1>0, <1>2, WaitFails
<1>3. CASE DevSend
  <2> SUFFICES ASSUME Waits PROVE WaitInv'
    BY <1>0 DEF WaitInv, Waits
  <2>1. PICK r \in Queued :
           /\ r.off = 0 /\ stream' = Append(stream, r)
           /\ link.eager \/ (stream = <<>> /\ (pc = "read" => taken = <<>>))
           /\ UNCHANGED <<pc, readVars, writeVars>>
    BY <1>3, SendMeans
  <2>2. stream = <<>> /\ (pc = "read" => taken = <<>>) /\ UNCHANGED <<pc, taken, outcome>>
    BY <2>1 DEF Waits, readVars
  <2>3. Len(stream') = 1 /\ stream'[1] = r
    BY <2>1, <2>2
  <2>4. pc # "read" /\ taken # <<>> => WholeIfMarked'
    BY <1>0, <2>2 DEF WaitInv, WholeIfMarked, Marked
  <2> QED
    BY <2>1, <2>2, <2>3, <2>4 DEF WaitInv
<1>4. CASE ReadBegin \/ WriteBegin
  <2>1. pc = "idle" /\ taken' = <<>> /\ UNCHANGED stream
    BY <1>4 DEF ReadBegin, WriteBegin, devVars
  <2> QED
    BY <1>0, <2>1 DEF WaitInv, Waits
<1>5. CASE WriteChunk \/ WriteFails
  <2>1. pc # "read" /\ pc' # "read" /\ UNCHANGED <<stream, taken, outcome>>
    BY <1>5 DEF WriteChunk, WriteFails, devVars, readVars
  <2> QED
    BY <1>0, <2>1 DEF WaitInv, Waits, WholeIfMarked, Marked
<1>6. CASE UNCHANGED vars
  <2>1. UNCHANGED <<pc, stream, taken, outcome>>
    BY <1>6 DEF vars, devVars, readVars
  <2> QED
    BY <1>0, <2>1 DEF WaitInv, Waits, WholeIfMarked, Marked
<1> QED
  BY <1>1, <1>2, <1>3, <1>4, <1>5, <1>6 DEF Next, Loop

(***************************************************************************)
(* A device that waits for the answer before it sends more need not mark   *)
(* the end of a packet of which the host has got all in whole chunks; it   *)
(* loses the end of every other packet that it does not mark.              *)
(***************************************************************************)
THEOREM UnansweredAreWhole == Spec => []UnansweredIsWhole
<1>1. Init => WaitInv
  BY DEF Init, WaitInv
<1>2. WaitInv => UnansweredIsWhole
  BY DEF WaitInv, Waits, WholeIfMarked, UnansweredIsWhole
<1> QED
  BY <1>1, <1>2, ReadInit, ReadStep, WaitStep, PTL DEF Spec

-----------------------------------------------------------------------------
(***************************************************************************)
(* Every packet is marked.  Then a read never gets past the end of one,    *)
(* and what it leaves of one in a failure are whole USB packets.           *)
(***************************************************************************)
Framed == \A p \in Answers : Marked(p.length)

FrameInv ==
  Framed =>
    /\ stream # <<>> => stream[1].off % USB_PACKET = 0
    /\ pc = "read" /\ taken # <<>> =>
         /\ Len(taken) = 1 /\ taken[1].from % USB_PACKET = 0
         /\ stream # <<>> /\ stream[1].pkt = taken[1].pkt

(* If all packets are marked, a chunk is of the packet it began with. *)
LEMMA FrameFill ==
  ASSUME ReadInv, FrameInv, Fill, link' = link
  PROVE  /\ FrameInv'
         /\ Framed => Len(taken') = 1
<1> SUFFICES ASSUME Framed PROVE FrameInv' /\ Len(taken') = 1
  BY DEF FrameInv, Framed, Marked
<1>1. /\ pc = "read" /\ stream # <<>> /\ stream[1] \in Queued
      /\ stream[1].length \in Nat /\ stream[1].off \in Nat
  BY FillMeans, FirstOfStream, QueuedFields DEF ReadInv, ReadTypes
<1>2. Marked(stream[1].length)
  <2>1. stream[1].length \in Lengths
    BY <1>1, QueuedFields
  <2> QED
    BY <2>1 DEF Framed, Lengths
<1>3. Len(taken) \in Nat /\ (taken = <<>> => Len(taken) = 0)
  BY LenProperties DEF ReadInv, ReadTypes
<1>4. Len(taken') = 1 /\ taken'[1].from % USB_PACKET = 0
  <2>1. CASE Going
    <3>1. Len(taken) = 1 /\ taken[1].from % USB_PACKET = 0
      BY <1>1, <2>1 DEF FrameInv, Going
    <3> QED
      BY <2>1, <3>1, MoreOfLast
  <2>2. CASE ~Going
    <3>1. taken = <<>>
      BY <1>1, <2>2 DEF FrameInv, Going, Last
    <3>2. stream[1].off % USB_PACKET = 0
      BY <1>1 DEF FrameInv
    <3> QED
      BY <1>3, <2>2, <3>1, <3>2, NewLast
  <2> QED
    BY <2>1, <2>2
<1>5. Last' = taken'[1]
  BY <1>4 DEF Last
<1>6. /\ taken'[1].pkt = stream[1].pkt
      /\ taken'[1].bytes = retrieved + urb + FillCount
      /\ taken'[1].from + taken'[1].bytes = stream[1].off + FillCount
      /\ taken'[1] \in Parts
  BY <1>4, <1>5, TakenAfterFill, LastOfTaken
<1>7. CASE pc' = "read"
  <2>1. ~FillOver
    BY <1>2, <1>4, <1>7, GoesOnUnmarked
  <2>2. /\ stream' # <<>> /\ stream'[1].pkt = stream[1].pkt
        /\ stream'[1].off = stream[1].off + FillCount
    BY <2>1, StreamAfterFill
  <2>3. stream'[1].off % USB_PACKET = 0
    <3>1. CASE stream[1].off + FillCount = stream[1].length
      BY <2>1, <2>2, <3>1 DEF FillOver
    <3>2. CASE urb + FillCount = ReadLength
      <4>1. (retrieved + urb + FillCount) % MAX_READ = 0
        BY <1>7, <3>2, FillGoesOn
      <4>2. taken'[1].from \in Nat /\ taken'[1].bytes \in Nat /\ taken'[1].bytes % MAX_READ = 0
        BY <1>6, <4>1, PartFields
      <4>3. (taken'[1].from + taken'[1].bytes) % USB_PACKET = 0
        BY <1>4, <4>2 DEF USB_PACKET, MAX_READ
      <4> QED
        BY <1>6, <2>2, <4>3
    <3> QED
      BY <1>1, <3>1, <3>2, FillCounts
  <2> QED
    BY <1>4, <1>6, <2>2, <2>3 DEF FrameInv
<1>8. CASE pc' # "read"
  <2>1. FillOver
    BY <1>4, <1>8, ReturnsAtEnd
  <2>2. stream' \in Seq(Queued) /\ Beyond(stream', stream[1].pkt)
    BY <2>1, StreamAfterFill
  <2>3. stream' # <<>> => 1 \in 1..Len(stream')
    BY <2>2
  <2>4. stream' # <<>> => stream'[1].off = 0
    BY <2>2, <2>3 DEF Beyond
  <2>5. 0 % USB_PACKET = 0
    BY DEF USB_PACKET
  <2> QED
    BY <1>4, <1>8, <2>4, <2>5 DEF FrameInv
<1> QED
  BY <1>4, <1>7, <1>8

(* The invariant of a link that marks all packets. *)
LEMMA FrameStep == ReadInv /\ FrameInv /\ [Next]_vars => FrameInv'
<1> SUFFICES ASSUME ReadInv, FrameInv, [Next]_vars PROVE FrameInv'
  OBVIOUS
<1>0. link' = link /\ (Framed' <=> Framed)
  BY DEF Next, Loop, vars, Framed, Marked
<1>1. CASE Fill
  BY <1>0, <1>1, FrameFill
<1>2. CASE DevSend
  <2>1. PICK r \in Queued :
           /\ r.off = 0 /\ stream' = Append(stream, r)
           /\ UNCHANGED <<pc, readVars, writeVars>>
    BY <1>2, SendMeans
  <2>2. UNCHANGED <<pc, taken>> /\ stream \in Seq(Queued)
    BY <2>1 DEF readVars, ReadInv, ReadTypes
  <2>3. stream' # <<>> /\ stream'[1] = IF stream = <<>> THEN r ELSE stream[1]
    BY <2>1, <2>2
  <2>4. 0 % USB_PACKET = 0
    BY DEF USB_PACKET
  <2> QED
    BY <1>0, <2>1, <2>2, <2>3, <2>4 DEF FrameInv
<1>3. CASE ReadBegin \/ WriteBegin
  <2>1. taken' = <<>> /\ UNCHANGED stream
    BY <1>3 DEF ReadBegin, WriteBegin, devVars
  <2> QED
    BY <1>0, <2>1 DEF FrameInv
<1>4. CASE WriteChunk \/ WriteFails \/ ReadFails
  <2>1. pc' # "read" /\ UNCHANGED stream
    BY <1>4 DEF WriteChunk, WriteFails, ReadFails, Return, devVars
  <2> QED
    BY <1>0, <2>1 DEF FrameInv
<1>5. CASE UNCHANGED vars
  <2>1. UNCHANGED <<pc, stream, taken>>
    BY <1>5 DEF vars, devVars, readVars
  <2> QED
    BY <1>0, <2>1 DEF FrameInv
<1> QED
  BY <1>1, <1>2, <1>3, <1>4, <1>5 DEF Next, Loop

-----------------------------------------------------------------------------
(***************************************************************************)
(* The numbers of packets.                                                 *)
(***************************************************************************)
LEMMA NumbersOf ==
  ASSUME NEW S, \A x \in S : x.pkt \in Nat, NEW s \in Seq(S)
  PROVE  /\ Numbers(s) \in Seq(Nat) /\ Len(Numbers(s)) = Len(s)
         /\ \A i \in 1..Len(s) : Numbers(s)[i] = s[i].pkt
<1>1. Len(s) \in Nat /\ \A i \in 1..Len(s) : s[i] \in S
  BY LenProperties, ElementOfSeq
<1>2. Numbers(s) = [i \in 1..Len(s) |-> s[i].pkt]
  BY DEF Numbers
<1>3. Numbers(s) \in [1..Len(s) -> Nat]
  BY <1>1, <1>2
<1> QED
  BY <1>1, <1>2, <1>3

(* The numbers of the packets in the stream, one for each. *)
LEMMA NumbersOfQueued ==
  ASSUME NEW s \in Seq(Queued)
  PROVE  /\ Numbers(s) \in Seq(Nat) /\ Len(Numbers(s)) = Len(s)
         /\ \A i \in 1..Len(s) : Numbers(s)[i] = s[i].pkt
<1>1. \A x \in Queued : x.pkt \in Nat
  BY QueuedFields
<1> QED
  BY <1>1, NumbersOf

(* The numbers of the parts read, one for each. *)
LEMMA NumbersOfParts ==
  ASSUME NEW s \in Seq(Parts)
  PROVE  /\ Numbers(s) \in Seq(Nat) /\ Len(Numbers(s)) = Len(s)
         /\ \A i \in 1..Len(s) : Numbers(s)[i] = s[i].pkt
<1>1. \A x \in Parts : x.pkt \in Nat
  BY PartFields
<1> QED
  BY <1>1, NumbersOf

(* No packet, no number. *)
LEMMA NumbersOfNone == Numbers(<<>>) = <<>>
<1>1. Len(<<>>) = 0
  BY EmptySeq
<1> QED
  BY <1>1 DEF Numbers

(* A part more has one number more. *)
LEMMA NumbersOneMore ==
  ASSUME NEW t \in Seq(Parts), NEW u \in Seq(Parts), Len(u) = Len(t) + 1,
         \A i \in 1..Len(t) : u[i].pkt = t[i].pkt
  PROVE  Numbers(u) = Numbers(t) \o <<u[Len(u)].pkt>>
<1>1. /\ Numbers(t) \in Seq(Nat) /\ Len(Numbers(t)) = Len(t)
      /\ \A i \in 1..Len(t) : Numbers(t)[i] = t[i].pkt
  BY NumbersOfParts
<1>2. /\ Numbers(u) \in Seq(Nat) /\ Len(Numbers(u)) = Len(u)
      /\ \A i \in 1..Len(u) : Numbers(u)[i] = u[i].pkt
  BY NumbersOfParts
<1>3. Len(t) \in Nat
  BY LenProperties
<1>4. PICK k \in Nat : k = u[Len(u)].pkt
  <2>1. u[Len(u)] \in Parts
    BY <1>3
  <2> QED
    BY <2>1, PartFields
<1>a. PICK a : a = Append(Numbers(t), k)
  OBVIOUS
<1>5. /\ a \in Seq(Nat) /\ Len(a) = Len(t) + 1
      /\ \A i \in 1..Len(t) : a[i] = t[i].pkt
      /\ a[Len(t) + 1] = k
  BY <1>1, <1>a, AppendProperties
<1>6. \A i \in 1..Len(u) : Numbers(u)[i] = a[i]
  <2> TAKE i \in 1..Len(u)
  <2>1. CASE i \in 1..Len(t)
    BY <1>2, <1>5, <2>1
  <2>2. CASE i = Len(t) + 1
    <3>1. i = Len(u)
      BY <2>2
    <3>2. Numbers(u)[i] = k
      BY <1>2, <1>4, <3>1
    <3> QED
      BY <1>5, <2>2, <3>2
  <2> QED
    BY <1>3, <2>1, <2>2
<1>7. Numbers(u) = a
  BY <1>2, <1>5, <1>6, SeqEqual
<1> QED
  BY <1>1, <1>4, <1>7, <1>a, AppendIsConcat

(* The numbers, the first one taken apart. *)
LEMMA NumbersOfFirst ==
  ASSUME NEW s \in Seq(Queued), s # <<>>
  PROVE  Numbers(s) = <<s[1].pkt>> \o Numbers(Tail(s))
<1>1. /\ Numbers(s) \in Seq(Nat) /\ Len(Numbers(s)) = Len(s)
      /\ \A i \in 1..Len(s) : Numbers(s)[i] = s[i].pkt
  BY NumbersOfQueued
<1>2. /\ Tail(s) \in Seq(Queued) /\ Len(Tail(s)) = Len(s) - 1 /\ Len(s) \in Nat /\ Len(s) >= 1
      /\ \A i \in 1..Len(Tail(s)) : Tail(s)[i] = s[i + 1]
  <2>1. Len(s) \in Nat /\ Len(s) # 0
    BY LenProperties, EmptySeq
  <2> QED
    BY <2>1, HeadTailProperties
<1>3. /\ Numbers(Tail(s)) \in Seq(Nat) /\ Len(Numbers(Tail(s))) = Len(s) - 1
      /\ \A i \in 1..(Len(s) - 1) : Numbers(Tail(s))[i] = Tail(s)[i].pkt
  BY <1>2, NumbersOfQueued
<1>4. PICK k \in Nat : k = s[1].pkt
  <2>1. s[1] \in Queued
    BY <1>2
  <2> QED
    BY <2>1, QueuedFields
<1>5. <<k>> \in Seq(Nat) /\ Len(<<k>>) = 1 /\ <<k>>[1] = k
  OBVIOUS
<1>6. PICK t : t = <<k>> \o Numbers(Tail(s))
  OBVIOUS
<1>7. /\ t \in Seq(Nat) /\ Len(t) = 1 + (Len(s) - 1)
      /\ \A i \in 1..(1 + (Len(s) - 1)) : t[i] = IF i <= 1 THEN <<k>>[i] ELSE Numbers(Tail(s))[i - 1]
  BY <1>3, <1>5, <1>6, ConcatProperties
<1>8. \A i \in 1..Len(s) : Numbers(s)[i] = t[i]
  <2> TAKE i \in 1..Len(s)
  <2>0. i \in 1..(1 + (Len(s) - 1))
    BY <1>2
  <2>1. CASE i = 1
    BY <1>1, <1>4, <1>5, <1>7, <2>0, <2>1
  <2>2. CASE i # 1
    <3>1. i - 1 \in 1..(Len(s) - 1) /\ (i - 1) + 1 = i /\ ~(i <= 1)
      BY <1>2, <2>2
    <3>2. t[i] = Numbers(Tail(s))[i - 1]
      BY <1>7, <2>0, <3>1
    <3>3. Numbers(Tail(s))[i - 1] = s[i].pkt
      BY <1>2, <1>3, <3>1
    <3> QED
      BY <1>1, <3>2, <3>3
  <2> QED
    BY <2>1, <2>2
<1>9. Len(t) = Len(s)
  BY <1>2, <1>7
<1>10. Numbers(s) = t
  BY <1>1, <1>7, <1>8, <1>9, SeqEqual
<1> QED
  BY <1>4, <1>6, <1>10

(* A packet sent adds its number. *)
LEMMA NumbersOfAppend ==
  ASSUME NEW s \in Seq(Queued), NEW r \in Queued
  PROVE  Numbers(Append(s, r)) = Append(Numbers(s), r.pkt)
<1>1. /\ Append(s, r) \in Seq(Queued) /\ Len(Append(s, r)) = Len(s) + 1
      /\ \A i \in 1..Len(s) : Append(s, r)[i] = s[i]
      /\ Append(s, r)[Len(s) + 1] = r
      /\ Len(s) \in Nat
  BY AppendProperties, LenProperties
<1>2. PICK t \in Seq(Queued) : t = Append(s, r)
  BY <1>1
<1>3. /\ Numbers(t) \in Seq(Nat) /\ Len(Numbers(t)) = Len(s) + 1
      /\ \A i \in 1..(Len(s) + 1) : Numbers(t)[i] = t[i].pkt
  BY <1>1, <1>2, NumbersOfQueued
<1>4. /\ Numbers(s) \in Seq(Nat) /\ Len(Numbers(s)) = Len(s)
      /\ \A i \in 1..Len(s) : Numbers(s)[i] = s[i].pkt
  BY NumbersOfQueued
<1>5. PICK k \in Nat : k = r.pkt
  BY QueuedFields
<1>a. PICK a : a = Append(Numbers(s), k)
  OBVIOUS
<1>6. /\ a \in Seq(Nat) /\ Len(a) = Len(s) + 1
      /\ \A i \in 1..Len(s) : a[i] = s[i].pkt
      /\ a[Len(s) + 1] = k
  BY <1>4, <1>a, AppendProperties
<1>7. \A i \in 1..(Len(s) + 1) : Numbers(t)[i] = a[i]
  <2> TAKE i \in 1..(Len(s) + 1)
  <2>1. CASE i \in 1..Len(s)
    BY <1>1, <1>2, <1>3, <1>6, <2>1
  <2>2. CASE i = Len(s) + 1
    <3>1. t[i] = r
      BY <1>1, <1>2, <2>2
    <3>2. Numbers(t)[i] = k
      BY <1>3, <1>5, <3>1
    <3> QED
      BY <1>6, <2>2, <3>2
  <2> QED
    BY <1>1, <2>1, <2>2
<1>8. Numbers(t) = a
  BY <1>3, <1>6, <1>7, SeqEqual
<1> QED
  BY <1>2, <1>5, <1>8, <1>a

(* A stretch of a queue of numbers. *)
LEMMA Stretch ==
  ASSUME NEW q \in Seq(Nat), NEW m \in Int, NEW n \in Int, m >= 1, n <= Len(q),
         NEW s, s = SubSeq(q, m, n)
  PROVE  /\ s \in Seq(Nat)
         /\ Len(s) = IF m <= n THEN n - m + 1 ELSE 0
         /\ \A i \in 1..(n - m + 1) : s[i] = q[m + i - 1]
<1>1. \A i \in m..n : q[i] \in Nat
  OBVIOUS
<1> QED
  BY <1>1, SubSeqProperties, SMTT(30)

(* A sequence of numbers behind another. *)
LEMMA SecondPart ==
  ASSUME NEW a \in Seq(Nat), NEW b \in Seq(Nat), NEW q, q = a \o b
  PROVE  /\ Len(a) \in 0..Len(q) /\ b = SubSeq(q, Len(a) + 1, Len(q))
         /\ Len(a) = 1 => q # <<>> /\ b = Tail(q)
<1>1. Len(a) \in Nat /\ Len(b) \in Nat
  BY LenProperties
<1>2. /\ q \in Seq(Nat) /\ Len(q) = Len(a) + Len(b)
      /\ \A i \in 1..(Len(a) + Len(b)) : q[i] = IF i <= Len(a) THEN a[i] ELSE b[i - Len(a)]
  BY ConcatProperties
<1>3. PICK s : s = SubSeq(q, Len(a) + 1, Len(q))
  OBVIOUS
<1>5. /\ s \in Seq(Nat)
      /\ Len(s) = IF Len(a) + 1 <= Len(q) THEN Len(q) - (Len(a) + 1) + 1 ELSE 0
      /\ \A i \in 1..(Len(q) - (Len(a) + 1) + 1) : s[i] = q[Len(a) + 1 + i - 1]
  <2>1. PICK m \in Int : m = Len(a) + 1
    BY <1>1
  <2>2. PICK n \in Int : n = Len(q)
    BY <1>1, <1>2
  <2>3. s = SubSeq(q, m, n)
    BY <1>3, <2>1, <2>2, Zenon
  <2>4. m >= 1 /\ n <= Len(q)
    BY <1>1, <1>2, <2>1, <2>2
  <2>5. /\ s \in Seq(Nat)
        /\ Len(s) = IF m <= n THEN n - m + 1 ELSE 0
        /\ \A i \in 1..(n - m + 1) : s[i] = q[m + i - 1]
    BY <1>2, <2>3, <2>4, Stretch
  <2> QED
    BY <2>1, <2>2, <2>5, Zenon
<1>6. Len(s) = Len(b)
  BY <1>1, <1>2, <1>5
<1>7. \A i \in 1..Len(b) : b[i] = s[i]
  <2> TAKE i \in 1..Len(b)
  <2>1. /\ i \in 1..(Len(q) - (Len(a) + 1) + 1) /\ Len(a) + 1 + i - 1 = Len(a) + i
        /\ Len(a) + i \in 1..(Len(a) + Len(b)) /\ ~(Len(a) + i <= Len(a))
        /\ (Len(a) + i) - Len(a) = i
    BY <1>1, <1>2
  <2>2. s[i] = q[Len(a) + i]
    BY <1>5, <2>1
  <2>3. q[Len(a) + i] = b[i]
    BY <1>2, <2>1
  <2> QED
    BY <2>2, <2>3
<1>8. b = s
  BY <1>5, <1>6, <1>7, SeqEqual
<1>9. Len(a) \in 0..Len(q)
  BY <1>1, <1>2
<1>10. ASSUME Len(a) = 1 PROVE q # <<>> /\ b = Tail(q)
  <2>1. Len(q) # 0
    BY <1>1, <1>2, <1>10
  <2>2. q # <<>>
    BY <2>1, EmptySeq
  <2>3. Tail(q) = SubSeq(q, 2, Len(q))
    BY <1>2, <2>2, TailIsSubSeq
  <2> QED
    BY <1>3, <1>8, <1>10, <2>2, <2>3
<1> QED
  BY <1>3, <1>8, <1>9, <1>10

-----------------------------------------------------------------------------
(***************************************************************************)
(* The stream and the parts of a read, without the packet that an earlier  *)
(* read began.                                                             *)
(***************************************************************************)
Fresh(s) == IF s # <<>> /\ s[1].off > 0 THEN Tail(s) ELSE s

Started(t) == IF t # <<>> /\ t[1].from > 0 THEN Tail(t) ELSE t

(* The packets not begun are packets of the stream. *)
LEMMA FreshIsQueued ==
  ASSUME NEW s \in Seq(Queued)
  PROVE  Fresh(s) \in Seq(Queued) /\ Numbers(Fresh(s)) \in Seq(Nat)
<1>1. Fresh(s) \in Seq(Queued)
  BY HeadTailProperties DEF Fresh
<1> QED
  BY <1>1, NumbersOfQueued

(* The parts that begin a packet are parts read. *)
LEMMA StartedAreParts ==
  ASSUME NEW t \in Seq(Parts)
  PROVE  Started(t) \in Seq(Parts) /\ Numbers(Started(t)) \in Seq(Nat)
<1>1. Started(t) \in Seq(Parts)
  BY HeadTailProperties DEF Started
<1> QED
  BY <1>1, NumbersOfParts

(* What is unread, during a read and between two. *)
LEMMA UnreadMeans ==
  /\ pc = "read" => Unread = Numbers(Started(taken)) \o Numbers(Fresh(stream))
  /\ pc # "read" /\ stream \in Seq(Queued) => Unread = Numbers(Fresh(stream))
<1>1. ASSUME pc = "read"
      PROVE  Unread = Numbers(Started(taken)) \o Numbers(Fresh(stream))
  BY <1>1, Zenon DEF Unread, Begun, Untouched, Started, Fresh
<1>2. ASSUME pc # "read", stream \in Seq(Queued)
      PROVE  Unread = Numbers(Fresh(stream))
  <2>1. Unread = Numbers(<<>>) \o Numbers(Fresh(stream))
    BY <1>2, Zenon DEF Unread, Begun, Untouched, Fresh
  <2> QED
    BY <1>2, <2>1, NumbersOfNone, FreshIsQueued, ConcatEmptySeq
<1> QED
  BY <1>1, <1>2

(* The same numbers, the same part of an earlier read. *)
LEMMA SameStarted ==
  ASSUME NEW t \in Seq(Parts), NEW u \in Seq(Parts), Len(t) = Len(u), t # <<>>,
         \A i \in 1..Len(t) : u[i].pkt = t[i].pkt /\ u[i].from = t[i].from
  PROVE  Numbers(Started(u)) = Numbers(Started(t))
<1>1. Len(t) \in Nat /\ Len(t) >= 1 /\ u # <<>> /\ u[1].from = t[1].from
  <2>1. Len(t) \in Nat /\ Len(t) # 0
    BY LenProperties, EmptySeq
  <2> QED
    BY <2>1, EmptySeq
<1>2. CASE t[1].from > 0
  <2>1. Started(u) = Tail(u) /\ Started(t) = Tail(t)
    BY <1>1, <1>2 DEF Started
  <2>2. /\ Tail(u) \in Seq(Parts) /\ Len(Tail(u)) = Len(t) - 1
        /\ \A i \in 1..(Len(t) - 1) : Tail(u)[i] = u[i + 1]
    BY <1>1, HeadTailProperties
  <2>3. /\ Tail(t) \in Seq(Parts) /\ Len(Tail(t)) = Len(t) - 1
        /\ \A i \in 1..(Len(t) - 1) : Tail(t)[i] = t[i + 1]
    BY HeadTailProperties
  <2>4. \A i \in 1..(Len(t) - 1) : Tail(u)[i].pkt = Tail(t)[i].pkt
    <3> TAKE i \in 1..(Len(t) - 1)
    <3>1. i + 1 \in 1..Len(t)
      BY <1>1
    <3> QED
      BY <2>2, <2>3, <3>1
  <2>5. Numbers(Tail(u)) = Numbers(Tail(t))
    BY <2>2, <2>3, <2>4 DEF Numbers
  <2> QED
    BY <2>1, <2>5
<1>3. CASE ~(t[1].from > 0)
  <2>1. Started(u) = u /\ Started(t) = t
    BY <1>1, <1>3 DEF Started
  <2>2. Numbers(u) = Numbers(t)
    BY DEF Numbers
  <2> QED
    BY <2>1, <2>2
<1> QED
  BY <1>2, <1>3

(* One part more. *)
LEMMA OneMoreStarted ==
  ASSUME NEW t \in Seq(Parts), NEW u \in Seq(Parts), Len(u) = Len(t) + 1,
         \A i \in 1..Len(t) : u[i] = t[i],
         t = <<>> => ~(u[1].from > 0)
  PROVE  Numbers(Started(u)) = Numbers(Started(t)) \o <<u[Len(u)].pkt>>
<1>1. Len(t) \in Nat /\ (t = <<>> <=> Len(t) = 0) /\ u # <<>>
  <2>1. Len(t) \in Nat
    BY LenProperties
  <2> QED
    BY <2>1, EmptySeq
<1>2. CASE t # <<>> /\ t[1].from > 0
  <2>1. Len(t) >= 1 /\ u[1] = t[1]
    BY <1>1, <1>2
  <2>2. Started(u) = Tail(u) /\ Started(t) = Tail(t)
    BY <1>1, <1>2, <2>1 DEF Started
  <2>3. /\ Tail(u) \in Seq(Parts) /\ Len(Tail(u)) = Len(u) - 1
        /\ \A i \in 1..(Len(u) - 1) : Tail(u)[i] = u[i + 1]
    BY <1>1, HeadTailProperties
  <2>4. /\ Tail(t) \in Seq(Parts) /\ Len(Tail(t)) = Len(t) - 1
        /\ \A i \in 1..(Len(t) - 1) : Tail(t)[i] = t[i + 1]
    BY <1>2, HeadTailProperties
  <2>5. \A i \in 1..(Len(t) - 1) : Tail(u)[i].pkt = Tail(t)[i].pkt
    <3> TAKE i \in 1..(Len(t) - 1)
    <3>1. i + 1 \in 1..Len(t) /\ i \in 1..(Len(u) - 1)
      BY <1>1
    <3> QED
      BY <2>3, <2>4, <3>1
  <2>6. Len(Tail(u)) = Len(Tail(t)) + 1
    BY <1>1, <2>3, <2>4
  <2>7. Numbers(Tail(u)) = Numbers(Tail(t)) \o <<Tail(u)[Len(Tail(u))].pkt>>
    BY <2>3, <2>4, <2>5, <2>6, NumbersOneMore
  <2>8. Len(Tail(u)) \in 1..(Len(u) - 1) /\ Len(Tail(u)) + 1 = Len(u)
    BY <1>1, <2>1, <2>3
  <2>9. Tail(u)[Len(Tail(u))] = u[Len(u)]
    BY <2>3, <2>8
  <2> QED
    BY <2>2, <2>7, <2>9
<1>3. CASE ~(t # <<>> /\ t[1].from > 0)
  <2>1. ~(u[1].from > 0)
    <3>1. CASE t = <<>>
      BY <3>1
    <3>2. CASE t # <<>>
      <4>1. 1 \in 1..Len(t)
        BY <1>1, <3>2
      <4> QED
        BY <1>3, <3>2, <4>1
    <3> QED
      BY <3>1, <3>2
  <2>2. Started(u) = u /\ Started(t) = t
    BY <1>3, <2>1 DEF Started
  <2>3. Numbers(u) = Numbers(t) \o <<u[Len(u)].pkt>>
    BY NumbersOneMore
  <2> QED
    BY <2>2, <2>3
<1> QED
  BY <1>2, <1>3

(***************************************************************************)
(* The kernel moves packets from the stream to the read and loses none.    *)
(***************************************************************************)
LEMMA FillKeepsUnread ==
  ASSUME ReadInv, Fill
  PROVE  /\ Unread = Numbers(Started(taken')) \o Numbers(Fresh(stream'))
         /\ RestOfPacket <=> taken'[1].from > 0
<1>1. /\ pc = "read" /\ stream # <<>> /\ stream \in Seq(Queued) /\ taken \in Seq(Parts)
      /\ stream[1] \in Queued /\ stream[1].off \in Nat /\ stream[1].pkt \in Nat
  BY FillMeans, FirstOfStream, QueuedFields DEF ReadInv, ReadTypes
<1>2. Fresh(stream') = Tail(stream)
  <2>1. CASE FillOver
    <3>1. stream' = Tail(stream) /\ stream' \in Seq(Queued) /\ Beyond(stream', stream[1].pkt)
      BY <2>1, StreamAfterFill
    <3>2. stream' # <<>> => 1 \in 1..Len(stream')
      BY <3>1
    <3>3. stream' # <<>> => stream'[1].off = 0
      BY <3>1, <3>2 DEF Beyond
    <3>4. ~(stream' # <<>> /\ stream'[1].off > 0)
      BY <3>3
    <3>5. Fresh(stream') = stream'
      BY <3>4, Zenon DEF Fresh
    <3> QED
      BY <3>1, <3>5
  <2>2. CASE ~FillOver
    <3>1. stream' # <<>> /\ stream'[1].off > 0 /\ Tail(stream') = Tail(stream)
      BY <2>2, StreamAfterFill
    <3> QED
      BY <3>1, Zenon DEF Fresh
  <2> QED
    BY <2>1, <2>2
<1>3. Unread = Numbers(Started(taken)) \o Numbers(Fresh(stream))
  BY <1>1, UnreadMeans
<1>4. taken' \in Seq(Parts) /\ taken' # <<>>
  BY TakenAfterFill
<1>5. Len(taken) \in Nat /\ (taken = <<>> <=> Len(taken) = 0)
  BY <1>1, LenProperties, EmptySeq
<1>6. CASE Going
  <2>1. taken # <<>> /\ stream[1].off > 0
    BY <1>1, <1>6, GoingIsInside DEF Inside
  <2>2. Fresh(stream) = Tail(stream)
    BY <1>1, <2>1, Zenon DEF Fresh
  <2>3. /\ Len(taken') = Len(taken)
        /\ \A i \in 1..Len(taken) : taken'[i].pkt = taken[i].pkt /\ taken'[i].from = taken[i].from
    BY <1>6, MoreOfLast
  <2>4. Numbers(Started(taken')) = Numbers(Started(taken))
    BY <1>1, <1>4, <2>1, <2>3, SameStarted
  <2>5. taken'[1].from = taken[1].from
    BY <1>5, <2>1, <2>3
  <2> QED
    BY <1>1, <1>2, <1>3, <2>1, <2>2, <2>4, <2>5 DEF RestOfPacket
<1>7. CASE ~Going
  <2>1. /\ Len(taken') = Len(taken) + 1
        /\ \A i \in 1..Len(taken) : taken'[i] = taken[i]
        /\ taken'[Len(taken) + 1].pkt = stream[1].pkt
        /\ taken'[Len(taken) + 1].from = stream[1].off
        /\ taken # <<>> => stream[1].off = 0
    <3>1. /\ Len(taken') = Len(taken) + 1
          /\ \A i \in 1..Len(taken) : taken'[i] = taken[i]
          /\ Last' = taken'[Len(taken) + 1]
          /\ Last'.pkt = stream[1].pkt /\ Last'.from = stream[1].off
          /\ taken # <<>> => stream[1].off = 0
      BY <1>7, NewLast
    <3> QED
      BY <3>1
  <2>2. RestOfPacket <=> taken'[1].from > 0
    <3>1. CASE taken = <<>>
      <4>1. taken'[1].from = stream[1].off
        BY <1>5, <2>1, <3>1
      <4> QED
        BY <1>1, <3>1, <4>1 DEF RestOfPacket
    <3>2. CASE taken # <<>>
      <4>1. taken'[1] = taken[1]
        BY <1>5, <2>1, <3>2
      <4> QED
        BY <1>1, <3>2, <4>1 DEF RestOfPacket
    <3> QED
      BY <3>1, <3>2
  <2>3. CASE stream[1].off > 0
    <3>1. taken = <<>> /\ Len(taken') = 1 /\ taken'[1].from > 0
      BY <1>5, <2>1, <2>3
    <3>2. Fresh(stream) = Tail(stream)
      BY <1>1, <2>3, Zenon DEF Fresh
    <3>3. Started(taken') = Tail(taken') /\ Started(taken) = <<>>
      BY <1>4, <3>1, Zenon DEF Started
    <3>4. Tail(taken') = <<>>
      <4>1. Len(taken') <= 1
        BY <3>1
      <4> QED
        BY <1>4, <4>1, OneOrNone, Zenon
    <3> QED
      BY <1>2, <1>3, <2>2, <3>2, <3>3, <3>4
  <2>4. CASE stream[1].off = 0
    <3>1. Fresh(stream) = stream
      <4>1. ~(stream[1].off > 0)
        BY <2>4
      <4> QED
        BY <4>1, Zenon DEF Fresh
    <3>2. taken = <<>> => ~(taken'[1].from > 0)
      BY <1>5, <2>1, <2>4
    <3>3. Numbers(Started(taken')) = Numbers(Started(taken)) \o <<taken'[Len(taken')].pkt>>
      BY <1>1, <1>4, <2>1, <3>2, OneMoreStarted
    <3>4. taken'[Len(taken')].pkt = stream[1].pkt
      BY <2>1
    <3>5. Numbers(stream) = <<stream[1].pkt>> \o Numbers(Tail(stream))
      BY <1>1, NumbersOfFirst
    <3>6. /\ Numbers(Started(taken)) \in Seq(Nat) /\ <<stream[1].pkt>> \in Seq(Nat)
          /\ Numbers(Tail(stream)) \in Seq(Nat)
      <4>1. Tail(stream) \in Seq(Queued)
        BY <1>1, HeadTailProperties
      <4>2. Numbers(Tail(stream)) \in Seq(Nat)
        BY <4>1, NumbersOfQueued
      <4>3. Numbers(Started(taken)) \in Seq(Nat)
        BY <1>1, StartedAreParts, Zenon
      <4> QED
        BY <1>1, <4>2, <4>3
    <3>7. (Numbers(Started(taken)) \o <<stream[1].pkt>>) \o Numbers(Tail(stream))
            = Numbers(Started(taken)) \o (<<stream[1].pkt>> \o Numbers(Tail(stream)))
      BY <3>6, ConcatAssociative
    <3>8. Unread = Numbers(Started(taken')) \o Numbers(Fresh(stream'))
      BY <1>2, <1>3, <3>1, <3>3, <3>4, <3>5, <3>7, Zenon
    <3> QED
      BY <2>2, <3>8
  <2> QED
    BY <1>1, <2>3, <2>4
<1> QED
  BY <1>6, <1>7

-----------------------------------------------------------------------------
(***************************************************************************)
(* Every step is a step of the pipe, or none that it can tell.             *)
(***************************************************************************)
LEMMA OutcomeOfParts ==
  ASSUME NEW parts, NEW count, parts # <<>>
  PROVE  Outcome(parts, count) \in {"part", "rest", "mixed", "whole"}
<1>1. CASE Len(parts) > 1
  <2>a. ~(1 > 1)
    OBVIOUS
  <2>0. Len(parts) # 1
    BY <1>1, <2>a, Zenon
  <2>1. Outcome(parts, count) = "mixed"
    BY <1>1, <2>0, Zenon DEF Outcome
  <2> QED
    BY <2>1
<1>2. CASE ~(Len(parts) > 1) /\ Len(parts) = 1 /\ parts[1].from > 0
  <2>1. Outcome(parts, count) = "rest"
    BY <1>2, Zenon DEF Outcome
  <2> QED
    BY <2>1
<1>3. CASE ~(Len(parts) > 1) /\ ~(Len(parts) = 1 /\ parts[1].from > 0)
  <2>1. Outcome(parts, count) = IF count = parts[1].length THEN "whole" ELSE "part"
    BY <1>3, Zenon DEF Outcome
  <2> QED
    BY <2>1
<1> QED
  BY <1>1, <1>2, <1>3

(* A read of no part has no packet to tell of. *)
LEMMA OutcomeOfNothing == \A count : Outcome(<<>>, count) = "nothing"
<1>1. ~(Len(<<>>) > 1) /\ Len(<<>>) # 1
  BY EmptySeq
<1> QED
  BY <1>1, Zenon DEF Outcome

(* The link is what it was, and so is what the pipe makes of it. *)
LEMMA RestIsBoolean == RestOfPacket \in BOOLEAN
<1>1. CASE pc = "read" /\ taken # <<>>
  <2>1. RestOfPacket = (taken[1].from > 0)
    BY <1>1, Zenon DEF RestOfPacket
  <2>2. (taken[1].from > 0) \in BOOLEAN
    OBVIOUS
  <2> QED
    BY <2>1, <2>2, Zenon
<1>2. CASE ~(pc = "read" /\ taken # <<>>)
  <2>1. RestOfPacket = (stream # <<>> /\ stream[1].off > 0)
    BY <1>2, Zenon DEF RestOfPacket
  <2> QED
    BY <2>1, Zenon
<1> QED
  BY <1>1, <1>2

(* The same link is the same link to the queue. *)
LEMMA SameLink == link' = link => UNCHANGED Pipe!linkVars
  BY DEF Pipe!linkVars, Marked

(* When the queue sees no change. *)
LEMMA NothingSeen ==
  ASSUME link' = link, Unread' = Unread, RestOfPacket' = RestOfPacket, outcome' = outcome
  PROVE  UNCHANGED Pipe!pipeVars
  BY SameLink DEF Pipe!pipeVars

(***************************************************************************)
(* A read that returns something of a packet.  What its parts began is     *)
(* gone from the pipe; if all packets are marked that is one packet or the *)
(* rest of one, and all of it unless an ioctl failed.                      *)
(***************************************************************************)
LEMMA ReadReturns ==
  ASSUME stream' \in Seq(Queued), taken' \in Seq(Parts), taken' # <<>>,
         link' = link, pc' # "read",
         Unread = Numbers(Started(taken')) \o Numbers(Fresh(stream')),
         RestOfPacket <=> taken'[1].from > 0,
         NEW count, outcome' = Outcome(taken', count),
         Framed => /\ Len(taken') = 1
                   /\ ~link.failing => /\ ~RestOfPacket'
                                       /\ taken'[1].from = 0 => count = taken'[1].length
  PROVE  Pipe!PipeNext
<1>1. UNCHANGED Pipe!linkVars
  BY SameLink
<1>2. Unread' = Numbers(Fresh(stream'))
  <2>1. (pc # "read" /\ stream \in Seq(Queued) => Unread = Numbers(Fresh(stream)))'
    BY UnreadMeans, PTL
  <2> QED
    BY <2>1
<1>3. (RestOfPacket \in BOOLEAN)' /\ RestOfPacket \in BOOLEAN
  <2>1. (RestOfPacket \in BOOLEAN)'
    BY RestIsBoolean, PTL
  <2> QED
    BY <2>1, RestIsBoolean
<1>4. /\ Started(taken') \in Seq(Parts) /\ Numbers(Started(taken')) \in Seq(Nat)
      /\ Len(Numbers(Started(taken'))) = Len(Started(taken'))
      /\ Unread' \in Seq(Nat)
  BY <1>2, StartedAreParts, FreshIsQueued, NumbersOfParts
<1>5. Unread = Numbers(Started(taken')) \o Unread'
  BY <1>2
<1>6. CASE ~Framed
  <2>1. Len(Started(taken')) \in 0..Len(Unread)
        /\ Unread' = SubSeq(Unread, Len(Started(taken')) + 1, Len(Unread))
    BY <1>4, <1>5, SecondPart
  <2>2. outcome' \in {"part", "rest", "mixed", "whole"}
    BY OutcomeOfParts
  <2>3. Pipe!ReceiveUnframed
    BY <1>3, <1>6, <2>1, <2>2 DEF Pipe!ReceiveUnframed, Framed
  <2> QED
    BY <1>1, <2>3 DEF Pipe!PipeNext
<1>7. CASE Framed
  <2>1. Len(taken') = 1 /\ taken'[1] \in Parts
    BY <1>7
  <2>2. taken'[1].from \in Nat
    BY <2>1, PartFields
  <2>3. outcome' = IF taken'[1].from > 0 THEN "rest"
                   ELSE IF count = taken'[1].length THEN "whole" ELSE "part"
    BY <2>1, <2>2, OnePartOutcome
  <2>4. CASE taken'[1].from > 0
    <3>1. Started(taken') = Tail(taken')
      BY <2>4, Zenon DEF Started
    <3>2. Tail(taken') = <<>>
      <4>1. Len(taken') <= 1
        BY <2>1
      <4> QED
        BY <4>1, OneOrNone, Zenon
    <3>a. Numbers(Started(taken')) = <<>>
      BY <3>1, <3>2, NumbersOfNone, Zenon
    <3>b. <<>> \o Unread' = Unread'
      BY <1>4, ConcatEmptySeq
    <3>3. Unread' = Unread
      BY <1>5, <3>a, <3>b, Zenon
    <3>4. Pipe!ReceiveRest
      BY <1>3, <1>7, <2>3, <2>4, <3>3 DEF Pipe!ReceiveRest
    <3> QED
      BY <1>1, <3>4 DEF Pipe!PipeNext
  <2>5. CASE ~(taken'[1].from > 0)
    <3>1. Started(taken') = taken'
      BY <2>5, Zenon DEF Started
    <3>2. Unread # <<>> /\ Unread' = Tail(Unread)
      <4>1. PICK a \in Seq(Nat) : a = Numbers(Started(taken'))
        BY <1>4
      <4>2. Len(a) = 1
        BY <1>4, <2>1, <3>1, <4>1
      <4>3. Unread = a \o Unread'
        BY <1>5, <4>1
      <4> QED
        BY <1>4, <4>2, <4>3, SecondPart
    <3>3. taken'[1].from = 0
      BY <2>2, <2>5
    <3>4. CASE count = taken'[1].length
      <4>1. Pipe!Receive
        BY <1>3, <1>7, <2>3, <2>5, <3>2, <3>4 DEF Pipe!Receive
      <4> QED
        BY <1>1, <4>1 DEF Pipe!PipeNext
    <3>5. CASE count # taken'[1].length
      <4>1. Pipe!ReceivePart
        BY <1>3, <1>7, <2>3, <2>5, <3>2, <3>3, <3>5 DEF Pipe!ReceivePart
      <4> QED
        BY <1>1, <4>1 DEF Pipe!PipeNext
    <3> QED
      BY <3>4, <3>5
  <2> QED
    BY <2>4, <2>5
<1> QED
  BY <1>6, <1>7

(* A chunk read is a packet of the queue read if the loop ends, else nothing. *)
LEMMA PipeFill ==
  ASSUME ReadInv, FrameInv, Fill, link' = link
  PROVE  Pipe!PipeNext \/ UNCHANGED Pipe!pipeVars
<1>1. /\ stream' \in Seq(Queued) /\ taken' \in Seq(Parts) /\ taken' # <<>>
  BY TakenAfterFill, StreamAfterFill
<1>2. /\ Unread = Numbers(Started(taken')) \o Numbers(Fresh(stream'))
      /\ RestOfPacket <=> taken'[1].from > 0
  BY FillKeepsUnread
<1>3. CASE pc' = "read"
  <2>1. (pc = "read" => Unread = Numbers(Started(taken)) \o Numbers(Fresh(stream)))'
    BY UnreadMeans, PTL
  <2>2. Unread' = Unread
    BY <1>2, <1>3, <2>1
  <2>3. RestOfPacket' = RestOfPacket
    BY <1>1, <1>2, <1>3 DEF RestOfPacket
  <2>4. outcome' = outcome
    BY <1>3, FillGoesOn
  <2> QED
    BY <2>2, <2>3, <2>4, NothingSeen
<1>4. CASE pc' # "read"
  <2>1. outcome' = Outcome(taken', retrieved + urb + FillCount)
    BY <1>4, FillReturns DEF Return
  <2>2. Framed => /\ Len(taken') = 1
                  /\ ~RestOfPacket'
                  /\ taken'[1].from = 0 => retrieved + urb + FillCount = taken'[1].length
    <3> HAVE Framed
    <3>1. Len(taken') = 1
      BY FrameFill
    <3>2. /\ FillOver
          /\ taken'[1].from + (retrieved + urb + FillCount) = taken'[1].length
      BY <1>4, <3>1, ReturnsAtEnd
    <3>3. Beyond(stream', stream[1].pkt)
      BY <3>2, StreamAfterFill
    <3>4. stream' # <<>> => 1 \in 1..Len(stream')
      BY <1>1
    <3>5. stream' # <<>> => stream'[1].off = 0
      BY <3>3, <3>4 DEF Beyond
    <3>6. ~RestOfPacket'
      BY <1>4, <3>5 DEF RestOfPacket
    <3>7. retrieved + urb + FillCount \in Nat
      BY FillMeans, FillCounts DEF ReadInv, ReadTypes
    <3> QED
      BY <3>1, <3>2, <3>6, <3>7
  <2> QED
    BY <1>1, <1>2, <1>4, <2>1, <2>2, ReadReturns
<1> QED
  BY <1>3, <1>4

(* A failing ioctl ends a read of the queue. *)
LEMMA PipeFails ==
  ASSUME ReadInv, FrameInv, ReadFails, link' = link
  PROVE  Pipe!PipeNext
<1>1. pc = "read" /\ pc' # "read" /\ stream' = stream /\ taken' = taken
  BY DEF ReadFails, Return
<1>2. stream = <<>> \/ link.failing
  BY DEF ReadFails
<1>3. outcome' = Outcome(taken, retrieved)
  BY DEF ReadFails, Return
<1>4. stream \in Seq(Queued) /\ taken \in Seq(Parts)
  BY DEF ReadInv, ReadTypes
<1>5. Unread = Numbers(Started(taken)) \o Numbers(Fresh(stream))
  BY <1>1, UnreadMeans, Zenon
<1>6. CASE taken = <<>>
  <2>1. Numbers(Started(taken)) = <<>>
    BY <1>6, NumbersOfNone, Zenon DEF Started
  <2>2. Unread = Numbers(Fresh(stream))
    <3>1. <<>> \o Numbers(Fresh(stream)) = Numbers(Fresh(stream))
      BY <1>4, FreshIsQueued, ConcatEmptySeq
    <3> QED
      BY <1>5, <2>1, <3>1, Zenon
  <2>3. Unread' = Numbers(Fresh(stream'))
    <3>1. (pc # "read" /\ stream \in Seq(Queued) => Unread = Numbers(Fresh(stream)))'
      BY UnreadMeans, PTL
    <3> QED
      BY <1>1, <1>4, <3>1, Zenon
  <2>4. Unread' = Unread
    BY <1>1, <2>2, <2>3, Zenon
  <2>5. RestOfPacket' = RestOfPacket
    BY <1>1, <1>6 DEF RestOfPacket
  <2>6. outcome' = "nothing"
    BY <1>3, <1>6, OutcomeOfNothing
  <2>7. stream = <<>> => Unread = <<>>
    <3>1. stream = <<>> => Fresh(stream) = <<>>
      BY Zenon DEF Fresh
    <3> QED
      BY <2>2, <3>1, NumbersOfNone
  <2>8. Pipe!ReceiveNothing
    BY <1>2, <2>4, <2>5, <2>6, <2>7 DEF Pipe!ReceiveNothing
  <2> QED
    BY <2>8, SameLink DEF Pipe!PipeNext
<1>7. CASE taken # <<>>
  <2>1. stream' \in Seq(Queued) /\ taken' \in Seq(Parts) /\ taken' # <<>>
    BY <1>1, <1>4, <1>7
  <2>2. Unread = Numbers(Started(taken')) \o Numbers(Fresh(stream'))
    BY <1>1, <1>5, Zenon
  <2>3. RestOfPacket <=> taken'[1].from > 0
    BY <1>1, <1>7, Zenon DEF RestOfPacket
  <2>4. outcome' = Outcome(taken', retrieved)
    BY <1>1, <1>3, Zenon
  <2>5. Framed => Len(taken') = 1 /\ link.failing
    BY <1>1, <1>2, <1>7 DEF FrameInv
  <2> QED
    BY <1>1, <2>1, <2>2, <2>3, <2>4, <2>5, ReadReturns
<1> QED
  BY <1>6, <1>7

(* The device sends: a packet more in the queue. *)
LEMMA PipeSend ==
  ASSUME ReadInv, DevSend, link' = link
  PROVE  Pipe!PipeNext
<1>1. PICK r \in Queued :
           /\ r.off = 0 /\ stream' = Append(stream, r)
           /\ UNCHANGED <<pc, readVars, writeVars>>
  BY SendMeans
<1>2. /\ UNCHANGED <<pc, taken, outcome>> /\ stream \in Seq(Queued) /\ taken \in Seq(Parts)
      /\ Len(stream) \in Nat
  BY <1>1, LenProperties DEF readVars, ReadInv, ReadTypes
<1>3. /\ stream' \in Seq(Queued) /\ stream' # <<>>
      /\ stream'[1] = IF stream = <<>> THEN r ELSE stream[1]
  BY <1>1, <1>2
<1>4. Fresh(stream') = Append(Fresh(stream), r)
  <2>1. CASE stream # <<>> /\ stream[1].off > 0
    <3>1. Fresh(stream') = Tail(stream') /\ Fresh(stream) = Tail(stream)
      BY <1>3, <2>1 DEF Fresh
    <3>2. Tail(Append(stream, r)) = Append(Tail(stream), r)
      BY <1>2, <2>1, HeadTailAppend
    <3> QED
      BY <1>1, <3>1, <3>2
  <2>2. CASE ~(stream # <<>> /\ stream[1].off > 0)
    <3>1. ~(stream'[1].off > 0)
      BY <1>1, <1>3, <2>2
    <3>2. Fresh(stream') = stream' /\ Fresh(stream) = stream
      BY <2>2, <3>1, Zenon DEF Fresh
    <3> QED
      BY <1>1, <3>2
  <2> QED
    BY <2>1, <2>2
<1>5. PICK k \in Nat : k = r.pkt
  BY QueuedFields
<1>6. Fresh(stream) \in Seq(Queued) /\ Numbers(Fresh(stream)) \in Seq(Nat)
  BY <1>2, FreshIsQueued
<1>7. Numbers(Fresh(stream')) = Append(Numbers(Fresh(stream)), k)
  BY <1>4, <1>5, <1>6, NumbersOfAppend
<1>8. /\ Unread \in Seq(Nat) /\ Unread' = Append(Unread, k)
  <2>1. CASE pc = "read"
    <3>1. PICK a \in Seq(Nat) : a = Numbers(Started(taken))
      BY <1>2, StartedAreParts, Zenon
    <3>2. PICK b \in Seq(Nat) : b = Numbers(Fresh(stream))
      BY <1>6
    <3>3. Unread = a \o b
      BY <2>1, <3>1, <3>2, UnreadMeans
    <3>4. (pc = "read" => Unread = Numbers(Started(taken)) \o Numbers(Fresh(stream)))'
      BY UnreadMeans, PTL
    <3>5. Unread' = a \o Append(b, k)
      BY <1>2, <1>7, <2>1, <3>1, <3>2, <3>4
    <3>6. a \o (b \o <<k>>) = (a \o b) \o <<k>> /\ a \o b \in Seq(Nat)
      <4>1. <<k>> \in Seq(Nat)
        OBVIOUS
      <4> QED
        BY <4>1, ConcatAssociative, ConcatProperties
    <3>7. Append(b, k) = b \o <<k>> /\ Append(a \o b, k) = (a \o b) \o <<k>>
      BY <3>6, AppendIsConcat
    <3> QED
      BY <3>3, <3>5, <3>6, <3>7, Zenon
  <2>2. CASE pc # "read"
    <3>1. Unread = Numbers(Fresh(stream))
      BY <1>2, <2>2, UnreadMeans
    <3>2. (pc # "read" /\ stream \in Seq(Queued) => Unread = Numbers(Fresh(stream)))'
      BY UnreadMeans, PTL
    <3> QED
      BY <1>2, <1>3, <1>6, <1>7, <2>2, <3>1, <3>2
  <2> QED
    BY <2>1, <2>2
<1>9. Len(Unread') = Len(Unread) + 1 /\ SubSeq(Unread', 1, Len(Unread)) = Unread
  <2>1. PICK q \in Seq(Nat) : q = Unread
    BY <1>8
  <2>2. Append(q, k) \in Seq(Nat) /\ Len(Append(q, k)) = Len(q) + 1 /\ Len(q) \in Nat
    BY AppendProperties, LenProperties
  <2>3. SubSeq(Append(q, k), 1, Len(q)) = q
    <3>1. Append(q, k) = q \o <<k>> /\ <<k>> \in Seq(Nat)
      BY AppendIsConcat
    <3>2. CASE q = <<>>
      <4>1. SubSeq(Append(q, k), 1, 0) = <<>> /\ Len(q) = 0
        BY <3>2, SubSeqEmpty, EmptySeq
      <4> QED
        BY <3>2, <4>1
    <3>3. CASE q # <<>>
      <4>1. 1 \in 1..Len(q) /\ Len(q) \in 1..Len(q)
        BY <2>2, <3>3, EmptySeq
      <4>2. SubSeq(q \o <<k>>, 1, Len(q)) = SubSeq(q, 1, Len(q))
        BY <3>1, <4>1, SubSeqOfConcat1
      <4> QED
        BY <3>1, <4>2, SubSeqFull
    <3> QED
      BY <3>2, <3>3
  <2> QED
    BY <1>8, <2>1, <2>2, <2>3
<1>10. RestOfPacket' = RestOfPacket
  BY <1>1, <1>2, <1>3 DEF RestOfPacket
<1>11. Pipe!Send
  BY <1>2, <1>9, <1>10 DEF Pipe!Send
<1> QED
  BY <1>11, SameLink DEF Pipe!PipeNext

(* Each step of the loops is one of the queue or none. *)
LEMMA PipeStep ==
  ReadInv /\ FrameInv /\ [Next]_vars => [Pipe!PipeNext]_(Pipe!pipeVars)
<1> SUFFICES ASSUME ReadInv, FrameInv, [Next]_vars
             PROVE  Pipe!PipeNext \/ UNCHANGED Pipe!pipeVars
  OBVIOUS
<1>0. link' = link
  BY DEF Next, Loop, vars
<1>1. CASE Fill
  BY <1>0, <1>1, PipeFill
<1>2. CASE ReadFails
  BY <1>0, <1>2, PipeFails
<1>3. CASE DevSend
  BY <1>0, <1>3, PipeSend
<1>4. CASE ReadBegin
  <2>1. pc = "idle" /\ pc' = "read" /\ taken' = <<>> /\ UNCHANGED <<outcome, stream>>
    BY <1>4 DEF ReadBegin, devVars
  <2>2. Unread' = Unread
    BY <2>1 DEF Unread, Begun, Untouched
  <2>3. RestOfPacket' = RestOfPacket
    BY <2>1 DEF RestOfPacket
  <2> QED
    BY <1>0, <2>1, <2>2, <2>3, NothingSeen
<1>5. CASE WriteBegin \/ WriteChunk \/ WriteFails
  <2>1. pc # "read" /\ pc' # "read" /\ UNCHANGED <<outcome, stream>>
    BY <1>5 DEF WriteBegin, WriteChunk, WriteFails, devVars, readVars
  <2>2. Unread' = Unread
    BY <2>1 DEF Unread, Begun, Untouched
  <2>3. RestOfPacket' = RestOfPacket
    BY <2>1 DEF RestOfPacket
  <2> QED
    BY <1>0, <2>1, <2>2, <2>3, NothingSeen
<1>6. CASE UNCHANGED vars
  <2>1. UNCHANGED <<pc, outcome, stream, taken>>
    BY <1>6 DEF vars, devVars, readVars
  <2>2. Unread' = Unread
    BY <2>1 DEF Unread, Begun, Untouched
  <2>3. RestOfPacket' = RestOfPacket
    BY <2>1 DEF RestOfPacket
  <2> QED
    BY <1>0, <2>1, <2>2, <2>3, NothingSeen
<1> QED
  BY <1>1, <1>2, <1>3, <1>4, <1>5, <1>6 DEF Next, Loop

(***************************************************************************)
(* The chunk loops make a queue of packets of the stream, for any packets  *)
(* and any link: each read takes one packet, in part or in two reads if an *)
(* ioctl failed, as long as every packet is marked; and whatever the link, *)
(* none is read twice or out of order.                                     *)
(***************************************************************************)
THEOREM LoopsMakeAPipe == Spec => PacketPipeSpec
<1>1. Init => Pipe!PipeInit
  <2> SUFFICES ASSUME Init PROVE Pipe!PipeInit
    OBVIOUS
  <2>1. stream = <<>> /\ pc = "idle" /\ outcome = "none"
    BY DEF Init
  <2>2. Fresh(stream) = <<>>
    BY <2>1, Zenon DEF Fresh
  <2>3. stream \in Seq(Queued)
    BY <2>1
  <2>4. Unread = <<>>
    BY <2>1, <2>2, <2>3, UnreadMeans, NumbersOfNone
  <2>5. RestOfPacket = FALSE
    BY <2>1 DEF RestOfPacket
  <2>6. link.failing \in BOOLEAN
    BY BulkIOAssumption DEF Init
  <2> QED
    BY <2>1, <2>4, <2>5, <2>6 DEF Pipe!PipeInit
<1>2. Init => FrameInv
  BY DEF Init, FrameInv
<1> QED
  BY <1>1, <1>2, ReadInit, ReadStep, FrameStep, PipeStep, PTL
     DEF Spec, PacketPipeSpec, Pipe!PipeSpec

=============================================================================
