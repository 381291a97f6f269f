-------------------------------- MODULE BulkIO --------------------------------
(***************************************************************************)
(* The chunk loops of usb_io.c: usb_bulk_write and usb_bulk_read cut a     *)
(* protocol packet into USBDEVFS_BULK ioctls of at most 4096 bytes, and    *)
(* get_tf_packet judges what a read brought.  What they make of the byte   *)
(* stream is what UsbLink takes for a queue of packets.                    *)
(*                                                                         *)
(* On the wire a transfer is a run of 512-byte USB packets, and only a     *)
(* shorter one marks its end.  Numbers are bytes.                          *)
(***************************************************************************)
EXTENDS PacketCodec, Integers

CONSTANTS
  Answers,    \* the packets the device sends: length and command
  Payloads,   \* what the rest of a packet may begin with: its first eight bytes
  Requests,   \* the commands the host sends: kind and the lengths of two paths
  Links,      \* the kinds of link and device there may be
  MaxPackets, \* bound on the packets the device sends
  MaxSends    \* bound on the packets the host sends

MAX_READ == 4096
MAX_WRITE == 4096
USB_PACKET == 512

Words == 0..65535

(* A path is a word of the command line: at most 128 KiB with its NUL. *)
PathLengths == {n \in Nat : n < 131072}

ASSUME BulkIOAssumption ==
  /\ Answers \subseteq [length : PACKET_HEAD_SIZE..(MAXIMUM_PACKET_SIZE - 1),
                       cmd : Words \X Words]
  /\ Payloads \subseteq [1..PACKET_HEAD_SIZE -> 0..255]
  /\ Requests \subseteq [kind : CommandKinds, a : PathLengths, b : PathLengths]
  /\ Links \subseteq [zlp : BOOLEAN, eager : BOOLEAN, failing : BOOLEAN]
  /\ MaxPackets \in Nat /\ MaxSends \in Nat

VARIABLES
  link,       \* zlp: the device ends a multiple of 512 with an empty packet;
              \* eager: it sends while the host is in the middle of a packet;
              \* failing: an ioctl may fail with a packet waiting
  pc,         \* "idle", "write" in usb_bulk_write, "read" in usb_bulk_read
  stream,     \* the device's packets: number, bytes read of it, length, head
  packets,    \* packets the device has sent
  retrieved,  \* bytes that earlier ioctls of this read have returned
  urb,        \* bytes that the ioctl under way has received
  taken,      \* (history) the parts of packets taken off the stream by this read
  failed,     \* (history) an ioctl of this read failed
  result,     \* what get_tf_packet returned last
  outcome,    \* (history) what part of which packets that was
  reply,      \* the head of the packet as the caller sees it, <<>> for none
  acked,      \* get_tf_packet has sent SUCCESS
  sends,      \* commands the host has sent
  request,    \* the last one, <<>> once a read has begun
  length,     \* the bytes its packet takes, 0 if it was refused
  sent,       \* bytes of it that the ioctls have reported sent
  left        \* bytes of it that have left

readVars  == <<retrieved, urb, taken, failed, result, outcome, reply, acked>>
writeVars == <<sends, request, length, sent, left>>
devVars   == <<stream, packets>>
vars      == <<link, pc, readVars, writeVars, devVars>>

Least(a, b) == IF a <= b THEN a ELSE b

Init ==
  /\ link \in Links
  /\ pc = "idle"
  /\ stream = <<>> /\ packets = 0
  /\ retrieved = 0 /\ urb = 0 /\ taken = <<>> /\ failed = FALSE
  /\ result = 0 /\ outcome = "none" /\ reply = <<>> /\ acked = FALSE
  /\ sends = 0 /\ request = <<>> /\ length = 0 /\ sent = 0 /\ left = 0

-----------------------------------------------------------------------------
(***************************************************************************)
(* usb_bulk_write.                                                         *)
(***************************************************************************)
WriteBegin ==
  /\ pc = "idle" /\ sends < MaxSends
  /\ sends' = sends + 1
  /\ request' \in Requests
  /\ LET size == CommandSize(request'.kind, request'.a, request'.b)
     IN IF TooLong(size)
        THEN length' = 0 /\ UNCHANGED pc
        ELSE length' = Even(W16(size)) /\ pc' = "write"
  /\ sent' = 0 /\ left' = 0
  /\ retrieved' = 0 /\ urb' = 0 /\ taken' = <<>> /\ failed' = FALSE
  /\ reply' = <<>> /\ acked' = FALSE
  /\ UNCHANGED <<result, outcome, devVars>>

WriteLength == Least(length - sent, MAX_WRITE)

WriteChunk ==
  /\ pc = "write"
  /\ sent' = sent + WriteLength /\ left' = left + WriteLength
  /\ pc' = IF sent' < length THEN "write" ELSE "idle"
  /\ UNCHANGED <<sends, request, length, readVars, devVars>>

(* A chunk that timed out may have left in part, in whole USB packets. *)
Departed == {USB_PACKET * k : k \in 0..((WriteLength - 1) \div USB_PACKET)}

(* Slip: the chunk counts as sent whatever the ioctl returned. *)
WriteFailsCounted ==
  /\ pc = "write" /\ link.failing
  /\ \E part \in Departed : left' = left + part
  /\ sent' = sent + WriteLength
  /\ pc' = IF sent' < length THEN "write" ELSE "idle"
  /\ UNCHANGED <<sends, request, length, readVars, devVars>>

(* ret < 0: the loop ends, and the count so far is returned. *)
WriteFails ==
  /\ pc = "write" /\ link.failing
  /\ \E part \in Departed : left' = left + part
  /\ pc' = "idle"
  /\ UNCHANGED <<sends, request, length, sent, readVars, devVars>>

-----------------------------------------------------------------------------
(***************************************************************************)
(* usb_bulk_read, with the judgement of get_tf_packet on the count.        *)
(***************************************************************************)
ReadBegin ==
  /\ pc = "idle"
  /\ pc' = "read"
  /\ retrieved' = 0 /\ urb' = 0 /\ taken' = <<>> /\ failed' = FALSE
  /\ reply' = <<>> /\ acked' = FALSE
  /\ request' = <<>> /\ length' = 0 /\ sent' = 0 /\ left' = 0
  /\ UNCHANGED <<result, outcome, sends, devVars>>

ReadLength == Least(MAXIMUM_PACKET_SIZE - retrieved, MAX_READ)

(* The parts of packets in a read, and the one taken next. *)
AndPart(parts, p, n) ==
  IF parts # <<>> /\ parts[Len(parts)].pkt = p.pkt
  THEN [parts EXCEPT ![Len(parts)].bytes = @ + n]
  ELSE Append(parts, [pkt |-> p.pkt, from |-> p.off, bytes |-> n,
                        length |-> p.length, head |-> p.head])

Outcome(parts, count) ==
  CASE parts = <<>> -> "nothing"
    [] Len(parts) > 1 -> "mixed"
    [] Len(parts) = 1 /\ parts[1].from > 0 -> "rest"
    [] OTHER -> IF count = parts[1].length THEN "whole" ELSE "part"

(***************************************************************************)
(* usb_bulk_read returns count bytes, which are taken from these parts.    *)
(* get_tf_packet looks at the command before it swaps the bytes, and at    *)
(* the length after that.  What the rest of a packet begins with, it takes *)
(* for a head.                                                             *)
(***************************************************************************)
DATA_HDD_FILE_DATA == <<0, 4106>>

HeadsOf(part) == IF part.from = 0 THEN {part.head} ELSE Payloads

(* Short read. *)
TooShort == result' = -1 /\ reply' = <<>> /\ acked' = FALSE

Judge(count, head) ==
  LET packet == swap_in_packet(head)
      valid == get_u16(packet, 1) >= PACKET_HEAD_SIZE
  IN /\ acked' = (get_u32_raw(head, 5) = DATA_HDD_FILE_DATA)
     /\ result' = IF valid THEN count ELSE -1
     /\ reply' = IF valid THEN packet ELSE <<>>

Return(count, parts) ==
  /\ pc' = "idle"
  /\ outcome' = Outcome(parts, count)
  /\ IF count < PACKET_HEAD_SIZE
     THEN TooShort
     ELSE \E head \in HeadsOf(parts[1]) : Judge(count, head)

(* Slip: the loop asks for a full chunk whatever it has got. *)
LoopEndsAtZero(ret) == ret = 0 \/ retrieved + ret >= MAXIMUM_PACKET_SIZE

(* The condition of the loop, once an ioctl has returned ret bytes. *)
LoopEnds(ret) ==
  ret = 0 \/ retrieved + ret >= MAXIMUM_PACKET_SIZE \/ ret # ReadLength

(* The ioctl under way returns ret bytes. *)
ChunkDone(ret, parts) ==
  /\ retrieved' = retrieved + ret /\ urb' = 0
  /\ IF LoopEnds(ret)
     THEN Return(retrieved + ret, parts)
     ELSE UNCHANGED <<pc, result, outcome, reply, acked>>

(***************************************************************************)
(* The kernel fills the buffer of the ioctl from the stream, until it is   *)
(* full or a short USB packet marks the end of a transfer.                 *)
(***************************************************************************)
Fill ==
  /\ pc = "read" /\ stream # <<>>
  /\ LET p == Head(stream)
         n == Least(p.length - p.off, ReadLength - urb)
         over == p.off + n = p.length /\ (p.length % USB_PACKET # 0 \/ ~link.zlp \/ n = 0)
         parts == AndPart(taken, p, n)
     IN /\ stream' = IF over THEN Tail(stream)
                     ELSE <<[p EXCEPT !.off = @ + n]>> \o Tail(stream)
        /\ taken' = parts
        /\ IF urb + n = ReadLength \/ (over /\ (p.length % USB_PACKET # 0 \/ n = 0))
           THEN ChunkDone(urb + n, parts)
           ELSE urb' = urb + n /\ UNCHANGED <<pc, retrieved, result, outcome, reply, acked>>
  /\ UNCHANGED <<packets, failed, writeVars>>

(* Slip: as long as nothing has come, the ioctl is repeated. *)
ReadRepeated ==
  /\ pc = "read" /\ (stream = <<>> \/ link.failing)
  /\ retrieved + urb > 0
  /\ failed' = TRUE
  /\ Return(retrieved, taken)
  /\ UNCHANGED <<stream, packets, retrieved, urb, taken, writeVars>>

(* Slip: a read in which an ioctl failed returns nothing of what it got. *)
ReadFailsNegative ==
  /\ pc = "read" /\ (stream = <<>> \/ link.failing)
  /\ failed' = TRUE
  /\ Return(0, taken)
  /\ UNCHANGED <<stream, packets, retrieved, urb, taken, writeVars>>

(***************************************************************************)
(* ret < 0: nothing came within the timeout, or the ioctl failed.  What    *)
(* the ioctl had received is lost, what earlier ones returned is returned. *)
(***************************************************************************)
ReadFails ==
  /\ pc = "read" /\ (stream = <<>> \/ link.failing)
  /\ failed' = TRUE
  /\ Return(retrieved, taken)
  /\ UNCHANGED <<stream, packets, retrieved, urb, taken, writeVars>>

-----------------------------------------------------------------------------
DevSend ==
  /\ packets < MaxPackets
  /\ link.eager \/ (stream = <<>> /\ (pc = "read" => taken = <<>>))
  /\ packets' = packets + 1
  /\ \E p \in Answers :
       stream' = Append(stream, [pkt |-> packets', off |-> 0, length |-> p.length,
                                 head |-> swap_out_packet(Head8(p.length, 0, p.cmd))])
  /\ UNCHANGED <<pc, readVars, writeVars>>

Loop == UNCHANGED link /\ (WriteChunk \/ WriteFails \/ Fill \/ ReadFails)

Next ==
  /\ WriteBegin \/ ReadBegin \/ Loop \/ DevSend
  /\ UNCHANGED link

Spec == Init /\ [][Next]_vars

(* The timeout bounds every ioctl, and the loops run on. *)
FairSpec == Spec /\ WF_vars(Loop)

-----------------------------------------------------------------------------
(***************************************************************************)
(* Properties.                                                             *)
(***************************************************************************)

(***************************************************************************)
(* What the callers of usb_bulk_write can tell from the count: the length  *)
(* asked for means that all of it has left; anything less is a number of   *)
(* whole chunks, and at least so many bytes have left.                     *)
(***************************************************************************)
SendCountHonest ==
  pc = "idle" =>
    /\ sent = length => left = length
    /\ sent < length => sent % MAX_WRITE = 0
    /\ sent <= left /\ left <= length

(***************************************************************************)
(* A command that is refused does not fit.  The packet of one that is sent *)
(* is even, its length field can hold its size, and it has room for its    *)
(* head, its paths with their NULs and their lengths exactly if no length  *)
(* of a path was cut to 16 bits (send_cmd_hdd_rename and                   *)
(* send_cmd_hdd_create_dir keep them so before they test).  Of a path that *)
(* was cut, strcpy copies more than the packet holds: what that does is    *)
(* undefined, and the model stops at the length.                           *)
(***************************************************************************)
Content(r) ==
  CASE r.kind = "CMD_READY" -> 0
    [] r.kind = "CMD_TURBO" -> 4
    [] r.kind \in {"CMD_HDD_DIR", "CMD_HDD_DEL"} -> r.a + 1
    [] r.kind = "CMD_HDD_CREATE_DIR" -> 2 + r.a + 1
    [] r.kind = "CMD_HDD_FILE_SEND" -> 3 + r.a + 1
    [] r.kind = "CMD_HDD_RENAME" -> 4 + r.a + r.b + 2

Needs(r) == PACKET_HEAD_SIZE + Content(r)

(* The lengths of the paths, with their NULs, as the code keeps them. *)
LengthsKept(r) ==
  /\ r.kind \in {"CMD_HDD_RENAME", "CMD_HDD_CREATE_DIR"} => r.a + 1 < 65536
  /\ r.kind = "CMD_HDD_RENAME" => r.b + 1 < 65536

CommandsFit ==
  request # <<>> =>
    IF length = 0
    THEN Needs(request) >= MAXIMUM_PACKET_SIZE
    ELSE /\ length % 2 = 0 /\ length < MAXIMUM_PACKET_SIZE
         /\ Needs(request) <= length <=> LengthsKept(request)

(***************************************************************************)
(* The early answer goes out for exactly the packets that the caller's     *)
(* switch will take for data, although one is decided on swapped bytes and *)
(* the other on the bytes in order, and for the rest of a packet on        *)
(* whatever it begins with; and the caller sees the length that the device *)
(* announced, also when the packet was cut short behind it.                *)
(***************************************************************************)
EarlyAckAgrees ==
  pc = "idle" /\ reply # <<>> =>
    /\ acked <=> get_u32(reply, 5) = DATA_HDD_FILE_DATA
    /\ taken[1].from = 0 => get_u16(reply, 1) = taken[1].length

(***************************************************************************)
(* A device that waits for an answer before it sends more need not mark    *)
(* the end of a packet: one that is a multiple of 4096 bytes long makes    *)
(* the host wait for the timeout and is then returned whole.  Only other   *)
(* multiples of 512 lose their last chunk.                                 *)
(***************************************************************************)
Marked(n) == link.zlp \/ n % USB_PACKET # 0

UnansweredIsWhole ==
  pc = "idle" /\ ~link.eager /\ ~link.failing /\ taken # <<>> =>
    (outcome = "whole" <=> Marked(taken[1].length) \/ taken[1].length % MAX_READ = 0)

(* Every call of usb_bulk_read and usb_bulk_write returns. *)
IOReturns == pc # "idle" ~> pc = "idle"

(***************************************************************************)
(* usb_io.c:348 says of get_tf_packet "Returns a negative number if the    *)
(* packet read failed for some reason."                                    *)
(***************************************************************************)
FailureReported == pc = "idle" /\ failed => result < 0

(***************************************************************************)
(* As long as every packet is marked, the stream is the queue of packets   *)
(* PacketPipe describes, whatever the lengths: no read spans two packets,  *)
(* and after a failure one read is all it takes to be back in step.        *)
(***************************************************************************)
Numbers(parts) == [i \in 1..Len(parts) |-> parts[i].pkt]

(* Only the first packet of the stream can have been read in part, and only *)
(* the first part taken of it can be the rest of one.                       *)
Untouched == IF stream # <<>> /\ stream[1].off > 0 THEN Tail(stream) ELSE stream

Begun ==
  IF pc = "read"
  THEN IF taken # <<>> /\ taken[1].from > 0 THEN Tail(taken) ELSE taken
  ELSE <<>>

Unread == Numbers(Begun) \o Numbers(Untouched)

RestOfPacket ==
  IF pc = "read" /\ taken # <<>>
  THEN taken[1].from > 0
  ELSE stream # <<>> /\ stream[1].off > 0

Pipe == INSTANCE PacketPipe WITH
  framed <- \A p \in Answers : Marked(p.length), reliable <- ~link.failing,
  queue <- Unread, rest <- RestOfPacket

PacketPipeSpec == Pipe!PipeSpec

=============================================================================
