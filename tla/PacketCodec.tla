----------------------------- MODULE PacketCodec -----------------------------
(***************************************************************************)
(* The bytes of a packet head: tf_bytes.c, the byte swapping of usb_io.c,  *)
(* and the lengths send_cmd_* give their packets.  A buffer is a sequence  *)
(* of bytes, the first one at index 1; a 32-bit number is the pair of its  *)
(* 16-bit halves.                                                          *)
(***************************************************************************)
EXTENDS Naturals, Sequences

PACKET_HEAD_SIZE == 8
MAXIMUM_PACKET_SIZE == 65535

W16(n) == n % 65536

(* (n + 1) & ~1 *)
Even(n) == 2 * ((n + 1) \div 2)

get_u16(b, i) == 256 * b[i] + b[i + 1]

get_u16_raw(b, i) == 256 * b[i + 1] + b[i]

get_u32(b, i) == <<get_u16(b, i), get_u16(b, i + 2)>>

(* Slip: the halves change places as well. *)
get_u32_raw_reversed(b, i) == <<get_u16_raw(b, i + 2), get_u16_raw(b, i)>>

get_u32_raw(b, i) == <<get_u16_raw(b, i), get_u16_raw(b, i + 2)>>

put_u16(b, i, n) == [b EXCEPT ![i] = n \div 256, ![i + 1] = n % 256]

put_u32(b, i, n) == put_u16(put_u16(b, i, n[1]), i + 2, n[2])

(* The odd and even bytes change places, up to count bytes. *)
byte_swap(b, count) ==
  [i \in 1..Len(b) |->
     IF i > 2 * (count \div 2) THEN b[i]
     ELSE IF i % 2 = 1 THEN b[i + 1] ELSE b[i - 1]]

swap_out_packet(b) == byte_swap(b, Even(get_u16(b, 1)))

swap_in_packet(b) ==
  LET size == Even(get_u16_raw(b, 1))
  IN byte_swap(b, IF size > MAXIMUM_PACKET_SIZE THEN MAXIMUM_PACKET_SIZE ELSE size)

(***************************************************************************)
(* The head of a packet in memory: length, CRC and command.                *)
(***************************************************************************)
Head8(length, crc, cmd) ==
  put_u32(put_u16(put_u16([i \in 1..PACKET_HEAD_SIZE |-> 0], 1, length), 3, crc), 5, cmd)

-----------------------------------------------------------------------------
(***************************************************************************)
(* The sizes the commands' packets have before they are made even, for     *)
(* paths of a and b characters.  Where the code keeps the length of a path *)
(* in 16 bits before it adds up, so does this.                             *)
(***************************************************************************)
CommandKinds ==
  {"CMD_READY", "CMD_TURBO", "CMD_HDD_DIR", "CMD_HDD_DEL", "CMD_HDD_FILE_SEND",
   "CMD_HDD_RENAME", "CMD_HDD_CREATE_DIR"}

PayloadSize(kind, a, b) ==
  CASE kind = "CMD_READY" -> 0
    [] kind = "CMD_TURBO" -> 4
    [] kind \in {"CMD_HDD_DIR", "CMD_HDD_DEL"} -> a + 1
    [] kind = "CMD_HDD_FILE_SEND" -> 1 + 2 + a + 1
    [] kind = "CMD_HDD_RENAME" -> 2 + W16(a + 1) + 2 + W16(b + 1)
    [] kind = "CMD_HDD_CREATE_DIR" -> 2 + W16(a + 1)

(* Slip: the sum is kept in packetSize, which has 16 bits, when it is tested. *)
CommandSizeWrapped(kind, a, b) == W16(PACKET_HEAD_SIZE + PayloadSize(kind, a, b))

CommandSize(kind, a, b) == PACKET_HEAD_SIZE + PayloadSize(kind, a, b)

(* "Path is too long." *)
TooLong(size) == size >= MAXIMUM_PACKET_SIZE

=============================================================================
