------------------------------- MODULE UsbLink -------------------------------
(***************************************************************************)
(* The USB link between one puppy process and the Topfield: the two bulk   *)
(* pipes (endpoint 0x01 towards the device, 0x82 back) as FIFO queues of   *)
(* protocol packets, and the ways an exchange over them can go wrong that  *)
(* usb_io.c lets through to its callers.                                   *)
(***************************************************************************)
EXTENDS Naturals, Sequences

CONSTANT
  Faults      \* the kinds of fault the environment may produce

(***************************************************************************)
(* "late"    the device answers after TF_PROTOCOL_TIMEOUT has passed       *)
(* "read"    a USBDEVFS_BULK read fails although a packet is waiting       *)
(* "send"    a USBDEVFS_BULK write fails and the packet never leaves       *)
(* "damage"  a packet is cut short or altered; get_tf_packet reports a     *)
(*           CRC mismatch, or the caller a short packet, and both go on    *)
(* "disk"    a read() or write() on the local file fails or falls short    *)
(* "local"   a local call before the exchange fails (open, path too long)  *)
(* "refuse"  the device answers FAIL instead of doing what it was asked    *)
(***************************************************************************)
FaultKinds == {"late", "read", "send", "damage", "disk", "local", "refuse"}

ASSUME FaultsAssumption == Faults \subseteq FaultKinds

VARIABLES
  toDev,      \* packets written by the host, not yet seen by the device
  toHost      \* packets sent by the device, not yet read by the host

(***************************************************************************)
(* What a send appends to the pipe.  usb_bulk_write returns the bytes that *)
(* left, never a negative number, so a caller testing r < 0 does not see a *)
(* failed ioctl: the packet is lost and the caller carries on.             *)
(***************************************************************************)
Transmit(packet) ==
  {<<packet>>} \cup (IF "send" \in Faults THEN {<<>>} ELSE {})

(***************************************************************************)
(* The "early" answer of get_tf_packet: SUCCESS leaves as soon as a data   *)
(* transfer packet is seen, before the caller has looked at the packet.    *)
(***************************************************************************)
EarlyAck(cmd) ==
  IF cmd = "DATA_HDD_FILE_DATA" THEN Transmit("SUCCESS") ELSE {<<>>}

(***************************************************************************)
(* Whether the packet just read is what the device sent (TRUE) or a        *)
(* damaged one that get_tf_packet hands to its caller all the same.        *)
(***************************************************************************)
Reception == IF "damage" \in Faults THEN BOOLEAN ELSE {TRUE}

(***************************************************************************)
(* When a read may come back with nothing.  With nothing under way in      *)
(* either pipe the 11 s timeout is certain to strike; with an answer under *)
(* way it strikes only if the device is late; with a packet waiting the    *)
(* read fails only if the ioctl does.                                      *)
(***************************************************************************)
ReadMayFail ==
  \/ toHost = <<>> /\ toDev = <<>>
  \/ toHost = <<>> /\ "late" \in Faults
  \/ "read" \in Faults

==============================================================================
