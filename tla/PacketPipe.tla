----------------------------- MODULE PacketPipe -----------------------------
(***************************************************************************)
(* What the rest of the code takes the inbound pipe to be: a queue of      *)
(* packets, one of which each read returns.  When an ioctl fails a packet  *)
(* may be returned in part, and what is left of it by the next read.       *)
(***************************************************************************)
EXTENDS Naturals, Sequences

VARIABLES
  framed,     \* the device marks the end of every packet
  reliable,   \* no ioctl fails with a packet waiting
  queue,      \* the packets sent and not read
  rest,       \* the front of the next packet has been read already
  outcome     \* what the last read returned

linkVars == <<framed, reliable>>
pipeVars == <<linkVars, queue, rest, outcome>>

PipeInit ==
  /\ {framed, reliable} \subseteq BOOLEAN
  /\ queue = <<>> /\ rest = FALSE /\ outcome = "none"

Send ==
  /\ Len(queue') = Len(queue) + 1
  /\ SubSeq(queue', 1, Len(queue)) = queue
  /\ UNCHANGED <<rest, outcome>>

Receive ==
  /\ queue # <<>> /\ ~rest
  /\ queue' = Tail(queue)
  /\ outcome' = "whole"
  /\ rest' \in IF reliable THEN {FALSE} ELSE BOOLEAN

ReceivePart ==
  /\ ~reliable
  /\ queue # <<>> /\ ~rest
  /\ queue' = Tail(queue)
  /\ outcome' = "part"
  /\ rest' \in BOOLEAN

ReceiveRest ==
  /\ rest
  /\ outcome' = "rest"
  /\ rest' \in IF reliable THEN {FALSE} ELSE BOOLEAN
  /\ UNCHANGED queue

ReceiveNothing ==
  /\ reliable => queue = <<>>
  /\ outcome' = "nothing"
  /\ UNCHANGED <<queue, rest>>

(* Without a mark, packets run into one another or lose their ends. *)
ReceiveUnframed ==
  /\ ~framed
  /\ \E k \in 0..Len(queue) : queue' = SubSeq(queue, k + 1, Len(queue))
  /\ outcome' \in {"part", "rest", "mixed", "whole"}
  /\ rest' \in BOOLEAN

PipeNext ==
  /\ \/ Send \/ Receive \/ ReceivePart \/ ReceiveRest \/ ReceiveNothing \/ ReceiveUnframed
  /\ UNCHANGED linkVars

PipeSpec == PipeInit /\ [][PipeNext]_pipeVars

=============================================================================
