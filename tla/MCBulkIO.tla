------------------------------- MODULE MCBulkIO -------------------------------
(* The links the model checker tries. *)
EXTENDS BulkIO

(* Every packet marked, the worst link; and the other way round. *)
MCLinks ==
  {[zlp |-> TRUE, eager |-> TRUE, failing |-> TRUE],
   [zlp |-> FALSE, eager |-> FALSE, failing |-> FALSE]}

MCFailing == {[zlp |-> TRUE, eager |-> FALSE, failing |-> TRUE]}

(***************************************************************************)
(* Packets of one chunk, of two and of more, multiples of 512 and of 4096  *)
(* and others.  The second command is the first with its bytes swapped.    *)
(***************************************************************************)
MCAnswers ==
  {[length |-> 8, cmd |-> <<0, 2576>>], [length |-> 512, cmd |-> <<0, 4106>>],
   [length |-> 4608, cmd |-> <<0, 2576>>], [length |-> 8192, cmd |-> <<0, 4106>>],
   [length |-> 8200, cmd |-> <<0, 4106>>]}

(***************************************************************************)
(* What a rest may begin with: bytes that pass for a data packet, bytes    *)
(* that do but for a length of 7, and others.                              *)
(***************************************************************************)
MCPayloads ==
  {<<8, 2, 0, 0, 0, 0, 10, 16>>, <<7, 0, 1, 1, 0, 0, 10, 16>>,
   <<71, 64, 16, 0, 0, 10, 16, 0>>}

(***************************************************************************)
(* Around the largest path a packet has room for, and two that add up; and *)
(* paths whose lengths do not fit in 16 bits.                              *)
(***************************************************************************)
MCRequests ==
  [kind : {"CMD_READY", "CMD_TURBO"}, a : {0}, b : {0}]
  \cup [kind : {"CMD_HDD_DIR"}, a : {65524, 65525, 65526, 131071}, b : {0}]
  \cup [kind : {"CMD_HDD_DEL"}, a : {4075}, b : {0}]
  \cup [kind : {"CMD_HDD_FILE_SEND"}, a : {5, 65522, 65523}, b : {0}]
  \cup [kind : {"CMD_HDD_CREATE_DIR"}, a : {65523, 65525, 65534, 65535, 131071}, b : {0}]
  \cup [kind : {"CMD_HDD_RENAME"}, a : {40000}, b : {25520, 25521, 40000, 131071}]
  \cup [kind : {"CMD_HDD_RENAME"}, a : {70000}, b : {6}]

=============================================================================
