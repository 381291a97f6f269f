------------------------------ MODULE FileMove ------------------------------
(***************************************************************************)
(* What moving files off the device promises: a source goes only after a   *)
(* local file of its size is there, and such a local file stays until the  *)
(* source outgrows it.                                                     *)
(***************************************************************************)
CONSTANT Files      \* the files to be moved

VARIABLES
  remote,           \* the files still on the device
  copied            \* the files with a local file of the size of the source

moveVars == <<remote, copied>>

MoveInit == remote = Files /\ copied \subseteq Files

Copy(f) ==
  /\ f \in remote
  /\ copied' = copied \cup {f}
  /\ UNCHANGED remote

(* The recorder went on writing some of the sources. *)
Outgrow(longer) ==
  /\ longer \subseteq remote
  /\ copied' = copied \ longer
  /\ UNCHANGED remote

Remove(f) ==
  /\ f \in copied
  /\ remote' = remote \ {f}
  /\ UNCHANGED copied

MoveNext ==
  \/ \E f \in Files : Copy(f) \/ Remove(f)
  \/ \E longer \in SUBSET Files : Outgrow(longer)

MoveSpec == MoveInit /\ [][MoveNext]_moveVars

=============================================================================
