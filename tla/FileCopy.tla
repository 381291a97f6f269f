------------------------------ MODULE FileCopy ------------------------------
(***************************************************************************)
(* What a file transfer promises its caller, whatever happens on the wire: *)
(* the copy grows block by block in file order, the call returns, and it   *)
(* returns success only when the copy is whole.  A call that fails may     *)
(* leave any prefix behind, and the previous copy is gone as soon as a     *)
(* transfer is attempted.                                                  *)
(***************************************************************************)
EXTENDS Naturals, Sequences

CONSTANT N        \* the number of blocks of the file on the device, a natural

VARIABLES
  phase,          \* "none" before the first call, "copying", then the outcome
  copy            \* the blocks of the destination file

copyVars == <<phase, copy>>

Phases == {"none", "copying", "succeeded", "failed"}

CopyInit == phase = "none" /\ copy = <<>>

Begin ==
  /\ phase # "copying"
  /\ phase' = "copying"
  /\ copy' = <<>>

(* The call fails before the exchange has started. *)
Refuse ==
  /\ phase # "copying"
  /\ phase' = "failed"
  /\ copy' \in {copy, <<>>}

Extend ==
  /\ phase = "copying"
  /\ Len(copy) < N
  /\ copy' = Append(copy, Len(copy) + 1)
  /\ UNCHANGED phase

Succeed ==
  /\ phase = "copying"
  /\ Len(copy) = N
  /\ phase' = "succeeded"
  /\ UNCHANGED copy

GiveUp ==
  /\ phase = "copying"
  /\ phase' = "failed"
  /\ UNCHANGED copy

CopyNext == Begin \/ Refuse \/ Extend \/ Succeed \/ GiveUp

CopySafety == CopyInit /\ [][CopyNext]_copyVars

CopySpec == CopySafety /\ WF_copyVars(Succeed \/ GiveUp)

=============================================================================
