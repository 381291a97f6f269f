------------------------------ MODULE MCPuppyGet ------------------------------
(* Two files for the model checker, listed in this order. *)
EXTENDS PuppyGet

CONSTANTS f1, f2

MCOrder == <<f1, f2>>

MCOptions == {{"move"}, {"move", "noact"}}
=============================================================================
