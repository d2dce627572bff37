------------------------------ MODULE MCMouse --------------------------------
(* Mouse with the values TLC runs it with. *)
EXTENDS Mouse

=============================================================================
