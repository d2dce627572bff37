----------------------------- MODULE MCDrawing -------------------------------
(* Drawing with the values TLC runs it with. *)
EXTENDS Drawing

=============================================================================
