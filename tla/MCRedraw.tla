------------------------------ MODULE MCRedraw -------------------------------
(* Redraw with the values TLC runs it with. *)
EXTENDS Redraw

=============================================================================
