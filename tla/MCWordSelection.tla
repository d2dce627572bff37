-------------------------- MODULE MCWordSelection ----------------------------
(* WordSelection with the values TLC runs it with. *)
EXTENDS WordSelection

=============================================================================
