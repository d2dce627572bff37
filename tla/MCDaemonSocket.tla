--------------------------- MODULE MCDaemonSocket -----------------------------
(* DaemonSocket with the values TLC runs it with. *)
EXTENDS DaemonSocket

CONSTANTS d1, d2, c1, c2

=============================================================================
