--------------------------- MODULE MCTermLifecycle ---------------------------
(* TermLifecycle with the values TLC runs it with. *)
EXTENDS TermLifecycle

CONSTANTS t1, t2

AllRequests == Requests
NoRequests == {}
AudibleBellOnly == {"audible_bell"}

=============================================================================
