---------------------------- MODULE MCSelection ------------------------------
(* Selection with the values TLC runs it with.  To bound the states, either  *)
(* the children write nothing, or the second terminal is left alone.         *)
EXTENDS Selection

CONSTANTS t1, t2

VARIABLE quiet

MCInit == Init /\ quiet \in BOOLEAN

Bounded ==
    IF quiet THEN \A t \in Terms : term'[t].text = term[t].text
    ELSE inbox'[t2] = <<>> /\ term'[t2] = term[t2]

MCNext == (Process \/ (Environment /\ Bounded)) /\ UNCHANGED quiet

MCFairSpec == MCInit /\ [][MCNext]_<<vars, quiet>> /\ Fairness

=============================================================================
