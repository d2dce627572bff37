------------------------------- MODULE MCXLoop -------------------------------
(* XLoop with the values TLC runs it with.  To bound the states, either both *)
(* terminals get few events, or the first one alone gets MaxEvents.          *)
EXTENDS XLoop

CONSTANTS t1, t2, FewEvents

VARIABLE alone

MCInit == Init /\ alone \in BOOLEAN

Bounded ==
    IF alone THEN sent'[t2] = <<>> /\ output'[t2] = "none"
    ELSE sent' = sent \/ Len(sent'[t1]) + Len(sent'[t2]) <= FewEvents

MCNext == (Process \/ (Environment /\ Bounded)) /\ UNCHANGED alone

MCFairSpec == MCInit /\ [][MCNext]_<<vars, alone>> /\ WF_vars(Process)

=============================================================================
