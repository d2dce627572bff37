----------------------------- MODULE TermHolders -----------------------------
(***************************************************************************)
(* What runes_term_refcnt_inc and runes_term_refcnt_dec promise: a         *)
(* terminal is created with its two watches, lives as long as somebody     *)
(* holds it, is freed in the step in which the last holder lets go, and    *)
(* never comes back.  A watch that was given up is not taken again, and    *)
(* only a terminal that is still watched by its window or its pty, or      *)
(* whose timer is running, can start a timer.                              *)
(***************************************************************************)

CONSTANT Terms

VARIABLES holders, life

hvars == <<holders, life>>

AllKinds == {"window", "pty", "delay", "bell", "click"}
BothWatches == {"window", "pty"}

TypeOK ==
    /\ holders \in [Terms -> SUBSET AllKinds]
    /\ life \in [Terms -> {"none", "alive", "freed"}]

Init ==
    /\ holders \in [Terms -> {{}, BothWatches}]
    /\ life = [t \in Terms |-> IF holders[t] = {} THEN "none" ELSE "alive"]

Create(t) ==
    /\ life[t] = "none"
    /\ holders' = [holders EXCEPT ![t] = BothWatches]
    /\ life' = [life EXCEPT ![t] = "alive"]

\* A callback of a living terminal: it may start timers and give up what it
\* was called for.
Callback(t, kept) ==
    /\ life[t] = "alive"
    /\ kept \cap BothWatches \subseteq holders[t]
    /\ holders' = [holders EXCEPT ![t] = kept]
    /\ life' = [life EXCEPT ![t] = IF kept = {} THEN "freed" ELSE "alive"]

Next ==
    \E t \in Terms : Create(t) \/ \E kept \in SUBSET AllKinds : Callback(t, kept)

Spec == Init /\ [][Next]_hvars

=============================================================================
