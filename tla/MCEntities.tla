----------------------------- MODULE MCEntities -----------------------------
\* The value computations of the entities, side by side for TLC.
EXTENDS Money, Backoff

MCFactor == {[num |-> n, den |-> d] : n \in -1..3, d \in {1, 2, 3, 8}}

Init == MoneyInit /\ BackoffInit
Next == (MoneyNext /\ UNCHANGED backoffVars) \/ (Fail /\ UNCHANGED held)
Spec == Init /\ [][Next]_<<held, backoffVars>>
=============================================================================
