---------------------------- MODULE MCSettlement ----------------------------
(* Instances of Settlement for TLC. *)
EXTENDS Settlement, TLC

CONSTANTS p1, p2, c1

\* the replicas of the billing service are interchangeable
Replicas == Permutations({p1, p2})

\* No reservation gets overdue: an accepted one is never expired for it
\* (AcceptedNeverExpires), so the way to its completion is the same.
LiveNext == Next /\ UNCHANGED overdue
LiveSpec == Init /\ [][LiveNext]_vars /\ Fairness
=============================================================================
