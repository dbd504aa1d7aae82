--------------------------- MODULE MCSubscription ---------------------------
(* Instances of SubscriptionWindow for TLC. *)
EXTENDS SubscriptionWindow, TLC

CONSTANTS w1, w2

\* a day is one unit of time, a week two
Days == [daily |-> 1, weekly |-> 2]
Quota == [daily |-> 2, weekly |-> 3]

Equals == Permutations(Writers)
=============================================================================
