----------------------------- MODULE MCPayment -----------------------------
(* Instances of Payment for TLC: a wechat order and two subscription orders  *)
(* of one user and one subscription group.                                  *)
EXTENDS Payment, TLC

CONSTANTS c1, c2, job

\* two requests at the same time
OneCall == c1 :> 1 @@ c2 :> 1

OneGroup == [o \in Subscription |-> "g"]
=============================================================================
