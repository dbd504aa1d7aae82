-------------------------- MODULE MCReconciliation --------------------------
(* Instances of Reconciliation for TLC: one user and two requests, no        *)
(* recharge and no administrator.                                           *)
EXTENDS Reconciliation, TLC

CONSTANT u1

WalletOnly == {[mode |-> "wallet", intent |-> FALSE]}
SoloRes == <<u1, u1>>
NoOps == <<>>
LargeInit == u1 :> 1000
=============================================================================
