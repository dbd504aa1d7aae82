---------------------------- MODULE MCExecution ----------------------------
(* Instances of ExecutionDelivery for TLC: two handlers of one relay and    *)
(* a request that is repeated.                                              *)
EXTENDS ExecutionDelivery, TLC

CONSTANTS c1, c2, r1, relay

OneRelay == c1 :> relay @@ c2 :> relay
OneCall == c1 :> 1 @@ c2 :> 1
=============================================================================
