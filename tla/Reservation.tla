---------------------------- MODULE Reservation ----------------------------
(***************************************************************************)
(* What the reserve / commit / release operations of the billing service   *)
(* promise for one (user_id, request_id) pair, whatever the interleaving   *)
(* of retries, duplicated calls, background workers and cleanup jobs: a    *)
(* request is charged by exactly one settlement, or closed without a       *)
(* charge, and never both.                                                 *)
(***************************************************************************)
EXTENDS Integers

CONSTANT Requests          \* the (user_id, request_id) pairs

VARIABLES state,           \* billing_reservations.status, "none" before the row
          charge           \* what the consume ledger rows of the request add up to

abstractVars == <<state, charge>>

Terminal == {"committed", "released", "expired"}

ReservationTypeOK ==
  /\ state \in [Requests -> {"none", "reserved"} \cup Terminal]
  /\ charge \in [Requests -> Nat]

ReservationInit ==
  /\ state = [q \in Requests |-> "none"]
  /\ charge = [q \in Requests |-> 0]

Open(q) ==
  /\ state[q] = "none"
  /\ state' = [state EXCEPT ![q] = "reserved"]
  /\ UNCHANGED charge

Settle(q) ==
  /\ state[q] = "reserved"
  /\ state' = [state EXCEPT ![q] = "committed"]
  /\ charge'[q] \in Nat
  /\ charge' = [charge EXCEPT ![q] = charge'[q]]

Close(q) ==
  /\ state[q] = "reserved"
  /\ \E final \in {"released", "expired"} : state' = [state EXCEPT ![q] = final]
  /\ UNCHANGED charge

ReservationNext == \E q \in Requests : Open(q) \/ Settle(q) \/ Close(q)

ReservationSpec == ReservationInit /\ [][ReservationNext]_abstractVars
=============================================================================
