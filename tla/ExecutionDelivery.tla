-------------------------- MODULE ExecutionDelivery --------------------------
(***************************************************************************)
(* Durable execution evidence.  Billing saves an execution intent with the *)
(* reservation; a relay admits the intent to its own local outbox before   *)
(* it sends the request upstream, writes what it observes (headers, usage  *)
(* checkpoints, a terminal record, the final settlement) to the outbox,    *)
(* and a worker delivers the rows to billing until it acknowledges them.   *)
(* Billing accepts a final event as a settlement task, settles it, or ends *)
(* the reservation at the evidence deadline.                               *)
(*                                                                         *)
(* The orchestrator's HTTP attempt is modelled (executeAttempt and the     *)
(* finalizing stream), one attempt per call; the tokens, prices and wallet *)
(* are in Wallet.tla, the queue and replicas of the settlement worker in   *)
(* Settlement.tla.  The lease of an intent is left out: nothing reads it   *)
(* but the status column "evidence_pending".                               *)
(***************************************************************************)
EXTENDS Integers, FiniteSets

CONSTANTS
  Relays,          \* relay-gateway instances, each with its own outbox
  Callers,         \* request handlers
  RelayOf,         \* the relay a handler runs in
  Reservations,    \* one per (user, request id)
  MaxEvents,       \* outboxMaxEvents
  Streams,         \* reservations whose response is a stream
  MaxCalls,        \* calls of a handler
  MaxFaults,       \* crashes, lost calls and storage errors
  None

Slots      == {"header", "terminal", "final"}      \* reserved at admission
Categories == {"intent", "usage"} \cup Slots       \* "usage": a stream checkpoint
Verdicts   == {"verified", "unproven"}             \* of the upstream usage

ASSUME DeliveryAssumption ==
  /\ RelayOf \in [Callers -> Relays]
  /\ IsFiniteSet(Reservations)
  /\ MaxEvents \in Nat
  /\ MaxCalls \in [Callers -> Nat]
  /\ MaxFaults \in Nat
  /\ None \notin Relays \cup Verdicts

VARIABLES
  rows,      \* execution_outbox: status of an event's row
  slots,     \* header_reserved, terminal_reserved, final_reserved
  said,      \* verdict in a terminal or final row
  others,    \* pending rows of requests that are not followed one by one
  sends,     \* upstream sends a relay made for a reservation (history)
  call,      \* the handlers: place, reservation, durableAttempt
  calls,     \* calls made so far
  res,       \* billing_reservations.status
  past,      \* is the evidence deadline over?
  inbox,     \* upstream_execution_evidence: the relay an event came from
  task,      \* billing_settlement_tasks
  settling,  \* a settlement worker is between its checks and its transaction
  faults

relayVars   == <<rows, slots, said, others, sends, call, calls>>
billingVars == <<res, past, inbox, task, settling>>
vars == <<relayVars, billingVars, faults>>

Places == {"idle", "reserved", "forward", "await", "body", "abandon",
           "commit", "sendfinal", "ackfinal", "release"}
Idle == [at |-> "idle", res |-> None, sent |-> FALSE, failed |-> FALSE, last |-> None]

Init ==
  /\ rows = [l \in Relays |-> [r \in Reservations |-> [k \in Categories |-> "absent"]]]
  /\ slots = [l \in Relays |-> [r \in Reservations |-> {}]]
  /\ said = [l \in Relays |-> [r \in Reservations |-> [k \in {"terminal", "final"} |-> None]]]
  /\ others = [l \in Relays |-> 0]
  /\ sends = [l \in Relays |-> [r \in Reservations |-> 0]]
  /\ call = [c \in Callers |-> Idle]
  /\ calls = [c \in Callers |-> 0]
  /\ res = [r \in Reservations |-> "none"]
  /\ past = [r \in Reservations |-> FALSE]
  /\ inbox = [r \in Reservations |-> [k \in Categories |-> None]]
  /\ task = [r \in Reservations |-> [status |-> "none", verdict |-> None]]
  /\ settling = [r \in Reservations |-> FALSE]
  /\ faults = 0

Fault == faults < MaxFaults /\ faults' = faults + 1
-----------------------------------------------------------------------------
(* The outbox.  Every put first gives up the reservations of the intents   *)
(* whose deadline is over, in transactions of their own.                   *)

Pending(l) ==
  others[l] + Cardinality({e \in Reservations \X Categories : rows[l][e[1]][e[2]] = "pending"})
Reserved(held) == Cardinality({e \in Reservations \X Slots : e[2] \in held[e[1]]})

LiveSlots(l) == [r \in Reservations |-> IF past[r] THEN {} ELSE slots[l][r]]

\* mutant: the slots of admitted intents are not counted
RoomInRows(l, n) == Pending(l) + n <= MaxEvents

\* is there room for n more rows beside the rows and slots there are?
Room(l, n) == Pending(l) + Reserved(LiveSlots(l)) + n <= MaxEvents

\* what an event of an admitted intent adds: a reserved slot becomes a row
Fits(l, r, k) == IF k \in LiveSlots(l)[r] THEN Pending(l) + 1 <= MaxEvents ELSE Room(l, 1)

\* mutant: a slot for every category that may follow
ReservableAll(r) == IF past[r] THEN {} ELSE Categories \ {"intent"}

\* the slots a new intent reserves
Reservable(r) == IF past[r] THEN {} ELSE Slots

AdmitFits(l, r) == Room(l, 1 + Cardinality(Reservable(r)))

Expire(l) == slots' = [slots EXCEPT ![l] = LiveSlots(l)]

\* the row is new, or there already with the same payload
PutDone(l, r, k) ==
  IF rows[l][r][k] = "absent"
  THEN /\ Fits(l, r, k)
       /\ rows' = [rows EXCEPT ![l][r][k] = "pending"]
       /\ slots' = [slots EXCEPT ![l] = [LiveSlots(l) EXCEPT ![r] = @ \ {k}]]
  ELSE Expire(l) /\ UNCHANGED rows

\* no room (no fault needed), or a storage error
PutFailed(l, r, k) ==
  /\ \/ Fault
     \/ rows[l][r][k] = "absent" /\ ~Fits(l, r, k) /\ UNCHANGED faults
  /\ Expire(l) /\ UNCHANGED rows

Acknowledge(l, r, k) == rows' = [rows EXCEPT ![l][r][k] = "acknowledged"]
-----------------------------------------------------------------------------
(* Billing's inbox: an event is kept once, under the payload that came     *)
(* first; two relays never write the same bytes for one event.             *)

Agrees(l, r, k) == inbox[r][k] \in {None, l}

\* mutant: the clock is not looked at again
SettleableLate(r) == res[r] = "reserved"

\* released and expired reservations, and those past their deadline, keep
\* the evidence and are not settled
Settleable(r) == res[r] = "reserved" /\ ~past[r]

AcceptExecution(l, r, k) ==
  /\ Agrees(l, r, k)
  /\ inbox' = [inbox EXCEPT ![r][k] = l]
  /\ task' = IF k = "final" /\ Settleable(r) /\ task[r].status = "none"
             THEN [task EXCEPT ![r] = [status |-> "pending", verdict |-> said[l][r]["final"]]]
             ELSE task
  /\ UNCHANGED <<res, past, settling>>

ReleaseQuota(r) ==
  /\ res' = IF res[r] = "reserved" THEN [res EXCEPT ![r] = "released"] ELSE res
  /\ UNCHANGED <<past, inbox, task, settling>>
-----------------------------------------------------------------------------
(* A handler's attempt. *)

At(c, p)  == call[c].at = p
Mine(c)   == RelayOf[c]
Goto(c, p) == call' = [call EXCEPT ![c].at = p]
Return(c) == call' = [call EXCEPT ![c] = Idle]

\* ReserveQuota saves the intent with the reservation, or returns the open
\* reservation of an earlier call; a closed one is an error, and the answer may
\* be lost
Reserve(c, r) ==
  /\ At(c, "idle") /\ calls[c] < MaxCalls[c]
  /\ res[r] \in {"none", "reserved"}
  /\ res' = [res EXCEPT ![r] = "reserved"]
  /\ calls' = [calls EXCEPT ![c] = @ + 1]
  /\ \/ call' = [call EXCEPT ![c] = [Idle EXCEPT !.at = "reserved", !.res = r]]
        /\ UNCHANGED faults
     \/ Fault /\ UNCHANGED call
  /\ UNCHANGED <<rows, slots, said, others, sends, past, inbox, task, settling>>

\* mutant: Put, which takes an intent that is there already, in place of Admit
PrepareAgain(c) ==
  LET l == Mine(c)
      r == call[c].res
      known == rows[l][r]["intent"] # "absent"
  IN /\ At(c, "reserved")
     /\ known \/ AdmitFits(l, r)
     /\ rows' = IF known THEN rows ELSE [rows EXCEPT ![l][r]["intent"] = "pending"]
     /\ slots' = [slots EXCEPT ![l] =
                    IF known THEN LiveSlots(l) ELSE [LiveSlots(l) EXCEPT ![r] = Reservable(r)]]
     /\ Goto(c, "forward")
     /\ UNCHANGED <<said, others, sends, calls, billingVars, faults>>

\* prepareDurableAttempt: an intent the outbox knows is never executed again;
\* any other failure releases the reservation
Prepare(c) ==
  LET l == Mine(c)
      r == call[c].res
      known == rows[l][r]["intent"] # "absent"
  IN /\ At(c, "reserved")
     /\ \/ known /\ Expire(l) /\ Return(c) /\ UNCHANGED <<rows, faults>>
        \/ /\ ~known /\ AdmitFits(l, r)
           /\ rows' = [rows EXCEPT ![l][r]["intent"] = "pending"]
           /\ slots' = [slots EXCEPT ![l] = [LiveSlots(l) EXCEPT ![r] = Reservable(r)]]
           /\ Goto(c, "forward") /\ UNCHANGED faults
        \/ /\ \/ Fault
              \/ ~known /\ ~AdmitFits(l, r) /\ UNCHANGED faults
           /\ Expire(l) /\ Goto(c, "release") /\ UNCHANGED rows
     /\ UNCHANGED <<said, others, sends, calls, billingVars>>

\* no slot in the channel, no provider
Decline(c) ==
  /\ At(c, "forward") /\ ~call[c].sent
  /\ Goto(c, "release")
  /\ UNCHANGED <<rows, slots, said, others, sends, calls, billingVars, faults>>

\* evidence.Do asks the attempt before it sends; a forwarder that tries
\* another protocol after a rejection asks again
Send(c) ==
  LET l == Mine(c)
      r == call[c].res
  IN /\ At(c, "forward")
     /\ IF call[c].sent \/ call[c].failed
        THEN Goto(c, "release") /\ UNCHANGED sends
        ELSE /\ sends' = [sends EXCEPT ![l][r] = @ + 1]
             /\ call' = [call EXCEPT ![c].at = "await", ![c].sent = TRUE]
     /\ UNCHANGED <<rows, slots, said, others, calls, billingVars, faults>>

Remember(c, p, v, failed) ==
  call' = [call EXCEPT ![c] = [at |-> p, res |-> call[c].res, sent |-> call[c].sent,
                               failed |-> failed, last |-> v]]

\* the durable recorder: the newest record stays in memory, a failed write
\* blocks the commit until a terminal record is written
Record(c, k, v, done, refused) ==
  LET l == Mine(c)
      r == call[c].res
  IN /\ \/ /\ PutDone(l, r, k)
           /\ said' = IF k = "terminal" THEN [said EXCEPT ![l][r][k] = v] ELSE said
           /\ \E p \in done : Remember(c, p, v, k # "terminal" /\ call[c].failed)
           /\ UNCHANGED faults
        \/ /\ PutFailed(l, r, k)
           /\ \E p \in refused : Remember(c, p, v, TRUE)
           /\ UNCHANGED said
     /\ UNCHANGED <<others, sends, calls, billingVars>>

\* the response's headers are written before its body is read
Headers(c) == At(c, "await") /\ Record(c, "header", "unproven", {"body"}, {"abandon"})

\* one usage checkpoint of a stream
Checkpoint(c) ==
  /\ At(c, "body") /\ call[c].res \in Streams
  /\ rows[Mine(c)][call[c].res]["usage"] = "absent"
  /\ Record(c, "usage", "unproven", {"body"}, {"abandon"})

\* no answer, or a reader that stopped
Unanswered(c) ==
  /\ At(c, "await")
  /\ Goto(c, "abandon")
  /\ UNCHANGED <<rows, slots, said, others, sends, calls, billingVars, faults>>

\* the terminal record of an attempt that failed: transport error, headers or
\* a checkpoint that could not be written
Abandon(c) == At(c, "abandon") /\ Record(c, "terminal", "unproven", {"release"}, {"release"})

\* the upstream refused the request; the forwarder may ask again
Rejected(c) ==
  At(c, "body") /\ Record(c, "terminal", "unproven", {"forward", "release"}, {"release"})

\* the body is at its end: the handler settles, or, for a client that left or
\* a response it cannot convert, releases
Finish(c) ==
  /\ At(c, "body")
  /\ \E v \in Verdicts :
       Record(c, "terminal", v, {"commit", "release"}, {"commit", "release"})

\* mutant: the failed write is forgotten
CommitUnfailed(c) ==
  /\ At(c, "commit")
  /\ PutDone(Mine(c), call[c].res, "final")
  /\ said' = [said EXCEPT ![Mine(c)][call[c].res]["final"] = call[c].last]
  /\ Goto(c, "sendfinal")
  /\ UNCHANGED <<others, sends, calls, billingVars, faults>>

\* durableCommit: not after a failed write; past the deadline the attempt may
\* be retired, and billing rejects a commit without evidence
Commit(c) ==
  LET l == Mine(c)
      r == call[c].res
  IN /\ At(c, "commit")
     /\ \/ ~call[c].failed /\ PutDone(l, r, "final")
           /\ said' = [said EXCEPT ![l][r]["final"] = call[c].last]
           /\ Goto(c, "sendfinal") /\ UNCHANGED faults
        \/ ~call[c].failed /\ PutFailed(l, r, "final") /\ Return(c) /\ UNCHANGED said
        \/ (call[c].failed \/ past[r]) /\ Return(c) /\ UNCHANGED <<rows, slots, said, faults>>
     /\ UNCHANGED <<others, sends, calls, billingVars>>

\* the final event, delivered by the handler itself; the request or the
\* answer may be lost, and a conflict is an error
SendFinal(c) ==
  LET l == Mine(c)
      r == call[c].res
  IN /\ At(c, "sendfinal")
     /\ \/ /\ AcceptExecution(l, r, "final")
           /\ Goto(c, "ackfinal") /\ UNCHANGED faults
        \/ AcceptExecution(l, r, "final") /\ Fault /\ Return(c)
        \/ UNCHANGED billingVars /\ Fault /\ Return(c)
        \/ ~Agrees(l, r, "final") /\ Return(c) /\ UNCHANGED <<billingVars, faults>>
     /\ UNCHANGED <<rows, slots, said, others, sends, calls>>

AckFinal(c) ==
  /\ At(c, "ackfinal")
  /\ Acknowledge(Mine(c), call[c].res, "final")
  /\ Return(c)
  /\ UNCHANGED <<slots, said, others, sends, calls, billingVars, faults>>

\* releaseQuota; its request may be lost
Release(c) ==
  /\ At(c, "release")
  /\ \/ ReleaseQuota(call[c].res) /\ UNCHANGED faults
     \/ Fault /\ UNCHANGED billingVars
  /\ Return(c)
  /\ UNCHANGED <<rows, slots, said, others, sends, calls>>
-----------------------------------------------------------------------------
(* The delivery worker of a relay, and a relay's crash. *)

\* mutant: the row is acknowledged though the call was lost
DeliverUnanswered(l, r, k) ==
  /\ rows[l][r][k] = "pending"
  /\ Expire(l)
  /\ \/ AcceptExecution(l, r, k) /\ UNCHANGED faults
     \/ Fault /\ UNCHANGED billingVars
  /\ Acknowledge(l, r, k)
  /\ UNCHANGED <<said, others, sends, call, calls>>

\* Deliver of a pending row: put again, sent, acknowledged by its receipt; or
\* the answer is lost, or the relay dies before it acknowledges the row
Deliver(l, r, k) ==
  /\ rows[l][r][k] = "pending"
  /\ Expire(l)
  /\ AcceptExecution(l, r, k)
  /\ \/ Acknowledge(l, r, k) /\ UNCHANGED faults
     \/ Fault /\ UNCHANGED rows
  /\ UNCHANGED <<said, others, sends, call, calls>>

\* another request's checkpoint or late evidence, which has no slot
OtherPut(l) ==
  /\ Room(l, 1)
  /\ others' = [others EXCEPT ![l] = @ + 1]
  /\ Expire(l)
  /\ UNCHANGED <<rows, said, sends, call, calls, billingVars, faults>>

OtherAcknowledged(l) ==
  /\ others[l] > 0
  /\ others' = [others EXCEPT ![l] = @ - 1]
  /\ UNCHANGED <<rows, slots, said, sends, call, calls, billingVars, faults>>

\* the outbox is all that is left of a relay's attempts
Crash(l) ==
  /\ Fault
  /\ call' = [c \in Callers |-> IF Mine(c) = l THEN Idle ELSE call[c]]
  /\ UNCHANGED <<rows, slots, said, others, sends, calls, billingVars>>
-----------------------------------------------------------------------------
(* Billing: the settlement of an accepted task, the deadline, the sweeper. *)

Completed(r) == [task EXCEPT ![r].status = "completed"]

\* CommitQuotaWithUsage before its transaction: a proof that is missing or
\* late releases the reservation
SettleCheck(r) ==
  /\ task[r].status = "pending" /\ ~settling[r] /\ res[r] \in {"reserved", "committed"}
  /\ IF res[r] = "committed"
     THEN task' = Completed(r) /\ UNCHANGED <<res, settling>>
     ELSE IF past[r] \/ task[r].verdict # "verified"
          THEN /\ res' = [res EXCEPT ![r] = "released"]
               /\ task' = Completed(r)
               /\ UNCHANGED settling
          ELSE settling' = [settling EXCEPT ![r] = TRUE] /\ UNCHANGED <<res, task>>
  /\ UNCHANGED <<past, inbox, relayVars, faults>>

\* its transaction looks at the reservation and at the clock again
SettleCommit(r) ==
  /\ settling[r]
  /\ settling' = [settling EXCEPT ![r] = FALSE]
  /\ IF Settleable(r)
     THEN res' = [res EXCEPT ![r] = "committed"] /\ task' = Completed(r)
     ELSE UNCHANGED <<res, task>>
  /\ UNCHANGED <<past, inbox, relayVars, faults>>

Elapse(r) ==
  /\ res[r] # "none" /\ ~past[r]
  /\ past' = [past EXCEPT ![r] = TRUE]
  /\ UNCHANGED <<res, inbox, task, settling, relayVars, faults>>

\* CASExpiredReservationStatus: past the deadline unfinished tasks end with
\* the reservation
Sweep(r) ==
  /\ res[r] = "reserved" /\ past[r]
  /\ res' = [res EXCEPT ![r] = "expired"]
  /\ task' = IF task[r].status = "pending" THEN [task EXCEPT ![r].status = "expired"] ELSE task
  /\ UNCHANGED <<past, inbox, settling, relayVars, faults>>
-----------------------------------------------------------------------------
Attempt(c) ==
  \/ \E r \in Reservations : Reserve(c, r)
  \/ Prepare(c) \/ Decline(c) \/ Send(c)
  \/ Headers(c) \/ Checkpoint(c) \/ Unanswered(c) \/ Abandon(c) \/ Rejected(c) \/ Finish(c)
  \/ Commit(c) \/ SendFinal(c) \/ AckFinal(c) \/ Release(c)

Billing(r) == SettleCheck(r) \/ SettleCommit(r) \/ Elapse(r) \/ Sweep(r)

Next ==
  \/ \E c \in Callers : Attempt(c)
  \/ \E l \in Relays :
       \/ \E r \in Reservations, k \in Categories : Deliver(l, r, k)
       \/ OtherPut(l) \/ OtherAcknowledged(l)
       \/ Crash(l)
  \/ \E r \in Reservations : Billing(r)

Spec == Init /\ [][Next]_vars

\* a relay's worker looks at its pending rows every second, for ever
FairSpec ==
  /\ Spec
  /\ \A l \in Relays, r \in Reservations, k \in Categories : WF_vars(Deliver(l, r, k))
-----------------------------------------------------------------------------
TypeOK ==
  /\ rows \in [Relays -> [Reservations -> [Categories -> {"absent", "pending", "acknowledged"}]]]
  /\ slots \in [Relays -> [Reservations -> SUBSET Slots]]
  /\ said \in [Relays -> [Reservations -> [{"terminal", "final"} -> Verdicts \cup {None}]]]
  /\ others \in [Relays -> 0..MaxEvents]
  /\ sends \in [Relays -> [Reservations -> Nat]]
  /\ call \in [Callers -> [at : Places, res : Reservations \cup {None}, sent : BOOLEAN,
                           failed : BOOLEAN, last : Verdicts \cup {None}]]
  /\ calls \in [Callers -> Nat]
  /\ res \in [Reservations -> {"none", "reserved", "committed", "released", "expired"}]
  /\ past \in [Reservations -> BOOLEAN]
  /\ inbox \in [Reservations -> [Categories -> Relays \cup {None}]]
  /\ task \in [Reservations -> [status : {"none", "pending", "completed", "expired"},
                                verdict : Verdicts \cup {None}]]
  /\ settling \in [Reservations -> BOOLEAN]
  /\ faults \in 0..MaxFaults

\* A user is charged only for an answer the upstream gave and whose verified
\* usage a relay has on disk: durableCommit, AcceptExecution and
\* CommitQuotaWithUsage together.
ChargedOnEvidence ==
  \A r \in Reservations :
    res[r] = "committed" =>
      \E l \in Relays :
        /\ sends[l][r] > 0
        /\ rows[l][r]["terminal"] # "absent" /\ said[l][r]["terminal"] = "verified"

\* A relay sends one request upstream for an intent, whatever is repeated,
\* retried by a forwarder, or forgotten in a crash.
SentOnce == \A l \in Relays, r \in Reservations : sends[l][r] <= 1

\* the slots an attempt still needs
Needed(c) ==
  CASE At(c, "forward") /\ ~call[c].sent -> Slots
    [] At(c, "await")   -> Slots
    [] At(c, "body")    -> {"terminal", "final"}
    [] At(c, "abandon") -> {"terminal"}
    [] At(c, "commit")  -> {"final"}
    [] OTHER            -> {}

\* Until its deadline an admitted attempt has room in the outbox for all it
\* has to write, however full admissions, checkpoints and late evidence of
\* others have made it.
EvidenceHasRoom ==
  /\ \A l \in Relays : Pending(l) + Reserved(slots[l]) <= MaxEvents
  /\ \A c \in Callers :
       Needed(c) # {} =>
         past[call[c].res] \/ Needed(c) \subseteq slots[Mine(c)][call[c].res]

\* No reservation is charged after its evidence deadline, though the
\* settlement was accepted and checked before.
NoLateCharge ==
  [][\A r \in Reservations : res[r] # "committed" /\ res'[r] = "committed" => ~past[r]]_vars

\* In the end billing has every event a relay ever wrote, through crashes and
\* lost calls.
EvidenceArrives ==
  \A l \in Relays, r \in Reservations :
    <>[](\A k \in Categories : rows[l][r][k] # "absent" => inbox[r][k] = l)
=============================================================================
