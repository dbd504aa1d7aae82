----------------------------- MODULE Settlement -----------------------------
(***************************************************************************)
(* Asynchronous settlement: the durable inbox billing_settlement_tasks,    *)
(* the recovery goroutine that claims its rows, the settlement worker that *)
(* runs the commit pipeline, and the jobs that close reservations while    *)
(* tasks are in flight.  Billing processes crash, drain and restart.  The  *)
(* commit itself is one transaction of Wallet.tla; here it is its status   *)
(* change and the cost it charges.                                         *)
(***************************************************************************)
EXTENDS Integers, Sequences, FiniteSets

CONSTANTS
  NRes,          \* reservations, ids 1..NRes
  Procs,         \* billing processes with async settlement
  Callers,       \* gRPC handlers that may fall back to the synchronous commit
  Costs,         \* what the payloads of CommitQuota calls settle at
  QueueCap,      \* cap(settleQueue), also the limit of ListPending
  MaxCrashes,    \* bound: process crashes in a behaviour
  MaxLate        \* bound: claims that get 300 s old in the hands of a live process

ResIds  == 1..NRes
Workers == Procs \cup Callers

ASSUME CountsAssumption ==
  NRes \in Nat /\ QueueCap \in Nat \ {0} /\ MaxCrashes \in Nat /\ MaxLate \in Nat
ASSUME CostsAssumption == Costs \subseteq Nat \ {0}
ASSUME WorkersAssumption == Procs \cap Callers = {}

VARIABLES
  state,       \* reservation status
  charged,     \* what the consume ledger of the reservation adds up to
  overdue,     \* expired_at is in the past
  task,        \* billing_settlement_tasks, the row of a reservation
  acked,       \* the costs whose callers were told the settlement is accepted
  reported,    \* what the channel service recorded for the reservation, once
  expiring,    \* reservations the cleanup job selected and has still to release
  up, loop,    \* process phase; is its recovery goroutine alive
  picked,      \* rows ListPending has read and not yet claimed
  batch,       \* claimed tasks the recovery goroutine has still to enqueue
  queue,       \* settleQueue
  job,         \* what a worker or caller is doing
  reclaimed,   \* has a claim older than 300 s been taken over
  crashes, late

dbVars   == <<state, charged, overdue, task>>
procVars == <<up, loop, picked, batch, queue, crashes, late>>
vars == <<state, charged, overdue, task, acked, reported, expiring,
          up, loop, picked, batch, queue, job, reclaimed, crashes, late>>
-----------------------------------------------------------------------------
\* seq: the id column; due: next_retry_at <= now; stale: updated_at < now - 300;
\* orphaned is history: the goroutine that claimed the row died, or lost the answer
\* to its claim or its mark.
TaskRow == [status : {"none", "pending", "processing", "failed", "completed"},
            seq : Nat, cost : Costs \cup {0}, due : BOOLEAN, stale : BOOLEAN, orphaned : BOOLEAN]
NoTask == [status |-> "none", seq |-> 0, cost |-> 0,
           due |-> FALSE, stale |-> FALSE, orphaned |-> FALSE]

\* SettleTask: the reservation and the payload, a copy of the row's
Task == [id : ResIds, cost : Costs]
Job == [at : {"commit", "report", "complete", "fail"}, id : ResIds, cost : Costs]
Idle == [at |-> "idle", id |-> 0, cost |-> 0]

Active(row) == row.status \in {"pending", "failed", "processing"}

Init ==
  /\ state = [r \in ResIds |-> "none"]
  /\ charged = [r \in ResIds |-> 0]
  /\ overdue = [r \in ResIds |-> FALSE]
  /\ task = [r \in ResIds |-> NoTask]
  /\ acked = [r \in ResIds |-> {}]
  /\ reported = [r \in ResIds |-> 0]
  /\ expiring = {}
  /\ up = [p \in Procs |-> "running"]
  /\ loop = [p \in Procs |-> TRUE]
  /\ picked = [p \in Procs |-> {}]
  /\ batch = [p \in Procs |-> {}]
  /\ queue = [p \in Procs |-> <<>>]
  /\ job = [w \in Workers |-> Idle]
  /\ reclaimed = [r \in ResIds |-> FALSE]
  /\ crashes = 0
  /\ late = 0
-----------------------------------------------------------------------------
(* Reservations outside the settlement path.                                *)

ReserveQuota(r) ==
  /\ state[r] = "none"
  /\ state' = [state EXCEPT ![r] = "reserved"]
  /\ UNCHANGED <<charged, overdue, task, acked, reported, expiring, job, reclaimed>>
  /\ UNCHANGED procVars

\* ReleaseQuota, or a commit with success = false: tasks are not looked at.
ReleaseQuota(r) ==
  /\ state[r] = "reserved"
  /\ state' = [state EXCEPT ![r] = "released"]
  /\ UNCHANGED <<charged, overdue, task, acked, reported, expiring, job, reclaimed>>
  /\ UNCHANGED procVars

ExpiryPasses(r) ==
  /\ state[r] = "reserved" /\ ~ overdue[r]
  /\ overdue' = [overdue EXCEPT ![r] = TRUE]
  /\ UNCHANGED <<state, charged, task, acked, reported, expiring, job, reclaimed>>
  /\ UNCHANGED procVars

\* GetExpiredReservations, and CASExpiredReservationStatus when a selected
\* reservation's turn comes: the transaction checks everything again.
ExpiredAsSelected(r) == state[r] = "reserved" /\ overdue[r]
Expirable(r) == state[r] = "reserved" /\ overdue[r] /\ ~ Active(task[r])

CleanupSelect ==
  /\ expiring = {}
  /\ expiring' = {r \in ResIds : Expirable(r)}
  /\ expiring' # {}
  /\ UNCHANGED <<acked, reported, job, reclaimed>>
  /\ UNCHANGED dbVars /\ UNCHANGED procVars

CleanupRelease(r) ==
  /\ r \in expiring
  /\ expiring' = expiring \ {r}
  /\ state' = IF Expirable(r) THEN [state EXCEPT ![r] = "expired"] ELSE state
  /\ UNCHANGED <<charged, overdue, task, acked, reported, job, reclaimed>>
  /\ UNCHANGED procVars
-----------------------------------------------------------------------------
(* Intake.                                                                  *)

\* The stored digest is the caller's.
AnyPayload(row, cost) == TRUE
SamePayload(row, cost) == row.cost = cost

NewTask(cost) ==
  [status |-> "pending", seq |-> 1 + Cardinality({q \in ResIds : task[q].status # "none"}),
   cost |-> cost, due |-> TRUE, stale |-> FALSE, orphaned |-> FALSE]

\* AcceptTask, when it accepts: a new row, or a replay that changes nothing.
\* Its other outcomes change nothing and tell the caller the settlement is
\* not accepted.
AcceptTask(r, cost) ==
  /\ \/ /\ state[r] = "reserved" /\ task[r].status = "none"
        /\ task' = [task EXCEPT ![r] = NewTask(cost)]
     \/ /\ \/ state[r] = "reserved" /\ Active(task[r])
           \/ state[r] = "committed" /\ task[r].status # "none"
        /\ SamePayload(task[r], cost)
        /\ UNCHANGED task
  /\ acked' = [acked EXCEPT ![r] = @ \cup {cost}]
  /\ UNCHANGED <<state, charged, overdue, reported, expiring, job, reclaimed>>
  /\ UNCHANGED procVars

\* A call without a receipt whose AcceptTask failed in the storage commits
\* synchronously (settleSync).
FallBack(c, r, cost) ==
  /\ job[c] = Idle /\ state[r] # "none"
  /\ job' = [job EXCEPT ![c] = [at |-> "commit", id |-> r, cost |-> cost]]
  /\ UNCHANGED <<acked, reported, expiring, reclaimed>>
  /\ UNCHANGED dbVars /\ UNCHANGED procVars

\* time.Now() moves past next_retry_at, or 300 s past updated_at.
RetryFallsDue(r) ==
  /\ task[r].status = "failed" /\ ~ task[r].due
  /\ task' = [task EXCEPT ![r].due = TRUE]
  /\ UNCHANGED <<state, charged, overdue, acked, reported, expiring, job, reclaimed>>
  /\ UNCHANGED procVars

ClaimGoesStale(r) ==
  /\ task[r].status = "processing" /\ ~ task[r].stale
  /\ \/ task[r].orphaned /\ UNCHANGED late
     \/ ~ task[r].orphaned /\ late < MaxLate /\ late' = late + 1
  /\ task' = [task EXCEPT ![r].stale = TRUE]
  /\ UNCHANGED <<state, charged, overdue, acked, reported, expiring,
                 up, loop, picked, batch, queue, job, reclaimed, crashes>>
-----------------------------------------------------------------------------
(* The recovery goroutine: every tick it selects and claims rows, then      *)
(* enqueues them one by one.                                                *)

PendingOnly(row) == row.status = "pending" /\ row.due
Unstarted(row) == row.status \in {"pending", "failed"} /\ row.due
Claimable(row) == Unstarted(row) \/ (row.status = "processing" /\ row.stale)

\* The WHERE of the claiming UPDATE repeats that of the SELECT.
ClaimUnchecked(row) == Active(row)
StillClaimable(row) == Claimable(row)

\* The first QueueCap candidates in id order.
Candidates == {r \in ResIds : Claimable(task[r])}
Selected ==
  {r \in Candidates :
     Cardinality({q \in Candidates : task[q].seq < task[r].seq}) < QueueCap}

SelectPending(p) ==
  /\ up[p] # "down" /\ loop[p]
  /\ picked[p] = {} /\ batch[p] = {}
  /\ Selected # {}
  /\ picked' = [picked EXCEPT ![p] = Selected]
  /\ UNCHANGED <<acked, reported, expiring, up, loop, batch, queue, job,
                 reclaimed, crashes, late>>
  /\ UNCHANGED dbVars

\* The claiming transaction.  When the answer of its COMMIT is lost the rows are
\* claimed, and ListPending returns an error and no task.
Claim(p, lost) ==
  LET claimed == {r \in picked[p] : StillClaimable(task[r])}
  IN  /\ picked[p] # {}
      /\ picked' = [picked EXCEPT ![p] = {}]
      /\ batch' = [batch EXCEPT ![p] = IF lost THEN {}
                       ELSE {[id |-> r, cost |-> task[r].cost] : r \in claimed}]
      /\ task' = [r \in ResIds |->
                    IF r \in claimed
                    THEN [task[r] EXCEPT !.status = "processing",
                                         !.stale = FALSE, !.orphaned = lost]
                    ELSE task[r]]
      /\ reclaimed' = [r \in ResIds |->
                         reclaimed[r] \/ (r \in claimed /\ task[r].stale)]
      /\ UNCHANGED <<state, charged, overdue, acked, reported, expiring,
                     up, loop, queue, job, crashes, late>>

ClaimPending(p) == Claim(p, FALSE)
ClaimLost(p) == Claim(p, TRUE)

\* MarkFailed and MarkCompleted look for a row in processing, whoever claimed it.
Marked(r, status) ==
  IF task[r].status = "processing"
  THEN [task EXCEPT ![r] = [@ EXCEPT !.status = status, !.due = FALSE,
                                     !.stale = FALSE, !.orphaned = FALSE]]
  ELSE task
MarkFailed(r) == task' = Marked(r, "failed")
MarkCompleted(r) == task' = Marked(r, "completed")

\* The claims a process gives up are orphaned.
Orphan(ids) ==
  [r \in ResIds |-> IF r \in ids /\ task[r].status = "processing"
                    THEN [task[r] EXCEPT !.orphaned = TRUE] ELSE task[r]]

FullOneLate(p) == Len(queue[p]) > QueueCap
Full(p) == Len(queue[p]) >= QueueCap

\* A task that finds the queue full is marked failed; the error of the mark is
\* ignored, so a mark that is lost leaves the row in processing.
Enqueue(p) ==
  \E t \in batch[p] :
    /\ \A other \in batch[p] : task[t.id].seq <= task[other.id].seq
    /\ batch' = [batch EXCEPT ![p] = @ \ {t}]
    /\ \/ /\ ~ Full(p)
          /\ queue' = [queue EXCEPT ![p] = Append(@, t)]
          /\ UNCHANGED task
       \/ /\ Full(p)
          /\ MarkFailed(t.id) \/ task' = Orphan({t.id})
          /\ UNCHANGED queue
    /\ UNCHANGED <<state, charged, overdue, acked, reported, expiring,
                   up, loop, picked, job, reclaimed, crashes, late>>

\* How many claims of the row of r process p has in memory.
Held(p, r) ==
  Cardinality({t \in batch[p] : t.id = r})
    + Cardinality({i \in 1..Len(queue[p]) : queue[p][i].id = r})
    + (IF job[p].id = r THEN 1 ELSE 0)
-----------------------------------------------------------------------------
(* The settlement worker, and runCommitPipeline step by step.               *)
TakeTask(p) ==
  /\ up[p] # "down"
  /\ job[p] = Idle /\ queue[p] # <<>>
  /\ queue' = [queue EXCEPT ![p] = Tail(@)]
  /\ job' = [job EXCEPT ![p] = [at |-> "commit", id |-> Head(queue[p]).id,
                                cost |-> Head(queue[p]).cost]]
  /\ UNCHANGED <<acked, reported, expiring, up, loop, picked, batch,
                 reclaimed, crashes, late>>
  /\ UNCHANGED dbVars

\* The compare-and-set of the commit: only a reserved row is charged.
CanChargeUnlessClosed(r) == state[r] \in {"reserved", "committed"}
CanCharge(r) == state[r] = "reserved"

\* CommitQuotaWithUsageAndSplit: won, or the stored result of a row already
\* closed.  A committed amount goes on to the quota report.
NextStageUnreported(status) == "complete"
NextStage(status) == IF status = "committed" THEN "report" ELSE "complete"

CommitQuota(w) ==
  LET r == job[w].id
  IN  /\ job[w].at = "commit"
      /\ IF CanCharge(r)
         THEN /\ state' = [state EXCEPT ![r] = "committed"]
              /\ charged' = [charged EXCEPT ![r] = @ + job[w].cost]
         ELSE UNCHANGED <<state, charged>>
      /\ job' = [job EXCEPT ![w].at = NextStage(state'[r])]
      /\ UNCHANGED <<overdue, task, acked, reported, expiring, reclaimed>>
      /\ UNCHANGED procVars

\* RecordSubscriptionAccountQuotaUsage, deduplicated by reservation at the
\* channel service.
ReportUsage(w) ==
  LET r == job[w].id
  IN  /\ job[w].at = "report"
      /\ reported' = IF reported[r] = 0 THEN [reported EXCEPT ![r] = charged[r]] ELSE reported
      /\ job' = [job EXCEPT ![w].at = "complete"]
      /\ UNCHANGED <<acked, expiring, reclaimed>>
      /\ UNCHANGED dbVars /\ UNCHANGED procVars

\* A commit that rolls back or a report that is refused: the error is marked.
PipelineFails(w) ==
  /\ job[w].at \in {"commit", "report"}
  /\ job' = [job EXCEPT ![w].at = "fail"]
  /\ UNCHANGED <<acked, reported, expiring, reclaimed>>
  /\ UNCHANGED dbVars /\ UNCHANGED procVars

\* A caller that gets here is told the settlement succeeded, whatever it
\* found the reservation in.
Complete(w) ==
  /\ job[w].at = "complete"
  /\ MarkCompleted(job[w].id)
  /\ acked' = IF w \in Callers
              THEN [acked EXCEPT ![job[w].id] = @ \cup {job[w].cost}] ELSE acked
  /\ job' = [job EXCEPT ![w] = Idle]
  /\ UNCHANGED <<state, charged, overdue, reported, expiring, reclaimed>>
  /\ UNCHANGED procVars

Fail(w) ==
  /\ job[w].at = "fail"
  /\ MarkFailed(job[w].id)
  /\ job' = [job EXCEPT ![w] = Idle]
  /\ UNCHANGED <<state, charged, overdue, acked, reported, expiring, reclaimed>>
  /\ UNCHANGED procVars

\* A recovered panic, or a mark whose write is lost: the row stays processing.
Abandon(w) ==
  /\ job[w] # Idle
  /\ job' = [job EXCEPT ![w] = Idle]
  /\ task' = IF w \in Procs THEN Orphan({job[w].id}) ELSE task
  /\ UNCHANGED <<state, charged, overdue, acked, reported, expiring, reclaimed>>
  /\ UNCHANGED procVars
-----------------------------------------------------------------------------
(* Processes.  Close stops the recovery goroutine, which finishes the batch  *)
(* it has claimed, and drains the queue; a crash loses what is in memory.   *)
Close(p) ==
  /\ up[p] = "running"
  /\ up' = [up EXCEPT ![p] = "closing"]
  /\ UNCHANGED <<acked, reported, expiring, loop, picked, batch, queue, job,
                 reclaimed, crashes, late>>
  /\ UNCHANGED dbVars

StopRecovery(p) ==
  /\ up[p] = "closing" /\ loop[p]
  /\ picked[p] = {} /\ batch[p] = {}
  /\ loop' = [loop EXCEPT ![p] = FALSE]
  /\ UNCHANGED <<acked, reported, expiring, up, picked, batch, queue, job,
                 reclaimed, crashes, late>>
  /\ UNCHANGED dbVars

DrainedAtOnce(p) == TRUE
Drained(p) == ~ loop[p] /\ queue[p] = <<>> /\ job[p] = Idle

\* What dies with a process.
MemoryGone(p) ==
  /\ up' = [up EXCEPT ![p] = "down"]
  /\ loop' = [loop EXCEPT ![p] = FALSE]
  /\ picked' = [picked EXCEPT ![p] = {}]
  /\ batch' = [batch EXCEPT ![p] = {}]
  /\ queue' = [queue EXCEPT ![p] = <<>>]
  /\ job' = [job EXCEPT ![p] = Idle]
  /\ UNCHANGED <<state, charged, overdue, acked, reported, expiring, reclaimed>>

Exit(p) ==
  /\ up[p] = "closing" /\ Drained(p)
  /\ MemoryGone(p)
  /\ UNCHANGED <<task, crashes, late>>

Crash(p) ==
  /\ up[p] # "down" /\ crashes < MaxCrashes
  /\ crashes' = crashes + 1
  /\ MemoryGone(p)
  /\ task' = Orphan({r \in ResIds : Held(p, r) > 0})
  /\ UNCHANGED late

Restart(p) ==
  /\ up[p] = "down"
  /\ up' = [up EXCEPT ![p] = "running"]
  /\ loop' = [loop EXCEPT ![p] = TRUE]
  /\ UNCHANGED <<acked, reported, expiring, picked, batch, queue, job,
                 reclaimed, crashes, late>>
  /\ UNCHANGED dbVars
-----------------------------------------------------------------------------
ReservationStep(r) ==
  \/ ReserveQuota(r) \/ ReleaseQuota(r) \/ ExpiryPasses(r) \/ CleanupRelease(r)
  \/ RetryFallsDue(r) \/ ClaimGoesStale(r)
  \/ \E cost \in Costs : AcceptTask(r, cost) \/ \E c \in Callers : FallBack(c, r, cost)

PipelineStep(w) ==
  CommitQuota(w) \/ ReportUsage(w) \/ PipelineFails(w) \/ Complete(w) \/ Fail(w) \/ Abandon(w)

ProcessStep(p) ==
  \/ SelectPending(p) \/ ClaimPending(p) \/ ClaimLost(p) \/ Enqueue(p) \/ TakeTask(p)
  \/ Close(p) \/ StopRecovery(p) \/ Exit(p) \/ Crash(p) \/ Restart(p)

Next ==
  \/ CleanupSelect
  \/ \E r \in ResIds : ReservationStep(r)
  \/ \E w \in Workers : PipelineStep(w)
  \/ \E p \in Procs : ProcessStep(p)

Spec == Init /\ [][Next]_vars

\* Timers fire, goroutines that can run do, a stopped process is started again
\* and is not always stopped before its first tick; a claim, a commit, a report
\* or a mark that is tried again and again succeeds at last.
Fairness ==
  /\ \A r \in ResIds : WF_vars(RetryFallsDue(r)) /\ WF_vars(ClaimGoesStale(r))
  /\ \A p \in Procs :
       /\ SF_vars(SelectPending(p)) /\ SF_vars(ClaimPending(p)) /\ WF_vars(Enqueue(p))
       /\ WF_vars(TakeTask(p)) /\ WF_vars(Fail(p))
       /\ WF_vars(StopRecovery(p)) /\ WF_vars(Exit(p)) /\ WF_vars(Restart(p))
       /\ SF_vars(CommitQuota(p)) /\ SF_vars(ReportUsage(p)) /\ SF_vars(Complete(p))

FairSpec == Spec /\ Fairness
-----------------------------------------------------------------------------
\* Rows, queues and jobs have their types; a queue never exceeds its capacity.
TypeOK ==
  /\ state \in [ResIds -> {"none", "reserved", "committed", "released", "expired"}]
  /\ charged \in [ResIds -> Nat]
  /\ overdue \in [ResIds -> BOOLEAN]
  /\ task \in [ResIds -> TaskRow]
  /\ acked \in [ResIds -> SUBSET Costs]
  /\ reported \in [ResIds -> Nat]
  /\ expiring \in SUBSET ResIds
  /\ up \in [Procs -> {"running", "closing", "down"}]
  /\ loop \in [Procs -> BOOLEAN]
  /\ picked \in [Procs -> SUBSET ResIds]
  /\ batch \in [Procs -> SUBSET Task]
  /\ queue \in [Procs -> Seq(Task)] /\ \A p \in Procs : Len(queue[p]) <= QueueCap
  /\ job \in [Workers -> Job \cup {Idle}]
  /\ reclaimed \in [ResIds -> BOOLEAN]
  /\ crashes \in 0..MaxCrashes
  /\ late \in 0..MaxLate

\* The first payload accepted for a reservation is the one that is charged:
\* two callers are never told that different costs are accepted, and what is
\* charged at last, after any crash and recovery, is what was accepted.
\* Without receipts a fallback commits whatever its caller sent, so this is
\* about runs without Callers.
AcceptedIsCharged ==
  \A r \in ResIds : /\ Cardinality(acked[r]) <= 1
                    /\ state[r] = "committed" => acked[r] = {charged[r]}

\* A reservation with an accepted settlement is not closed by its expiry,
\* however late the task is settled and whenever the cleanup selected it.
AcceptedNeverExpires == \A r \in ResIds : state[r] = "expired" => acked[r] = {}

\* A completed task has done everything: the reservation is closed and a
\* charge has been reported to the channel service.
CompletedIsDone ==
  \A r \in ResIds : task[r].status = "completed" =>
    /\ state[r] \in {"committed", "released", "expired"}
    /\ reported[r] = charged[r]

\* A task is in the hands of one goroutine, unless a claim of 300 s was taken
\* over: two replicas never claim a row together.
OneHolder ==
  \A r \in ResIds : ~ reclaimed[r] =>
    /\ \A p \in Procs : Held(p, r) <= 1
    /\ \A p, q \in Procs : Held(p, r) > 0 /\ Held(q, r) > 0 => p = q

\* A claimed row is always in somebody's hands: a full queue, a Close that
\* drains, a takeover or a late mark never leaves one in processing for nobody.
ClaimsAreHeld ==
  \A r \in ResIds : task[r].status = "processing" /\ ~ task[r].orphaned =>
    \E p \in Procs : Held(p, r) > 0

\* The settlement path keeps the exactly-once promise of Reservation.tla.
Promise == INSTANCE Reservation WITH Requests <- ResIds, state <- state, charge <- charged
SettlesLikeReservation == Promise!ReservationSpec

\* Every accepted settlement is completed at last, across crashes and full
\* queues: AcceptTask promises it with its row in the table.
TasksComplete ==
  \A r \in ResIds : task[r].status # "none" ~> task[r].status = "completed"
=============================================================================
