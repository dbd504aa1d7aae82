-------------------------- MODULE SettlementProofs --------------------------
(***************************************************************************)
(* Proofs about asynchronous settlement: types, what a completed task has  *)
(* done, what an accepted settlement is charged, and the exactly-once      *)
(* promise of Reservation.tla, for any number of reservations, replicas,   *)
(* queue slots, crashes and late claims.                                   *)
(***************************************************************************)
EXTENDS Settlement, FiniteSetTheorems, TLAPS

\* TypeOK, and a stored task has a real payload: what is copied into a batch,
\* a queue or a job is a SettleTask.
Stored(r) == task[r].status # "none"
Typed == TypeOK /\ \A r \in ResIds : Stored(r) => task[r].cost \in Costs

\* What every write to the inbox but the insertion does to its rows.
RowsKept ==
  /\ task' \in [ResIds -> TaskRow]
  /\ \A q \in ResIds : task'[q].cost = task[q].cost /\ (Stored(q)' <=> Stored(q))

LEMMA UnchangedRows == ASSUME Typed, UNCHANGED task PROVE RowsKept
BY DEF Typed, TypeOK, RowsKept, Stored

LEMMA MarkedRows ==
  ASSUME Typed, NEW r \in ResIds, NEW status \in {"failed", "completed"},
         task' = Marked(r, status)
  PROVE  RowsKept
BY DEF Typed, TypeOK, RowsKept, Stored, Marked, TaskRow

LEMMA OrphanRows ==
  ASSUME Typed, NEW ids, task' = Orphan(ids)
  PROVE  RowsKept
<1>1. task \in [ResIds -> TaskRow]
  BY DEF Typed, TypeOK
<1>2. ASSUME NEW q \in ResIds
      PROVE  task'[q] \in TaskRow /\ task'[q].cost = task[q].cost /\ (Stored(q)' <=> Stored(q))
  <2>1. task[q] \in TaskRow
    BY <1>1
  <2>2. \/ task'[q] = task[q]
        \/ task[q].status = "processing" /\ task'[q] = [task[q] EXCEPT !.orphaned = TRUE]
    BY DEF Orphan
  <2> QED BY <2>1, <2>2 DEF TaskRow, Stored
<1>3. task' = [q \in ResIds |-> task'[q]]
  BY DEF Orphan
<1> QED BY <1>2, <1>3 DEF RowsKept

LEMMA OrphanCompletes ==
  ASSUME Typed, NEW ids, task' = Orphan(ids), NEW q \in ResIds
  PROVE  task'[q].status = task[q].status
<1>1. task[q] \in TaskRow
  BY DEF Typed, TypeOK
<1> QED BY <1>1 DEF Orphan, TaskRow

LEMMA ClaimedRows ==
  ASSUME Typed, NEW claimed \in SUBSET ResIds, NEW lost \in BOOLEAN,
         \A r \in claimed : Stored(r),
         task' = [r \in ResIds |->
                    IF r \in claimed
                    THEN [task[r] EXCEPT !.status = "processing",
                                         !.stale = FALSE, !.orphaned = lost]
                    ELSE task[r]]
  PROVE  RowsKept
<1>1. task \in [ResIds -> TaskRow]
  BY DEF Typed, TypeOK
<1>2. ASSUME NEW q \in ResIds
      PROVE  task'[q] \in TaskRow /\ task'[q].cost = task[q].cost /\ (Stored(q)' <=> Stored(q))
  <2>1. task[q] \in TaskRow
    BY <1>1
  <2>2. \/ task'[q] = task[q]
        \/ /\ Stored(q)
           /\ task'[q] = [task[q] EXCEPT !.status = "processing",
                                         !.stale = FALSE, !.orphaned = lost]
    OBVIOUS
  <2> QED BY <2>1, <2>2 DEF TaskRow, Stored
<1>3. task' = [q \in ResIds |-> task'[q]]
  OBVIOUS
<1> QED BY <1>2, <1>3 DEF RowsKept

LEMMA TimedRows ==
  ASSUME Typed, NEW r \in ResIds,
         \/ task' = [task EXCEPT ![r].due = TRUE]
         \/ task' = [task EXCEPT ![r].stale = TRUE]
  PROVE  RowsKept
<1>1. task \in [ResIds -> TaskRow]
  BY DEF Typed, TypeOK
<1>2. /\ [task[r] EXCEPT !.due = TRUE] \in TaskRow
      /\ [task[r] EXCEPT !.stale = TRUE] \in TaskRow
  BY <1>1 DEF TaskRow
<1>3. task' \in [ResIds -> TaskRow]
  BY <1>1, <1>2
<1>4. ASSUME NEW q \in ResIds
      PROVE  task'[q].cost = task[q].cost /\ (Stored(q)' <=> Stored(q))
  <2>1. task[q] \in TaskRow
    BY <1>1
  <2>2. \/ task'[q] = task[q]
        \/ task'[q] = [task[q] EXCEPT !.due = TRUE]
        \/ task'[q] = [task[q] EXCEPT !.stale = TRUE]
    BY <1>1
  <2> QED BY <2>1, <2>2 DEF TaskRow, Stored
<1> QED BY <1>3, <1>4 DEF RowsKept

LEMMA NewTaskTyped ==
  ASSUME Typed, NEW r \in ResIds, NEW cost \in Costs
  PROVE  NewTask(cost) \in TaskRow
<1>1. IsFiniteSet(ResIds)
  BY CountsAssumption, FS_Interval DEF ResIds
<1>2. Cardinality({q \in ResIds : task[q].status # "none"}) \in Nat
  BY <1>1, FS_Subset, FS_CardinalityType
<1> QED BY <1>2 DEF NewTask, TaskRow

LEMMA InitTyped == Init => Typed
BY CountsAssumption DEF Init, Typed, TypeOK, Stored, TaskRow, NoTask, Job, Idle

LEMMA ReservationTyped ==
  ASSUME Typed, NEW r \in ResIds, ReservationStep(r)
  PROVE  Typed'
<1> USE DEF procVars, dbVars
<1>1. CASE ReserveQuota(r) \/ ReleaseQuota(r) \/ ExpiryPasses(r) \/ CleanupRelease(r)
  <2>1. /\ UNCHANGED <<charged, task, acked, reported, job, reclaimed>>
        /\ UNCHANGED procVars
    BY <1>1 DEF ReserveQuota, ReleaseQuota, ExpiryPasses, CleanupRelease
  <2>2. /\ state' \in [ResIds -> {"none", "reserved", "committed", "released", "expired"}]
        /\ overdue' \in [ResIds -> BOOLEAN]
        /\ expiring' \in SUBSET ResIds
    BY <1>1 DEF ReserveQuota, ReleaseQuota, ExpiryPasses, CleanupRelease, Typed, TypeOK
  <2> QED BY <2>1, <2>2 DEF Typed, TypeOK, Stored
<1>2. CASE RetryFallsDue(r)
  <2>1. RowsKept
    BY <1>2, TimedRows DEF RetryFallsDue
  <2> QED BY <1>2, <2>1 DEF RetryFallsDue, Typed, TypeOK, RowsKept, Stored
<1>3. CASE ClaimGoesStale(r)
  <2>1. late' \in 0..MaxLate
    BY <1>3, CountsAssumption DEF ClaimGoesStale, Typed, TypeOK
  <2>2. crashes' \in 0..MaxCrashes
    BY <1>3 DEF ClaimGoesStale, Typed, TypeOK
  <2>3. RowsKept
    BY <1>3, TimedRows DEF ClaimGoesStale
  <2> QED BY <1>3, <2>1, <2>2, <2>3 DEF ClaimGoesStale, Typed, TypeOK, RowsKept, Stored
<1>4. ASSUME NEW cost \in Costs, AcceptTask(r, cost) PROVE Typed'
  <2>1. /\ task' \in [ResIds -> TaskRow]
        /\ \A q \in ResIds : Stored(q)' => task'[q].cost \in Costs
    <3>1. CASE task' = [task EXCEPT ![r] = NewTask(cost)]
      <4>1. NewTask(cost) \in TaskRow /\ NewTask(cost).cost = cost
        BY NewTaskTyped DEF NewTask
      <4> HIDE DEF NewTask
      <4> QED BY <3>1, <4>1 DEF Typed, TypeOK, Stored
    <3>2. CASE UNCHANGED task
      BY <3>2 DEF Typed, TypeOK, Stored
    <3> QED BY <1>4, <3>1, <3>2 DEF AcceptTask
  <2>2. acked' \in [ResIds -> SUBSET Costs]
    BY <1>4 DEF AcceptTask, Typed, TypeOK
  <2> QED BY <1>4, <2>1, <2>2 DEF AcceptTask, Typed, TypeOK
<1>5. ASSUME NEW cost \in Costs, NEW c \in Callers, FallBack(c, r, cost) PROVE Typed'
  <2>1. job' \in [Workers -> Job \cup {Idle}]
    BY <1>5 DEF FallBack, Typed, TypeOK, Job, Workers
  <2> QED BY <1>5, <2>1 DEF FallBack, Typed, TypeOK, Stored
<1> QED BY <1>1, <1>2, <1>3, <1>4, <1>5 DEF ReservationStep

\* Marks, and the other steps of a job, leave the columns of the reservation
\* in their types.
LEMMA PipelineTyped ==
  ASSUME Typed, NEW w \in Workers, PipelineStep(w)
  PROVE  Typed'
<1> USE DEF procVars, dbVars
<1>1. job \in [Workers -> Job \cup {Idle}]
  BY DEF Typed, TypeOK
<1>2. job[w] # Idle => job[w] \in Job /\ job[w].id \in ResIds /\ job[w].cost \in Costs
  BY <1>1 DEF Job
<1>3. ASSUME NEW at \in {"commit", "report", "complete", "fail"}, job[w] # Idle
      PROVE  [job EXCEPT ![w].at = at] \in [Workers -> Job \cup {Idle}]
  <2>1. [job[w] EXCEPT !.at = at] \in Job
    BY <1>2, <1>3 DEF Job
  <2> QED BY <1>1, <2>1
<1>4. [job EXCEPT ![w] = Idle] \in [Workers -> Job \cup {Idle}]
  BY <1>1
<1>5. CASE CommitQuota(w)
  <2>1. job[w] # Idle
    BY <1>5 DEF CommitQuota, Idle
  <2>2. NextStage(state'[job[w].id]) \in {"commit", "report", "complete", "fail"}
    BY DEF NextStage
  <2>3. job' \in [Workers -> Job \cup {Idle}]
    BY <1>3, <1>5, <2>1, <2>2 DEF CommitQuota
  <2>4. /\ state' \in [ResIds -> {"none", "reserved", "committed", "released", "expired"}]
        /\ charged' \in [ResIds -> Nat]
    <3>1. job[w].id \in ResIds /\ job[w].cost \in Nat
      BY <1>2, <2>1, CostsAssumption
    <3>2. CASE /\ state' = [state EXCEPT ![job[w].id] = "committed"]
               /\ charged' = [charged EXCEPT ![job[w].id] = @ + job[w].cost]
      BY <3>1, <3>2 DEF Typed, TypeOK
    <3>3. CASE UNCHANGED <<state, charged>>
      BY <3>3 DEF Typed, TypeOK
    <3> QED BY <1>5, <3>2, <3>3 DEF CommitQuota
  <2> QED BY <1>5, <2>3, <2>4 DEF CommitQuota, Typed, TypeOK, Stored
<1>6. CASE ReportUsage(w)
  <2>1. job[w] # Idle
    BY <1>6 DEF ReportUsage, Idle
  <2>2. job' \in [Workers -> Job \cup {Idle}]
    BY <1>3, <1>6, <2>1 DEF ReportUsage
  <2>3. reported' \in [ResIds -> Nat]
    BY <1>2, <1>6, <2>1 DEF ReportUsage, Typed, TypeOK
  <2> QED BY <1>6, <2>2, <2>3 DEF ReportUsage, Typed, TypeOK, Stored
<1>7. CASE PipelineFails(w)
  <2>1. job[w] # Idle
    BY <1>7 DEF PipelineFails, Idle
  <2>2. job' \in [Workers -> Job \cup {Idle}]
    BY <1>3, <1>7, <2>1 DEF PipelineFails
  <2> QED BY <1>7, <2>2 DEF PipelineFails, Typed, TypeOK, Stored
<1>8. CASE Complete(w)
  <2>1. job[w] # Idle
    BY <1>8 DEF Complete, Idle
  <2>2. RowsKept
    BY <1>2, <1>8, <2>1, MarkedRows DEF Complete, MarkCompleted
  <2>3. job' \in [Workers -> Job \cup {Idle}]
    BY <1>4, <1>8 DEF Complete
  <2>4. acked' \in [ResIds -> SUBSET Costs]
    BY <1>2, <1>8, <2>1 DEF Complete, Typed, TypeOK
  <2> QED BY <1>8, <2>2, <2>3, <2>4 DEF Complete, Typed, TypeOK, RowsKept, Stored
<1>9. CASE Fail(w)
  <2>1. job[w] # Idle
    BY <1>9 DEF Fail, Idle
  <2>2. RowsKept
    BY <1>2, <1>9, <2>1, MarkedRows DEF Fail, MarkFailed
  <2>3. job' \in [Workers -> Job \cup {Idle}]
    BY <1>4, <1>9 DEF Fail
  <2> QED BY <1>9, <2>2, <2>3 DEF Fail, Typed, TypeOK, RowsKept, Stored
<1>10. CASE Abandon(w)
  <2>1. RowsKept
    BY <1>10, OrphanRows, UnchangedRows DEF Abandon
  <2>2. job' \in [Workers -> Job \cup {Idle}]
    BY <1>4, <1>10 DEF Abandon
  <2> QED BY <1>10, <2>1, <2>2 DEF Abandon, Typed, TypeOK, RowsKept, Stored
<1> QED BY <1>5, <1>6, <1>7, <1>8, <1>9, <1>10 DEF PipelineStep

LEMMA ProcessTyped ==
  ASSUME Typed, NEW p \in Procs, ProcessStep(p)
  PROVE  Typed'
<1> USE DEF dbVars
<1>1. /\ task \in [ResIds -> TaskRow]
      /\ picked \in [Procs -> SUBSET ResIds]
      /\ batch \in [Procs -> SUBSET Task]
      /\ queue \in [Procs -> Seq(Task)]
      /\ job \in [Workers -> Job \cup {Idle}]
      /\ p \in Workers
  BY DEF Typed, TypeOK, Workers
<1>2. CASE SelectPending(p)
  BY <1>2 DEF SelectPending, Selected, Candidates, Typed, TypeOK, Stored
<1>3. CASE ClaimPending(p) \/ ClaimLost(p)
  <2>0. PICK lost \in BOOLEAN : Claim(p, lost)
    BY <1>3 DEF ClaimPending, ClaimLost
  <2> DEFINE claimed == {r \in picked[p] : StillClaimable(task[r])}
  <2>1. claimed \in SUBSET ResIds /\ \A r \in claimed : Stored(r)
    BY <1>1 DEF StillClaimable, Claimable, Unstarted, Stored
  <2>2. task' = [r \in ResIds |->
                   IF r \in claimed
                   THEN [task[r] EXCEPT !.status = "processing",
                                        !.stale = FALSE, !.orphaned = lost]
                   ELSE task[r]]
    BY <2>0 DEF Claim
  <2>3. batch' = [batch EXCEPT ![p] = IF lost THEN {}
                    ELSE {[id |-> r, cost |-> task[r].cost] : r \in claimed}]
    BY <2>0 DEF Claim
  <2>4. reclaimed' \in [ResIds -> BOOLEAN]
    BY <2>0 DEF Claim, Typed, TypeOK
  <2> HIDE DEF claimed
  <2>5. RowsKept
    BY <2>1, <2>2, ClaimedRows
  <2>6. batch' \in [Procs -> SUBSET Task]
    <3>1. \A r \in claimed : task[r].cost \in Costs
      BY <2>1 DEF Typed
    <3> QED BY <1>1, <2>1, <2>3, <3>1 DEF Task
  <2>7. picked' \in [Procs -> SUBSET ResIds]
    BY <1>1, <2>0 DEF Claim
  <2> QED BY <2>0, <2>4, <2>5, <2>6, <2>7 DEF Claim, Typed, TypeOK, RowsKept, Stored
<1>4. CASE Enqueue(p)
  <2>1. PICK t \in batch[p] :
          /\ batch' = [batch EXCEPT ![p] = @ \ {t}]
          /\ \/ ~ Full(p) /\ queue' = [queue EXCEPT ![p] = Append(@, t)] /\ UNCHANGED task
             \/ MarkFailed(t.id) /\ UNCHANGED queue
             \/ task' = Orphan({t.id}) /\ UNCHANGED queue
    BY <1>4 DEF Enqueue
  <2>2. t \in Task /\ t.id \in ResIds
    BY <1>1, <2>1 DEF Task
  <2>3. RowsKept
    BY <2>1, <2>2, UnchangedRows, MarkedRows, OrphanRows DEF MarkFailed
  <2>4. batch' \in [Procs -> SUBSET Task]
    BY <1>1, <2>1
  <2>5. queue' \in [Procs -> Seq(Task)] /\ \A q \in Procs : Len(queue'[q]) <= QueueCap
    <3>1. CASE UNCHANGED queue
      BY <3>1 DEF Typed, TypeOK
    <3>2. CASE ~ Full(p) /\ queue' = [queue EXCEPT ![p] = Append(@, t)]
      <4>1. queue[p] \in Seq(Task) /\ Len(queue[p]) < QueueCap
        BY <1>1, <3>2, CountsAssumption DEF Full
      <4>2. Append(queue[p], t) \in Seq(Task) /\ Len(Append(queue[p], t)) <= QueueCap
        BY <2>2, <4>1, CountsAssumption
      <4> QED BY <1>1, <3>2, <4>2 DEF Typed, TypeOK
    <3> QED BY <2>1, <3>1, <3>2
  <2> QED BY <1>4, <2>3, <2>4, <2>5 DEF Enqueue, Typed, TypeOK, RowsKept, Stored
<1>5. CASE TakeTask(p)
  <2>1. queue[p] \in Seq(Task) /\ queue[p] # <<>> /\ Len(queue[p]) <= QueueCap
    BY <1>1, <1>5 DEF TakeTask, Typed, TypeOK
  <2>2. Head(queue[p]) \in Task /\ Tail(queue[p]) \in Seq(Task) /\ Len(Tail(queue[p])) <= QueueCap
    BY <2>1, CountsAssumption
  <2>3. queue' \in [Procs -> Seq(Task)] /\ \A q \in Procs : Len(queue'[q]) <= QueueCap
    BY <1>1, <1>5, <2>2 DEF TakeTask, Typed, TypeOK
  <2>4. job' \in [Workers -> Job \cup {Idle}]
    <3>1. [at |-> "commit", id |-> Head(queue[p]).id, cost |-> Head(queue[p]).cost] \in Job
      BY <2>2 DEF Task, Job
    <3> QED BY <1>1, <1>5, <3>1 DEF TakeTask
  <2> QED BY <1>5, <2>3, <2>4 DEF TakeTask, Typed, TypeOK, Stored
<1>6. CASE Close(p) \/ StopRecovery(p) \/ Restart(p)
  <2>1. /\ UNCHANGED <<acked, reported, expiring, picked, batch, queue, job, reclaimed, crashes, late>>
        /\ UNCHANGED dbVars
    BY <1>6 DEF Close, StopRecovery, Restart
  <2>2. up' \in [Procs -> {"running", "closing", "down"}] /\ loop' \in [Procs -> BOOLEAN]
    BY <1>6 DEF Close, StopRecovery, Restart, Typed, TypeOK
  <2> QED BY <2>1, <2>2 DEF Typed, TypeOK, Stored
<1>7. CASE Exit(p) \/ Crash(p)
  <2>1. MemoryGone(p)
    BY <1>7 DEF Exit, Crash
  <2>2. RowsKept
    BY <1>7, UnchangedRows, OrphanRows DEF Exit, Crash
  <2>3. crashes' \in 0..MaxCrashes /\ UNCHANGED late
    BY <1>7, CountsAssumption DEF Exit, Crash, Typed, TypeOK
  <2>4. queue' \in [Procs -> Seq(Task)] /\ \A q \in Procs : Len(queue'[q]) <= QueueCap
    <3>1. <<>> \in Seq(Task) /\ Len(<<>>) <= QueueCap
      BY CountsAssumption
    <3> QED BY <1>1, <2>1, <3>1 DEF MemoryGone, Typed, TypeOK
  <2>5. /\ up' \in [Procs -> {"running", "closing", "down"}] /\ loop' \in [Procs -> BOOLEAN]
        /\ picked' \in [Procs -> SUBSET ResIds] /\ batch' \in [Procs -> SUBSET Task]
        /\ job' \in [Workers -> Job \cup {Idle}]
    BY <1>1, <2>1 DEF MemoryGone, Typed, TypeOK
  <2> QED BY <2>1, <2>2, <2>3, <2>4, <2>5 DEF MemoryGone, Typed, TypeOK, RowsKept, Stored
<1> QED BY <1>2, <1>3, <1>4, <1>5, <1>6, <1>7 DEF ProcessStep

LEMMA CleanupTyped == Typed /\ CleanupSelect => Typed'
BY DEF CleanupSelect, dbVars, procVars, Typed, TypeOK, Stored

LEMMA StepTyped == Typed /\ [Next]_vars => Typed'
<1>1. CASE UNCHANGED vars
  BY <1>1 DEF vars, Typed, TypeOK, Stored
<1> QED BY <1>1, CleanupTyped, ReservationTyped, PipelineTyped, ProcessTyped DEF Next

\* Every row, batch, queue and job keeps its type, and no queue is ever longer
\* than its capacity, whatever a full queue, a crash or a takeover does.
THEOREM SettlementTypes == Spec => []TypeOK
<1>1. Spec => []Typed
  BY InitTyped, StepTyped, PTL DEF Spec
<1>2. Typed => TypeOK
  BY DEF Typed
<1> QED BY <1>1, <1>2, PTL

-----------------------------------------------------------------------------
(* What makes CompletedIsDone inductive: where a job stands tells how far   *)
(* its reservation is, and a copy in memory is a copy of a stored row.      *)
Closed == {"committed", "released", "expired"}
Done(r) == state[r] \in Closed /\ reported[r] = charged[r]

RowSound(r) ==
  /\ Stored(r) => state[r] # "none"
  /\ state[r] # "committed" => charged[r] = 0
  /\ reported[r] \in {0, charged[r]}
  /\ task[r].status = "completed" => Done(r)

JobSound(w) ==
  job[w] # Idle =>
    /\ state[job[w].id] # "none"
    /\ job[w].at = "report" => state[job[w].id] = "committed"
    /\ job[w].at = "complete" => Done(job[w].id)

CopySound(t) == Stored(t.id) /\ t.cost = task[t.id].cost

CopiesSound(p) ==
  /\ \A t \in batch[p] : CopySound(t)
  /\ \A i \in 1..Len(queue[p]) : CopySound(queue[p][i])
  /\ job[p] # Idle => CopySound(job[p])

Sound ==
  /\ \A r \in ResIds : RowSound(r)
  /\ \A w \in Workers : JobSound(w)
  /\ \A p \in Procs : CopiesSound(p)

\* A reservation only moves forward.
Advances(r) ==
  /\ state[r] # "none" => state'[r] # "none"
  /\ state[r] \in Closed => state'[r] = state[r] /\ charged'[r] = charged[r]
  /\ reported'[r] \in {reported[r], charged'[r]}

\* A stored payload stays what it is.
Grows == \A r \in ResIds : Stored(r) => Stored(r)' /\ task'[r].cost = task[r].cost

LEMMA RowsGrow == RowsKept => Grows
BY DEF RowsKept, Grows

LEMMA JobKept ==
  ASSUME Typed, NEW w \in Workers, JobSound(w), UNCHANGED job[w],
         \A r \in ResIds : Advances(r)
  PROVE  JobSound(w)'
<1>1. CASE job[w] = Idle
  BY <1>1 DEF JobSound
<1>2. CASE job[w] # Idle
  <2>1. job[w].id \in ResIds
    BY <1>2 DEF Typed, TypeOK, Job
  <2>2. Advances(job[w].id)
    BY <2>1
  <2>3. CASE job[w].at = "complete"
    BY <1>2, <2>2, <2>3 DEF JobSound, Advances, Done, Closed
  <2>4. CASE job[w].at # "complete"
    BY <1>2, <2>2, <2>4 DEF JobSound, Advances, Closed
  <2> QED BY <2>3, <2>4
<1> QED BY <1>1, <1>2

LEMMA CopiesKept ==
  ASSUME Typed, NEW p \in Procs, CopiesSound(p), Grows,
         batch'[p] \subseteq batch[p], UNCHANGED queue[p], UNCHANGED job[p]
  PROVE  CopiesSound(p)'
<1>1. ASSUME NEW t, t.id \in ResIds, CopySound(t)
      PROVE  task'[t.id].status # "none" /\ t.cost = task'[t.id].cost
  BY <1>1 DEF CopySound, Grows, Stored
<1>2. \A t \in batch[p] : t.id \in ResIds
  BY DEF Typed, TypeOK, Task
<1>3. ASSUME NEW i \in 1..Len(queue[p]) PROVE queue[p][i].id \in ResIds
  <2>1. queue[p] \in Seq(Task)
    BY DEF Typed, TypeOK
  <2>2. queue[p][i] \in Task
    BY <2>1
  <2> QED BY <2>2 DEF Task
<1>4. job[p] # Idle => job[p].id \in ResIds
  BY DEF Typed, TypeOK, Job, Workers
<1>5. \A t \in batch'[p] : task'[t.id].status # "none" /\ t.cost = task'[t.id].cost
  BY <1>1, <1>2 DEF CopiesSound
<1>6. \A i \in 1..Len(queue'[p]) :
        task'[queue'[p][i].id].status # "none" /\ queue'[p][i].cost = task'[queue'[p][i].id].cost
  BY <1>1, <1>3 DEF CopiesSound
<1>7. job'[p] # Idle =>
        task'[job'[p].id].status # "none" /\ job'[p].cost = task'[job'[p].id].cost
  BY <1>1, <1>4 DEF CopiesSound
<1> QED BY <1>5, <1>6, <1>7 DEF CopiesSound, CopySound, Stored

LEMMA SoundKept ==
  ASSUME Typed, Sound, Grows, UNCHANGED <<batch, queue, job>>,
         \A r \in ResIds : Advances(r) /\ RowSound(r)'
  PROVE  Sound'
<1>1. \A w \in Workers : JobSound(w)'
  BY JobKept DEF Sound
<1>2. \A p \in Procs : CopiesSound(p)'
  BY CopiesKept DEF Sound
<1> QED BY <1>1, <1>2 DEF Sound

LEMMA InitSound == Init => Sound
<1> SUFFICES ASSUME Init PROVE Sound
  OBVIOUS
<1>1. \A r \in ResIds : RowSound(r)
  BY DEF Init, RowSound, Stored, NoTask
<1>2. \A w \in Workers : JobSound(w)
  BY DEF Init, JobSound
<1>3. \A p \in Procs : CopiesSound(p)
  BY DEF Init, CopiesSound, Workers
<1> QED BY <1>1, <1>2, <1>3 DEF Sound

\* A reservation nobody touches advances, and its row stays sound while the
\* step leaves the row of the inbox alone too.
LEMMA RowUntouched ==
  ASSUME NEW r \in ResIds, UNCHANGED <<state[r], charged[r], reported[r]>>
  PROVE  /\ Advances(r)
         /\ RowSound(r) /\ UNCHANGED task[r] => RowSound(r)'
BY DEF Advances, RowSound, Stored, Done, Closed

LEMMA ReservationSound ==
  ASSUME Typed, Sound, NEW r \in ResIds, ReservationStep(r)
  PROVE  Sound'
<1> USE DEF procVars, dbVars
<1>1. \A q \in ResIds : RowSound(q)
  BY DEF Sound
<1>2. ASSUME UNCHANGED <<charged, task, reported, batch, queue, job>>,
             \/ state[r] = "none" /\ state' = [state EXCEPT ![r] = "reserved"]
             \/ state[r] = "reserved" /\ state' = [state EXCEPT ![r] = "released"]
             \/ state[r] = "reserved" /\ state' = [state EXCEPT ![r] = "expired"]
             \/ UNCHANGED state
      PROVE  Sound'
  <2>1. Grows
    BY <1>2 DEF Grows, Stored
  <2>2. ASSUME NEW q \in ResIds PROVE Advances(q) /\ RowSound(q)'
    <3>1. CASE state'[q] = state[q]
      BY <1>1, <1>2, <3>1, RowUntouched
    <3>2. CASE state'[q] # state[q]
      <4>1. /\ state[q] \in {"none", "reserved"}
            /\ state'[q] \in {"reserved", "released", "expired"}
            /\ task[q].status # "completed"
        BY <1>1, <1>2, <3>2 DEF RowSound, Typed, TypeOK, Done, Closed
      <4> QED BY <1>1, <1>2, <4>1 DEF Advances, RowSound, Stored, Closed
    <3> QED BY <3>1, <3>2
  <2> QED BY <1>2, <2>1, <2>2, SoundKept
<1>3. CASE ReserveQuota(r) \/ ReleaseQuota(r) \/ ExpiryPasses(r) \/ CleanupRelease(r)
  BY <1>2, <1>3 DEF ReserveQuota, ReleaseQuota, ExpiryPasses, CleanupRelease, Expirable
<1>4. ASSUME UNCHANGED <<state, charged, reported, batch, queue, job>>, Grows,
             \A q \in ResIds : task'[q] # task[q] =>
               state[q] # "none" /\ task'[q].status # "completed"
      PROVE  Sound'
  <2>1. ASSUME NEW q \in ResIds PROVE Advances(q) /\ RowSound(q)'
    BY <1>1, <1>4, RowUntouched DEF RowSound, Stored
  <2> QED BY <1>4, <2>1, SoundKept
<1>5. CASE RetryFallsDue(r) \/ ClaimGoesStale(r)
  <2>1. Grows
    BY <1>5, TimedRows, RowsGrow DEF RetryFallsDue, ClaimGoesStale
  <2>2. \A q \in ResIds : task'[q] # task[q] =>
          state[q] # "none" /\ task'[q].status # "completed"
    <3>1. task \in [ResIds -> TaskRow] /\ task[r] \in TaskRow
      BY DEF Typed, TypeOK
    <3>2. Stored(r) /\ task[r].status # "completed"
      BY <1>5 DEF RetryFallsDue, ClaimGoesStale, Stored
    <3>3. task'[r].status = task[r].status /\ \A q \in ResIds \ {r} : task'[q] = task[q]
      BY <1>5, <3>1 DEF RetryFallsDue, ClaimGoesStale, TaskRow
    <3> QED BY <1>1, <3>2, <3>3 DEF RowSound
  <2> QED BY <1>4, <1>5, <2>1, <2>2 DEF RetryFallsDue, ClaimGoesStale
<1>6. ASSUME NEW cost \in Costs, AcceptTask(r, cost) PROVE Sound'
  <2>1. \/ UNCHANGED task
        \/ /\ state[r] = "reserved" /\ task[r].status = "none"
           /\ task' = [task EXCEPT ![r] = NewTask(cost)]
    BY <1>6 DEF AcceptTask
  <2>2. NewTask(cost).status = "pending"
    BY DEF NewTask
  <2> HIDE DEF NewTask
  <2>3. Grows
    BY <2>1, <2>2 DEF Grows, Stored, Typed, TypeOK
  <2>4. \A q \in ResIds : task'[q] # task[q] =>
          state[q] # "none" /\ task'[q].status # "completed"
    BY <2>1, <2>2 DEF Typed, TypeOK
  <2> QED BY <1>4, <1>6, <2>3, <2>4 DEF AcceptTask
<1>7. ASSUME NEW cost \in Costs, NEW c \in Callers, FallBack(c, r, cost) PROVE Sound'
  <2>1. /\ UNCHANGED <<state, charged, reported, task, batch, queue>>
        /\ state[r] # "none"
        /\ job' = [job EXCEPT ![c] = [at |-> "commit", id |-> r, cost |-> cost]]
    BY <1>7 DEF FallBack
  <2>2. Grows /\ \A q \in ResIds : Advances(q) /\ RowSound(q)'
    BY <1>1, <2>1, RowUntouched DEF Grows, Stored
  <2>3. ASSUME NEW w \in Workers PROVE JobSound(w)'
    <3>1. CASE w = c
      BY <2>1, <3>1 DEF JobSound, Typed, TypeOK
    <3>2. CASE w # c
      <4>1. UNCHANGED job[w]
        BY <2>1, <3>2 DEF Typed, TypeOK
      <4> QED BY <2>2, <4>1, JobKept DEF Sound
    <3> QED BY <3>1, <3>2
  <2>4. ASSUME NEW p \in Procs PROVE CopiesSound(p)'
    <3>1. UNCHANGED job[p]
      BY <2>1, WorkersAssumption DEF Typed, TypeOK, Workers
    <3> QED BY <2>1, <2>2, <3>1, CopiesKept DEF Sound
  <2> QED BY <2>2, <2>3, <2>4 DEF Sound
<1> QED BY <1>3, <1>5, <1>6, <1>7 DEF ReservationStep

LEMMA PipelineSound ==
  ASSUME Typed, Sound, NEW w \in Workers, PipelineStep(w)
  PROVE  Sound'
<1> USE DEF procVars, dbVars
<1> DEFINE r == job[w].id
<1>1. job \in [Workers -> Job \cup {Idle}] /\ task \in [ResIds -> TaskRow]
  BY DEF Typed, TypeOK
<1>2. \A q \in ResIds : RowSound(q)
  BY DEF Sound
<1>3. job[w] # Idle
  BY DEF PipelineStep, CommitQuota, ReportUsage, PipelineFails, Complete, Fail, Abandon, Idle
<1>4. r \in ResIds /\ JobSound(w) /\ state[r] # "none"
  BY <1>1, <1>3 DEF Sound, JobSound, Job
<1>5. RowSound(r)
  BY <1>2, <1>4
\* The frame: w alone has moved, and it is idle or still on its task.
<1>6. ASSUME Grows, UNCHANGED <<batch, queue>>,
             \A v \in Workers \ {w} : UNCHANGED job[v],
             job'[w] = Idle \/ (job'[w].id = r /\ job'[w].cost = job[w].cost),
             JobSound(w)', \A q \in ResIds : Advances(q) /\ RowSound(q)'
      PROVE  Sound'
  <2>1. ASSUME NEW v \in Workers PROVE JobSound(v)'
    BY <1>6, JobKept DEF Sound
  <2>2. ASSUME NEW p \in Procs PROVE CopiesSound(p)'
    <3>1. CASE p # w
      BY <1>6, <3>1, CopiesKept DEF Sound, Workers
    <3>2. CASE p = w
      <4>1. CopiesSound(p)
        BY DEF Sound
      <4>2. \A t \in batch[p] : t.id \in ResIds
        BY DEF Typed, TypeOK, Task
      <4>3. ASSUME NEW i \in 1..Len(queue[p]) PROVE queue[p][i].id \in ResIds
        <5>1. queue[p] \in Seq(Task)
          BY DEF Typed, TypeOK
        <5>2. queue[p][i] \in Task
          BY <5>1
        <5> QED BY <5>2 DEF Task
      <4>4. \A t \in batch'[p] : task'[t.id].status # "none" /\ t.cost = task'[t.id].cost
        BY <1>6, <4>1, <4>2 DEF CopiesSound, CopySound, Grows, Stored
      <4>5. \A i \in 1..Len(queue'[p]) :
              task'[queue'[p][i].id].status # "none"
              /\ queue'[p][i].cost = task'[queue'[p][i].id].cost
        BY <1>6, <4>1, <4>3 DEF CopiesSound, CopySound, Grows, Stored
      <4>6. job'[p] # Idle =>
              task'[job'[p].id].status # "none" /\ job'[p].cost = task'[job'[p].id].cost
        BY <1>3, <1>4, <1>6, <3>2, <4>1 DEF CopiesSound, CopySound, Grows, Stored
      <4> QED BY <4>4, <4>5, <4>6 DEF CopiesSound, CopySound, Stored
    <3> QED BY <3>1, <3>2
  <2> QED BY <1>6, <2>1, <2>2 DEF Sound
<1> HIDE DEF r
<1>7. CASE CommitQuota(w)
  <2>1. /\ UNCHANGED <<task, reported, batch, queue>>
        /\ job' = [job EXCEPT ![w].at = NextStage(state'[r])]
        /\ \/ /\ state[r] = "reserved"
              /\ state' = [state EXCEPT ![r] = "committed"]
              /\ charged' = [charged EXCEPT ![r] = @ + job[w].cost]
           \/ state[r] # "reserved" /\ UNCHANGED <<state, charged>>
    BY <1>7 DEF CommitQuota, CanCharge, r
  <2>2. Grows
    BY <2>1 DEF Grows, Stored
  <2>3. job'[w] = [job[w] EXCEPT !.at = NextStage(state'[r])]
    BY <1>1, <2>1
  <2>4. job'[w].id = r /\ job'[w].cost = job[w].cost /\ job'[w].at = NextStage(state'[r])
    BY <1>1, <1>3, <2>3 DEF Job, r
  <2>5. state'[r] \in Closed /\ (state'[r] # "committed" => charged'[r] = 0 /\ reported'[r] = 0)
    BY <1>4, <1>5, <2>1 DEF Closed, RowSound, Typed, TypeOK
  <2>6. ASSUME NEW q \in ResIds PROVE Advances(q) /\ RowSound(q)'
    <3>1. CASE q # r
      BY <1>2, <2>1, <3>1, RowUntouched DEF Typed, TypeOK
    <3>2. CASE q = r /\ state[r] # "reserved"
      BY <1>2, <2>1, <3>2, RowUntouched
    <3>3. CASE q = r /\ state[r] = "reserved"
      <4>1. reported[r] = 0 /\ task[r].status # "completed" /\ state'[r] = "committed"
        BY <1>5, <2>1, <3>3 DEF RowSound, Done, Closed, Typed, TypeOK
      <4> QED BY <1>5, <2>1, <3>3, <4>1 DEF Advances, RowSound, Stored, Closed
    <3> QED BY <3>1, <3>2, <3>3
  <2>7. JobSound(w)'
    BY <2>1, <2>4, <2>5 DEF JobSound, NextStage, Done, Closed
  <2>8. \A v \in Workers \ {w} : UNCHANGED job[v]
    BY <1>1, <2>1
  <2> QED BY <1>6, <2>1, <2>2, <2>4, <2>6, <2>7, <2>8
<1>8. CASE ReportUsage(w)
  <2>1. /\ UNCHANGED <<state, charged, task, batch, queue>>
        /\ job[w].at = "report"
        /\ job' = [job EXCEPT ![w].at = "complete"]
        /\ reported' = IF reported[r] = 0 THEN [reported EXCEPT ![r] = charged[r]] ELSE reported
    BY <1>8 DEF ReportUsage, r
  <2>2. Grows
    BY <2>1 DEF Grows, Stored
  <2>3. job'[w] = [job[w] EXCEPT !.at = "complete"]
    BY <1>1, <2>1
  <2>4. job'[w].id = r /\ job'[w].cost = job[w].cost /\ job'[w].at = "complete"
    BY <1>1, <1>3, <2>3 DEF Job, r
  <2>5. state[r] = "committed" /\ reported'[r] = charged[r]
    BY <1>3, <1>4, <1>5, <2>1 DEF JobSound, RowSound, r, Typed, TypeOK
  <2>6. ASSUME NEW q \in ResIds PROVE Advances(q) /\ RowSound(q)'
    <3>1. CASE q # r
      BY <1>2, <2>1, <3>1, RowUntouched DEF Typed, TypeOK
    <3>2. CASE q = r
      BY <1>5, <2>1, <2>5, <3>2 DEF Advances, RowSound, Stored, Done, Closed
    <3> QED BY <3>1, <3>2
  <2>7. JobSound(w)'
    BY <2>1, <2>4, <2>5 DEF JobSound, Done, Closed
  <2>8. \A v \in Workers \ {w} : UNCHANGED job[v]
    BY <1>1, <2>1
  <2> QED BY <1>6, <2>1, <2>2, <2>4, <2>6, <2>7, <2>8
<1>9. CASE PipelineFails(w)
  <2>1. /\ UNCHANGED <<state, charged, reported, task, batch, queue>>
        /\ job' = [job EXCEPT ![w].at = "fail"]
    BY <1>9 DEF PipelineFails
  <2>2. Grows /\ \A q \in ResIds : Advances(q) /\ RowSound(q)'
    BY <1>2, <2>1, RowUntouched DEF Grows, Stored
  <2>3. job'[w] = [job[w] EXCEPT !.at = "fail"]
    BY <1>1, <2>1
  <2>4. job'[w].id = r /\ job'[w].cost = job[w].cost /\ job'[w].at = "fail"
    BY <1>1, <1>3, <2>3 DEF Job, r
  <2>5. JobSound(w)'
    BY <1>4, <2>1, <2>4 DEF JobSound
  <2>6. \A v \in Workers \ {w} : UNCHANGED job[v]
    BY <1>1, <2>1
  <2> QED BY <1>6, <2>1, <2>2, <2>4, <2>5, <2>6
\* Complete, Fail and Abandon end the job and write a status.
<1>10. ASSUME UNCHANGED <<state, charged, reported, batch, queue>>,
              job' = [job EXCEPT ![w] = Idle], RowsKept,
              \A q \in ResIds : task'[q].status = "completed" => task[q].status = "completed" \/ Done(q)
       PROVE  Sound'
  <2>1. \A v \in Workers \ {w} : UNCHANGED job[v]
    BY <1>1, <1>10
  <2>2. job'[w] = Idle
    BY <1>1, <1>10
  <2>3. ASSUME NEW q \in ResIds PROVE Advances(q) /\ RowSound(q)'
    <3>1. RowSound(q)
      BY <1>2
    <3>2. Stored(q)' <=> Stored(q)
      BY <1>10 DEF RowsKept
    <3>3. task'[q].status = "completed" => Done(q)
      BY <1>10, <3>1 DEF RowSound
    <3> QED BY <1>10, <3>1, <3>2, <3>3, RowUntouched DEF RowSound, Done
  <2>4. JobSound(w)'
    BY <2>2 DEF JobSound
  <2>5. Grows
    BY <1>10, RowsGrow
  <2>6. UNCHANGED <<batch, queue>>
    BY <1>10
  <2>7. job'[w] = Idle \/ (job'[w].id = r /\ job'[w].cost = job[w].cost)
    BY <2>2
  <2> QED BY <1>6, <2>1, <2>3, <2>4, <2>5, <2>6, <2>7
<1>11. CASE Complete(w)
  <2>1. RowsKept
    BY <1>4, <1>11, MarkedRows DEF Complete, MarkCompleted, r
  <2>2. Done(r)
    BY <1>3, <1>4, <1>11 DEF JobSound, Complete, r
  <2>3. \A q \in ResIds : q # r => task'[q] = task[q]
    BY <1>1, <1>4, <1>11 DEF Complete, MarkCompleted, Marked, r
  <2> QED BY <1>10, <1>11, <2>1, <2>2, <2>3 DEF Complete
<1>12. CASE Fail(w)
  <2>1. RowsKept
    BY <1>4, <1>12, MarkedRows DEF Fail, MarkFailed, r
  <2>2. \A q \in ResIds : task'[q].status = "completed" => task[q].status = "completed"
    BY <1>1, <1>4, <1>12 DEF Fail, MarkFailed, Marked, TaskRow, r
  <2> QED BY <1>10, <1>12, <2>1, <2>2 DEF Fail
<1>13. CASE Abandon(w)
  <2>1. RowsKept
    BY <1>13, OrphanRows, UnchangedRows DEF Abandon
  <2>2. \A q \in ResIds : task'[q].status = "completed" => task[q].status = "completed"
    BY <1>13, OrphanCompletes DEF Abandon
  <2> QED BY <1>10, <1>13, <2>1, <2>2 DEF Abandon
<1> QED BY <1>7, <1>8, <1>9, <1>11, <1>12, <1>13 DEF PipelineStep

LEMMA ProcessSound ==
  ASSUME Typed, Sound, NEW p \in Procs, ProcessStep(p)
  PROVE  Sound'
<1> USE DEF dbVars
<1>1. /\ task \in [ResIds -> TaskRow]
      /\ batch \in [Procs -> SUBSET Task]
      /\ queue \in [Procs -> Seq(Task)]
      /\ job \in [Workers -> Job \cup {Idle}]
      /\ p \in Workers
      /\ \A q \in ResIds : RowSound(q)
      /\ CopiesSound(p)
  BY DEF Typed, TypeOK, Workers, Sound
\* The frame: the reservations stay, no task is completed, and what other
\* processes hold stays.
<1>2. ASSUME UNCHANGED <<state, charged, reported>>, RowsKept,
             \A q \in ResIds : task'[q].status = "completed" => task[q].status = "completed",
             \A q \in Procs \ {p} : UNCHANGED <<batch[q], queue[q]>>,
             \A w \in Workers \ {p} : UNCHANGED job[w],
             JobSound(p)', CopiesSound(p)'
      PROVE  Sound'
  <2>1. ASSUME NEW q \in ResIds PROVE Advances(q) /\ RowSound(q)'
    <3>1. RowSound(q) /\ (Stored(q)' <=> Stored(q))
      BY <1>1, <1>2 DEF RowsKept
    <3>2. task'[q].status = "completed" => Done(q)
      BY <1>2, <3>1 DEF RowSound
    <3> QED BY <1>2, <3>1, <3>2, RowUntouched DEF RowSound, Done
  <2>2. ASSUME NEW w \in Workers PROVE JobSound(w)'
    BY <1>2, <2>1, JobKept DEF Sound
  <2>3. ASSUME NEW q \in Procs PROVE CopiesSound(q)'
    <3>1. CASE q = p
      BY <1>2, <3>1
    <3>2. CASE q # p
      BY <1>2, <3>2, CopiesKept, RowsGrow DEF Sound, Workers
    <3> QED BY <3>1, <3>2
  <2> QED BY <2>1, <2>2, <2>3 DEF Sound
\* ... and most steps leave the jobs alone.
<1>3. ASSUME UNCHANGED <<state, charged, reported, job>>
      PROVE  JobSound(p)'
  BY <1>1, <1>3, JobKept DEF Sound, Advances
<1>4. CASE SelectPending(p) \/ Close(p) \/ StopRecovery(p) \/ Restart(p)
  <2>1. UNCHANGED <<state, charged, reported, task, batch, queue, job>>
    BY <1>4 DEF SelectPending, Close, StopRecovery, Restart
  <2>2. Grows /\ RowsKept
    BY <2>1, UnchangedRows, RowsGrow
  <2>3. CopiesSound(p)'
    BY <1>1, <2>1, <2>2, CopiesKept
  <2> QED BY <1>2, <1>3, <2>1, <2>2, <2>3
<1>5. CASE ClaimPending(p) \/ ClaimLost(p)
  <2>0. PICK lost \in BOOLEAN : Claim(p, lost)
    BY <1>5 DEF ClaimPending, ClaimLost
  <2> DEFINE claimed == {r \in picked[p] : StillClaimable(task[r])}
  <2>1. claimed \in SUBSET ResIds /\ \A r \in claimed : Stored(r)
    BY DEF StillClaimable, Claimable, Unstarted, Stored, Typed, TypeOK
  <2>2. /\ task' = [r \in ResIds |->
                     IF r \in claimed
                     THEN [task[r] EXCEPT !.status = "processing",
                                          !.stale = FALSE, !.orphaned = lost]
                     ELSE task[r]]
        /\ batch' = [batch EXCEPT ![p] = IF lost THEN {}
                      ELSE {[id |-> r, cost |-> task[r].cost] : r \in claimed}]
        /\ UNCHANGED <<state, charged, reported, queue, job>>
    BY <2>0 DEF Claim
  <2> HIDE DEF claimed
  <2>3. RowsKept /\ Grows
    BY <2>1, <2>2, ClaimedRows, RowsGrow
  <2>4. \A q \in ResIds : task'[q].status = "completed" => task[q].status = "completed"
    BY <1>1, <2>2 DEF TaskRow
  <2>5. CopiesSound(p)'
    <3>1. batch'[p] \subseteq {[id |-> r, cost |-> task[r].cost] : r \in claimed}
      BY <1>1, <2>2
    <3>2. \A t \in batch'[p] : task'[t.id].status # "none" /\ t.cost = task'[t.id].cost
      BY <2>1, <2>3, <3>1 DEF RowsKept, Stored
    <3>3. ASSUME NEW i \in 1..Len(queue[p])
          PROVE  queue[p][i].id \in ResIds /\ CopySound(queue[p][i])
      <4>1. queue[p][i] \in Task
        BY <1>1
      <4> QED BY <1>1, <4>1 DEF Task, CopiesSound
    <3>4. \A i \in 1..Len(queue'[p]) :
            task'[queue'[p][i].id].status # "none"
            /\ queue'[p][i].cost = task'[queue'[p][i].id].cost
      BY <2>2, <2>3, <3>3 DEF CopySound, RowsKept, Stored
    <3>5. job'[p] # Idle =>
            task'[job'[p].id].status # "none" /\ job'[p].cost = task'[job'[p].id].cost
      <4>1. job[p] # Idle => job[p].id \in ResIds /\ CopySound(job[p])
        BY <1>1 DEF Job, CopiesSound
      <4> QED BY <2>2, <2>3, <4>1 DEF CopySound, RowsKept, Stored
    <3> QED BY <3>2, <3>4, <3>5 DEF CopiesSound, CopySound, Stored
  <2>6. \A q \in Procs \ {p} : UNCHANGED <<batch[q], queue[q]>>
    BY <1>1, <2>2
  <2> QED BY <1>2, <1>3, <2>2, <2>3, <2>4, <2>5, <2>6
<1>6. CASE Enqueue(p)
  <2>1. PICK t \in batch[p] :
          /\ batch' = [batch EXCEPT ![p] = @ \ {t}]
          /\ \/ ~ Full(p) /\ queue' = [queue EXCEPT ![p] = Append(@, t)] /\ UNCHANGED task
             \/ MarkFailed(t.id) /\ UNCHANGED queue
             \/ task' = Orphan({t.id}) /\ UNCHANGED queue
    BY <1>6 DEF Enqueue
  <2>2. t \in Task /\ t.id \in ResIds /\ CopySound(t)
    BY <1>1, <2>1 DEF Task, CopiesSound
  <2>3. RowsKept /\ Grows
    BY <2>1, <2>2, UnchangedRows, MarkedRows, OrphanRows, RowsGrow DEF MarkFailed
  <2>4. \A q \in ResIds : task'[q].status = "completed" => task[q].status = "completed"
    <3>1. CASE MarkFailed(t.id)
      BY <1>1, <2>2, <3>1 DEF MarkFailed, Marked, TaskRow
    <3>2. CASE task' = Orphan({t.id})
      BY <3>2, OrphanCompletes
    <3> QED BY <2>1, <3>1, <3>2
  <2>5. UNCHANGED <<state, charged, reported, job>>
    BY <1>6 DEF Enqueue
  <2>6. batch'[p] \subseteq batch[p]
    BY <1>1, <2>1
  <2>7. CopiesSound(p)'
    <3>1. CASE UNCHANGED queue
      BY <1>1, <2>3, <2>5, <2>6, <3>1, CopiesKept
    <3>2. CASE queue' = [queue EXCEPT ![p] = Append(@, t)] /\ UNCHANGED task
      <4>1. queue'[p] = Append(queue[p], t) /\ queue[p] \in Seq(Task)
        BY <1>1, <3>2
      <4>2. \A i \in 1..Len(queue'[p]) : i <= Len(queue[p]) \/ queue'[p][i] = t
        BY <2>2, <4>1
      <4>3. \A i \in 1..Len(queue[p]) : queue'[p][i] = queue[p][i]
        BY <2>2, <4>1
      <4>4. \A i \in 1..Len(queue'[p]) : CopySound(queue'[p][i])
        BY <1>1, <2>2, <4>1, <4>2, <4>3 DEF CopiesSound
      <4> QED BY <1>1, <2>5, <2>6, <3>2, <4>4 DEF CopiesSound, CopySound, Stored
    <3> QED BY <2>1, <3>1, <3>2
  <2>8. \A q \in Procs \ {p} : UNCHANGED <<batch[q], queue[q]>>
    BY <1>1, <2>1
  <2> QED BY <1>2, <1>3, <2>3, <2>4, <2>5, <2>7, <2>8
<1>7. CASE TakeTask(p)
  <2>1. /\ UNCHANGED <<state, charged, reported, task, batch>>
        /\ queue[p] # <<>>
        /\ queue' = [queue EXCEPT ![p] = Tail(@)]
        /\ job' = [job EXCEPT ![p] = [at |-> "commit", id |-> Head(queue[p]).id,
                                      cost |-> Head(queue[p]).cost]]
    BY <1>7 DEF TakeTask
  <2>2. queue[p] \in Seq(Task) /\ Len(queue[p]) > 0 /\ Head(queue[p]) = queue[p][1]
    BY <1>1, <2>1
  <2>3. Head(queue[p]) \in Task /\ CopySound(Head(queue[p]))
    BY <1>1, <2>2 DEF CopiesSound
  <2>4. queue'[p] = Tail(queue[p])
    BY <1>1, <2>1
  <2>5. job'[p] = [at |-> "commit", id |-> Head(queue[p]).id, cost |-> Head(queue[p]).cost]
    BY <1>1, <2>1
  <2>6. JobSound(p)'
    <3>1. state[Head(queue[p]).id] # "none"
      BY <1>1, <2>3 DEF Task, CopySound, RowSound
    <3> QED BY <2>1, <2>5, <3>1 DEF JobSound
  <2>7. CopiesSound(p)'
    <3>1. \A i \in 1..Len(queue'[p]) : i + 1 \in 1..Len(queue[p]) /\ queue'[p][i] = queue[p][i+1]
      BY <2>2, <2>4
    <3>2. \A i \in 1..Len(queue'[p]) : CopySound(queue'[p][i])
      BY <1>1, <3>1 DEF CopiesSound
    <3> QED BY <1>1, <2>1, <2>3, <2>5, <3>2 DEF CopiesSound, CopySound, Stored
  <2>8. /\ \A q \in Procs \ {p} : UNCHANGED <<batch[q], queue[q]>>
        /\ \A w \in Workers \ {p} : UNCHANGED job[w]
    BY <1>1, <2>1
  <2> QED BY <1>2, <2>1, <2>6, <2>7, <2>8, UnchangedRows
<1>8. CASE Exit(p) \/ Crash(p)
  <2>1. /\ batch' = [batch EXCEPT ![p] = {}]
        /\ queue' = [queue EXCEPT ![p] = <<>>]
        /\ job' = [job EXCEPT ![p] = Idle]
        /\ UNCHANGED <<state, charged, reported>>
    BY <1>8 DEF Exit, Crash, MemoryGone
  <2>2. RowsKept
    BY <1>8, UnchangedRows, OrphanRows DEF Exit, Crash
  <2>3. \A q \in ResIds : task'[q].status = "completed" => task[q].status = "completed"
    BY <1>8, OrphanCompletes DEF Exit, Crash
  <2>4. batch'[p] = {} /\ queue'[p] = <<>> /\ job'[p] = Idle
    BY <1>1, <2>1
  <2>5. JobSound(p)' /\ CopiesSound(p)'
    BY <2>4 DEF JobSound, CopiesSound
  <2>6. /\ \A q \in Procs \ {p} : UNCHANGED <<batch[q], queue[q]>>
        /\ \A w \in Workers \ {p} : UNCHANGED job[w]
    BY <1>1, <2>1
  <2> QED BY <1>2, <2>1, <2>2, <2>3, <2>5, <2>6
<1> QED BY <1>4, <1>5, <1>6, <1>7, <1>8 DEF ProcessStep

LEMMA StepSound == Typed /\ Sound /\ [Next]_vars => Sound'
<1> SUFFICES ASSUME Typed, Sound, [Next]_vars PROVE Sound'
  OBVIOUS
<1>1. CASE UNCHANGED vars \/ CleanupSelect
  <2>1. UNCHANGED <<state, charged, reported, task, batch, queue, job>>
    BY <1>1 DEF vars, CleanupSelect, dbVars, procVars
  <2>2. Grows /\ \A r \in ResIds : Advances(r) /\ RowSound(r)'
    BY <2>1, RowUntouched DEF Grows, Stored, Sound
  <2> QED BY <2>1, <2>2, SoundKept
<1> QED BY <1>1, ReservationSound, PipelineSound, ProcessSound DEF Next

LEMMA AlwaysSound == Spec => [](Typed /\ Sound)
BY InitTyped, InitSound, StepTyped, StepSound, PTL DEF Spec

\* A completed task has closed its reservation and reported its charge, though
\* the commit, the report and the mark are separate writes and two replicas, or
\* a replica and a caller, may be at different ones of them.
THEOREM CompletedHasDoneAll == Spec => []CompletedIsDone
<1>1. Typed /\ Sound => CompletedIsDone
  BY DEF Sound, RowSound, Done, Closed, CompletedIsDone
<1> QED BY <1>1, AlwaysSound, PTL
-----------------------------------------------------------------------------
(* The settlement path implements Reservation.tla: a commit, a release and  *)
(* an expiry are its steps, everything else stutters.                       *)
LEMMA MappedStep == Typed /\ Sound /\ [Next]_vars => [Promise!ReservationNext]_(Promise!abstractVars)
<1> USE DEF procVars, dbVars
<1> SUFFICES ASSUME Typed, Sound, [Next]_vars
             PROVE  Promise!ReservationNext \/ UNCHANGED <<state, charged>>
  BY DEF Promise!abstractVars
<1>1. ASSUME NEW r \in ResIds, ReservationStep(r)
      PROVE  Promise!ReservationNext \/ UNCHANGED <<state, charged>>
  <2>1. CASE ReserveQuota(r)
    BY <2>1 DEF ReserveQuota, Promise!ReservationNext, Promise!Open
  <2>2. CASE ReleaseQuota(r) \/ CleanupRelease(r)
    BY <2>2 DEF ReleaseQuota, CleanupRelease, Expirable, Promise!ReservationNext, Promise!Close
  <2>3. CASE ExpiryPasses(r) \/ RetryFallsDue(r) \/ ClaimGoesStale(r)
    BY <2>3 DEF ExpiryPasses, RetryFallsDue, ClaimGoesStale
  <2>4. CASE \E cost \in Costs : AcceptTask(r, cost) \/ \E c \in Callers : FallBack(c, r, cost)
    BY <2>4 DEF AcceptTask, FallBack
  <2> QED BY <1>1, <2>1, <2>2, <2>3, <2>4 DEF ReservationStep
<1>2. ASSUME NEW w \in Workers, PipelineStep(w)
      PROVE  Promise!ReservationNext \/ UNCHANGED <<state, charged>>
  <2>1. CASE CommitQuota(w)
    <3> DEFINE r == job[w].id
    <3>1. job[w] # Idle
      BY <2>1 DEF CommitQuota, Idle
    <3>2. r \in ResIds /\ job[w].cost \in Nat
      BY <3>1, CostsAssumption DEF Typed, TypeOK, Job
    <3>3. \/ UNCHANGED <<state, charged>>
          \/ /\ state[r] = "reserved"
             /\ state' = [state EXCEPT ![r] = "committed"]
             /\ charged' = [charged EXCEPT ![r] = @ + job[w].cost]
      BY <2>1 DEF CommitQuota, CanCharge
    <3>4. charged \in [ResIds -> Nat]
      BY DEF Typed, TypeOK
    <3> HIDE DEF r
    <3>5. ASSUME charged' = [charged EXCEPT ![r] = @ + job[w].cost]
          PROVE  charged'[r] \in Nat /\ charged' = [charged EXCEPT ![r] = charged'[r]]
      <4>1. charged'[r] = charged[r] + job[w].cost
        BY <3>2, <3>4, <3>5
      <4>2. charged[r] \in Nat
        BY <3>2, <3>4
      <4>3. charged'[r] \in Nat
        BY <3>2, <4>1, <4>2
      <4> QED BY <3>5, <4>1, <4>3
    <3> QED BY <3>2, <3>3, <3>5 DEF Promise!ReservationNext, Promise!Settle
  <2>2. CASE ~ CommitQuota(w)
    BY <1>2, <2>2 DEF PipelineStep, ReportUsage, PipelineFails, Complete, Fail, Abandon
  <2> QED BY <2>1, <2>2
<1>3. ASSUME NEW p \in Procs, ProcessStep(p) PROVE UNCHANGED <<state, charged>>
  BY <1>3 DEF ProcessStep, SelectPending, ClaimPending, ClaimLost, Claim, Enqueue, TakeTask, Close,
              StopRecovery, Exit, Crash, Restart, MemoryGone
<1>4. CASE UNCHANGED vars \/ CleanupSelect
  BY <1>4 DEF vars, CleanupSelect
<1> QED BY <1>1, <1>2, <1>3, <1>4 DEF Next

\* Whatever is claimed twice, retried, taken over or lost in a crash, a request
\* is charged by one commit or closed without a charge (Reservation.tla).
THEOREM SettlementKeepsPromise == Spec => SettlesLikeReservation
<1>1. Init => Promise!ReservationInit
  BY DEF Init, Promise!ReservationInit
<1> QED BY <1>1, MappedStep, AlwaysSound, PTL
        DEF Spec, SettlesLikeReservation, Promise!ReservationSpec
-----------------------------------------------------------------------------
(* Deployments whose callers all carry receipts (Callers is empty): what is *)
(* charged is what was accepted, and expiry never closes it.                *)
Accepted(r) ==
  /\ Stored(r) => acked[r] = {task[r].cost} /\ state[r] # "expired"
  /\ ~ Stored(r) => acked[r] = {} /\ state[r] # "committed"
  /\ state[r] = "committed" => charged[r] = task[r].cost

AllAccepted == \A r \in ResIds : Accepted(r)

LEMMA PipelineRows ==
  ASSUME Typed, NEW w \in Workers, PipelineStep(w)
  PROVE  RowsKept
<1>1. job[w] # Idle
  BY DEF PipelineStep, CommitQuota, ReportUsage, PipelineFails, Complete, Fail, Abandon, Idle
<1>2. job[w].id \in ResIds
  BY <1>1 DEF Typed, TypeOK, Job
<1>3. CASE CommitQuota(w) \/ ReportUsage(w) \/ PipelineFails(w)
  BY <1>3, UnchangedRows DEF CommitQuota, ReportUsage, PipelineFails, dbVars
<1>4. CASE Complete(w) \/ Fail(w)
  BY <1>2, <1>4, MarkedRows DEF Complete, Fail, MarkCompleted, MarkFailed
<1>5. CASE Abandon(w)
  BY <1>5, UnchangedRows, OrphanRows DEF Abandon
<1> QED BY <1>3, <1>4, <1>5 DEF PipelineStep

LEMMA ProcessRows ==
  ASSUME Typed, NEW p \in Procs, ProcessStep(p)
  PROVE  RowsKept
<1>1. CASE SelectPending(p) \/ TakeTask(p) \/ Close(p) \/ StopRecovery(p) \/ Restart(p)
  BY <1>1, UnchangedRows DEF SelectPending, TakeTask, Close, StopRecovery, Restart, dbVars
<1>2. CASE ClaimPending(p) \/ ClaimLost(p)
  <2>0. PICK lost \in BOOLEAN : Claim(p, lost)
    BY <1>2 DEF ClaimPending, ClaimLost
  <2> DEFINE claimed == {r \in picked[p] : StillClaimable(task[r])}
  <2>1. claimed \in SUBSET ResIds /\ \A r \in claimed : Stored(r)
    BY DEF StillClaimable, Claimable, Unstarted, Stored, Typed, TypeOK
  <2> QED BY <2>0, <2>1, ClaimedRows DEF Claim
<1>3. CASE Enqueue(p)
  <2>1. \A t \in batch[p] : t.id \in ResIds
    BY DEF Typed, TypeOK, Task
  <2> QED BY <1>3, <2>1, UnchangedRows, MarkedRows, OrphanRows DEF Enqueue, MarkFailed
<1>4. CASE Exit(p) \/ Crash(p)
  BY <1>4, UnchangedRows, OrphanRows DEF Exit, Crash
<1> QED BY <1>1, <1>2, <1>3, <1>4 DEF ProcessStep

LEMMA AcceptedKept ==
  ASSUME AllAccepted, RowsKept, UNCHANGED <<state, charged, acked>>
  PROVE  AllAccepted'
BY DEF AllAccepted, Accepted, RowsKept, Stored

LEMMA ReservationAccepted ==
  ASSUME Typed, Sound, AllAccepted, Callers = {}, NEW r \in ResIds, ReservationStep(r)
  PROVE  AllAccepted'
<1> USE DEF procVars, dbVars
<1>1. CASE ReserveQuota(r) \/ ReleaseQuota(r) \/ CleanupRelease(r)
  <2>1. UNCHANGED <<charged, task, acked>>
    BY <1>1 DEF ReserveQuota, ReleaseQuota, CleanupRelease
  <2>2. state'[r] = "expired" /\ state[r] # "expired" => ~ Stored(r)
    <3>1. ASSUME state[r] = "reserved", ~ Active(task[r]) PROVE ~ Stored(r)
      BY <3>1 DEF Sound, RowSound, Done, Closed, Active, Stored, Typed, TypeOK, TaskRow
    <3> QED BY <1>1, <3>1 DEF ReserveQuota, ReleaseQuota, CleanupRelease, Expirable, Typed, TypeOK
  <2>3. /\ state'[r] = "committed" => state[r] = "committed"
        /\ \A q \in ResIds \ {r} : state'[q] = state[q]
    BY <1>1 DEF ReserveQuota, ReleaseQuota, CleanupRelease, Typed, TypeOK
  <2>4. ASSUME NEW q \in ResIds PROVE Accepted(q)'
    <3>1. Accepted(q)
      BY DEF AllAccepted
    <3> QED BY <2>1, <2>2, <2>3, <3>1 DEF Accepted, Stored
  <2> QED BY <2>4 DEF AllAccepted
<1>2. CASE ExpiryPasses(r) \/ RetryFallsDue(r) \/ ClaimGoesStale(r)
  <2>1. RowsKept
    BY <1>2, UnchangedRows, TimedRows DEF ExpiryPasses, RetryFallsDue, ClaimGoesStale
  <2> QED BY <1>2, <2>1, AcceptedKept DEF ExpiryPasses, RetryFallsDue, ClaimGoesStale
<1>3. ASSUME NEW cost \in Costs, AcceptTask(r, cost) PROVE AllAccepted'
  <2>1. /\ UNCHANGED <<state, charged>>
        /\ acked' = [acked EXCEPT ![r] = @ \cup {cost}]
        /\ \/ /\ state[r] = "reserved" /\ ~ Stored(r)
              /\ task' = [task EXCEPT ![r] = NewTask(cost)]
           \/ Stored(r) /\ task[r].cost = cost /\ UNCHANGED task
    BY <1>3 DEF AcceptTask, SamePayload, Active, Stored
  <2>2. NewTask(cost).status = "pending" /\ NewTask(cost).cost = cost
    BY DEF NewTask
  <2> HIDE DEF NewTask
  <2>3. /\ task'[r].status # "none" /\ task'[r].cost = cost
        /\ \A q \in ResIds \ {r} : task'[q] = task[q] /\ acked'[q] = acked[q]
    BY <2>1, <2>2 DEF Stored, Typed, TypeOK
  <2>4. acked'[r] = {cost}
    BY <2>1 DEF AllAccepted, Accepted, Typed, TypeOK
  <2>5. state[r] \in {"reserved", "committed"} /\ (state[r] = "committed" => task[r].cost = cost)
    BY <1>3, <2>1 DEF AcceptTask
  <2>6. ASSUME NEW q \in ResIds PROVE Accepted(q)'
    <3>1. Accepted(q)
      BY DEF AllAccepted
    <3>2. CASE q = r
      BY <2>1, <2>3, <2>4, <2>5, <3>1, <3>2 DEF Accepted, Stored
    <3>3. CASE q # r
      BY <2>1, <2>3, <3>1, <3>3 DEF Accepted, Stored
    <3> QED BY <3>2, <3>3
  <2> QED BY <2>6 DEF AllAccepted
<1> QED BY <1>1, <1>2, <1>3 DEF ReservationStep

LEMMA PipelineAccepted ==
  ASSUME Typed, Sound, AllAccepted, Callers = {}, NEW w \in Workers, PipelineStep(w)
  PROVE  AllAccepted'
<1> USE DEF procVars, dbVars
<1>1. w \in Procs
  BY DEF Workers
<1>2. CASE CommitQuota(w)
  <2> DEFINE r == job[w].id
  <2>1. job[w] # Idle
    BY <1>2 DEF CommitQuota, Idle
  <2>2. r \in ResIds /\ job[w].cost \in Nat
    BY <2>1, CostsAssumption DEF Typed, TypeOK, Job
  <2>3. Stored(r) /\ job[w].cost = task[r].cost
    BY <1>1, <2>1 DEF Sound, CopiesSound, CopySound
  <2>4. /\ UNCHANGED <<task, acked>>
        /\ \/ UNCHANGED <<state, charged>>
           \/ /\ state[r] = "reserved"
              /\ state' = [state EXCEPT ![r] = "committed"]
              /\ charged' = [charged EXCEPT ![r] = @ + job[w].cost]
    BY <1>2 DEF CommitQuota, CanCharge
  <2>5. state[r] = "reserved" => charged[r] = 0
    BY <2>2 DEF Sound, RowSound
  <2> HIDE DEF r
  <2>6. ASSUME NEW q \in ResIds PROVE Accepted(q)'
    <3>1. Accepted(q)
      BY DEF AllAccepted
    <3>2. CASE state'[q] = state[q] /\ charged'[q] = charged[q]
      BY <2>4, <3>1, <3>2 DEF Accepted, Stored
    <3>3. CASE q = r /\ state[r] = "reserved" /\ state'[q] = "committed" /\ charged'[q] = task[q].cost
      BY <2>3, <2>4, <3>1, <3>3 DEF Accepted, Stored
    <3> QED BY <2>2, <2>3, <2>4, <2>5, <3>2, <3>3 DEF Typed, TypeOK
  <2> QED BY <2>6 DEF AllAccepted
<1>3. CASE ~ CommitQuota(w)
  <2>1. UNCHANGED <<state, charged, acked>>
    BY <1>3 DEF PipelineStep, ReportUsage, PipelineFails, Complete, Fail, Abandon
  <2> QED BY <2>1, PipelineRows, AcceptedKept
<1> QED BY <1>2, <1>3

LEMMA StepAccepted ==
  ASSUME Typed, Sound, AllAccepted, Callers = {}, [Next]_vars
  PROVE  AllAccepted'
<1>1. CASE UNCHANGED vars \/ CleanupSelect
  BY <1>1, UnchangedRows, AcceptedKept DEF vars, CleanupSelect, dbVars
<1>2. ASSUME NEW p \in Procs, ProcessStep(p) PROVE AllAccepted'
  <2>1. UNCHANGED <<state, charged, acked>>
    BY <1>2 DEF ProcessStep, SelectPending, ClaimPending, ClaimLost, Claim, Enqueue, TakeTask, Close,
                StopRecovery, Exit, Crash, Restart, MemoryGone, dbVars
  <2> QED BY <1>2, <2>1, ProcessRows, AcceptedKept
<1> QED BY <1>1, <1>2, ReservationAccepted, PipelineAccepted DEF Next

LEMMA AlwaysAccepted ==
  ASSUME Callers = {}
  PROVE  Spec => []AllAccepted
<1>1. Init => AllAccepted
  BY DEF Init, AllAccepted, Accepted, Stored, NoTask
<1>2. Typed /\ Sound /\ AllAccepted /\ [Next]_vars => AllAccepted'
  BY StepAccepted
<1> QED BY <1>1, <1>2, AlwaysSound, PTL DEF Spec

\* Where every caller asks for a receipt, the payload that was accepted is the
\* payload that is charged, through every retry, takeover and restart.
THEOREM ChargesWhatItAccepted ==
  ASSUME Callers = {}
  PROVE  Spec => []AcceptedIsCharged
<1>1. AllAccepted => AcceptedIsCharged
  <2> SUFFICES ASSUME AllAccepted, NEW r \in ResIds
               PROVE  /\ Cardinality(acked[r]) <= 1
                      /\ state[r] = "committed" => acked[r] = {charged[r]}
    BY DEF AcceptedIsCharged
  <2>1. Accepted(r)
    BY DEF AllAccepted
  <2>2. acked[r] = {} \/ acked[r] = {task[r].cost}
    BY <2>1 DEF Accepted
  <2>3. Cardinality(acked[r]) <= 1
    <3>1. Cardinality({}) = 0
      BY FS_EmptySet
    <3>2. Cardinality({task[r].cost}) = 1
      BY FS_Singleton
    <3> QED BY <2>2, <3>1, <3>2
  <2> QED BY <2>1, <2>3 DEF Accepted
<1> QED BY <1>1, AlwaysAccepted, PTL

\* ... and the cleanup job never closes a reservation whose settlement was
\* accepted, whenever it selected it.
THEOREM NoAcceptedExpiry ==
  ASSUME Callers = {}
  PROVE  Spec => []AcceptedNeverExpires
<1>1. AllAccepted => AcceptedNeverExpires
  BY DEF AllAccepted, Accepted, AcceptedNeverExpires
<1> QED BY <1>1, AlwaysAccepted, PTL


-----------------------------------------------------------------------------
(* ... and who holds a claim.  A claim is in a batch, in a queue or with a  *)
(* worker; the predicates below avoid counting until the end.               *)
InBatch(p, r) == \E t \in batch[p] : t.id = r
InQueue(p, r) == \E i \in 1..Len(queue[p]) : queue[p][i].id = r
InJob(p, r)   == job[p].id = r
InHand(p, r)  == InBatch(p, r) \/ InQueue(p, r) \/ InJob(p, r)

\* It is at one place there, once.
InOnePlace(p, r) ==
  /\ \A t, u \in batch[p] : t.id = r /\ u.id = r => t = u
  /\ \A i, j \in 1..Len(queue[p]) : queue[p][i].id = r /\ queue[p][j].id = r => i = j
  /\ InBatch(p, r) => ~ InQueue(p, r) /\ ~ InJob(p, r)
  /\ InQueue(p, r) => ~ InJob(p, r)

\* A claim that nobody gave up is in some hand.  Until one is taken over, and
\* while no fallback marks rows that others have claimed, hands hold only
\* claimed rows, once, and no two the same.
HandOK(r) ==
  /\ task[r].status = "processing" /\ ~ task[r].orphaned => \E p \in Procs : InHand(p, r)
  /\ Callers = {} /\ ~ reclaimed[r] => \A p \in Procs :
       /\ InOnePlace(p, r)
       /\ InHand(p, r) => task[r].status = "processing" /\ \A q \in Procs : InHand(q, r) => q = p

\* The recovery goroutine selects only when it has enqueued everything, and is
\* stopped only then.
LoopOK(p) ==
  /\ IsFiniteSet(batch[p])
  /\ picked[p] # {} => batch[p] = {}
  /\ ~ loop[p] => picked[p] = {} /\ batch[p] = {}

Handled == (\A r \in ResIds : HandOK(r)) /\ (\A p \in Procs : LoopOK(p))

LEMMA HandUntouched ==
  ASSUME NEW p, NEW r, batch'[p] = batch[p], queue'[p] = queue[p], job'[p].id = job[p].id
  PROVE  InHand(p, r)' = InHand(p, r) /\ InOnePlace(p, r)' = InOnePlace(p, r)
<1>1. /\ InBatch(p, r)' = InBatch(p, r) /\ InQueue(p, r)' = InQueue(p, r)
      /\ InJob(p, r)' = InJob(p, r)
  BY DEF InBatch, InQueue, InJob
<1> QED BY <1>1 DEF InHand, InOnePlace

\* What p does to the row r when it does not claim it: nothing, or it lets its
\* claim go and the row is marked or orphaned.
Keeps(p, r) ==
  /\ InHand(p, r)' = InHand(p, r)
  /\ InOnePlace(p, r) => InOnePlace(p, r)'
  /\ task'[r].status = task[r].status /\ task'[r].orphaned = task[r].orphaned
LetsGo(p, r) ==
  /\ InHand(p, r)
  /\ InOnePlace(p, r) => ~ InHand(p, r)' /\ InOnePlace(p, r)'
  /\ ~ (task'[r].status = "processing" /\ ~ task'[r].orphaned)

Others(p) ==
  \A q \in Procs \ {p} : batch'[q] = batch[q] /\ queue'[q] = queue[q] /\ job'[q].id = job[q].id

LEMMA HandsStep ==
  ASSUME Handled, NEW p \in Procs, Others(p), UNCHANGED reclaimed,
         \A r \in ResIds : Keeps(p, r) \/ LetsGo(p, r)
  PROVE  \A r \in ResIds : HandOK(r)'
<1> SUFFICES ASSUME NEW r \in ResIds PROVE HandOK(r)'
  OBVIOUS
<1>1. HandOK(r)
  BY DEF Handled
<1>2. \A q \in Procs \ {p} : InHand(q, r)' = InHand(q, r) /\ InOnePlace(q, r)' = InOnePlace(q, r)
  BY HandUntouched DEF Others
<1>3. CASE Keeps(p, r)
  <2>1. \A q \in Procs : /\ InHand(q, r)' = InHand(q, r)
                         /\ InOnePlace(q, r) => InOnePlace(q, r)'
    BY <1>2, <1>3 DEF Keeps
  <2> QED BY <1>1, <1>3, <2>1 DEF HandOK, Keeps
<1>4. CASE LetsGo(p, r)
  <2>1. Callers = {} /\ ~ reclaimed[r] => \A q \in Procs : InOnePlace(q, r)' /\ ~ InHand(q, r)'
    BY <1>1, <1>2, <1>4 DEF HandOK, LetsGo
  <2> QED BY <1>4, <2>1 DEF HandOK, LetsGo
<1> QED BY <1>3, <1>4

LEMMA InitHandled == Init => Handled
<1> SUFFICES ASSUME Init PROVE Handled
  OBVIOUS
<1>1. \A p \in Procs, r \in ResIds : ~ InHand(p, r) /\ InOnePlace(p, r)
  BY DEF Init, InHand, InBatch, InQueue, InJob, InOnePlace, Idle, ResIds, Workers
<1>2. \A r \in ResIds : HandOK(r)
  BY <1>1 DEF HandOK, Init, NoTask
<1>3. \A p \in Procs : LoopOK(p)
  BY FS_EmptySet DEF Init, LoopOK
<1> QED BY <1>2, <1>3 DEF Handled

\* Steps outside the processes: what is claimed stays as it is.
LEMMA ReservationHandled ==
  ASSUME Typed, Handled, NEW r \in ResIds, ReservationStep(r)
  PROVE  Handled'
<1>1. /\ UNCHANGED <<batch, queue, loop, picked, reclaimed>>
      /\ \A p \in Procs : job'[p] = job[p]
  <2>1. CASE UNCHANGED job
    BY <2>1 DEF ReservationStep, ReserveQuota, ReleaseQuota, ExpiryPasses, CleanupRelease,
            RetryFallsDue, ClaimGoesStale, AcceptTask, FallBack, procVars
  <2>2. ASSUME NEW c \in Callers, NEW cost \in Costs, FallBack(c, r, cost)
        PROVE  /\ UNCHANGED <<batch, queue, loop, picked, reclaimed>>
               /\ \A p \in Procs : job'[p] = job[p]
    BY <2>2, WorkersAssumption DEF FallBack, procVars, Typed, TypeOK, Workers
  <2> QED BY <2>1, <2>2 DEF ReservationStep, ReserveQuota, ReleaseQuota, ExpiryPasses,
             CleanupRelease, RetryFallsDue, ClaimGoesStale, AcceptTask
<1>2. ASSUME NEW q \in ResIds
      PROVE  \/ task'[q].status = task[q].status /\ task'[q].orphaned = task[q].orphaned
             \/ task[q].status = "none" /\ task'[q].status = "pending"
  <2>0. task \in [ResIds -> TaskRow] /\ task[q] \in TaskRow
    BY DEF Typed, TypeOK
  <2>1. CASE UNCHANGED task
    BY <2>1
  <2>2. CASE task' = [task EXCEPT ![r].due = TRUE] \/ task' = [task EXCEPT ![r].stale = TRUE]
    BY <2>0, <2>2 DEF TaskRow
  <2>3. ASSUME NEW cost, task[r].status = "none", task' = [task EXCEPT ![r] = NewTask(cost)]
        PROVE  task'[q] = task[q] \/ (task[q].status = "none" /\ task'[q].status = "pending")
    <3>1. NewTask(cost).status = "pending"
      BY DEF NewTask
    <3> HIDE DEF NewTask
    <3> QED BY <2>0, <2>3, <3>1
  <2> QED BY <2>1, <2>2, <2>3 DEF ReservationStep, ReserveQuota, ReleaseQuota, ExpiryPasses,
             CleanupRelease, RetryFallsDue, ClaimGoesStale, AcceptTask, FallBack, dbVars
<1>3. ASSUME NEW q \in ResIds PROVE HandOK(q)'
  <2>1. \A p \in Procs : InHand(p, q)' = InHand(p, q) /\ InOnePlace(p, q)' = InOnePlace(p, q)
    BY <1>1, HandUntouched
  <2>2. HandOK(q)
    BY DEF Handled
  <2> QED BY <1>1, <1>2, <2>1, <2>2 DEF HandOK
<1>4. \A p \in Procs : LoopOK(p)'
  BY <1>1 DEF Handled, LoopOK
<1> QED BY <1>3, <1>4 DEF Handled

\* A marked row is not claimed any more; no other row changes.
LEMMA MarkedRow ==
  ASSUME Typed, NEW r \in ResIds, NEW s \in {"failed", "completed"}, task' = Marked(r, s)
  PROVE  task'[r].status # "processing" /\ \A q \in ResIds \ {r} : task'[q] = task[q]
<1>1. task \in [ResIds -> TaskRow] /\ task[r] \in TaskRow
  BY DEF Typed, TypeOK
<1>2. CASE task[r].status = "processing"
  <2> DEFINE v == [task[r] EXCEPT !.status = s, !.due = FALSE, !.stale = FALSE, !.orphaned = FALSE]
  <2>1. task' = [task EXCEPT ![r] = v] /\ v.status = s
    BY <1>1, <1>2 DEF Marked, TaskRow
  <2> HIDE DEF v
  <2> QED BY <1>1, <2>1
<1>3. CASE task[r].status # "processing"
  BY <1>3 DEF Marked
<1> QED BY <1>2, <1>3

\* A worker that ends its job holds one claim less.
LEMMA JobEnds ==
  ASSUME Typed, NEW p \in Procs, job[p] # Idle, job' = [job EXCEPT ![p] = Idle],
         UNCHANGED <<batch, queue>>, NEW r \in ResIds
  PROVE  /\ r # job[p].id => InHand(p, r)' = InHand(p, r) /\ (InOnePlace(p, r) => InOnePlace(p, r)')
         /\ r = job[p].id => /\ InHand(p, r)
                             /\ InOnePlace(p, r) => ~ InHand(p, r)' /\ InOnePlace(p, r)'
<1>1. job'[p].id = 0 /\ r # 0
  BY DEF Typed, TypeOK, Workers, Idle, ResIds
<1>2. /\ InBatch(p, r)' = InBatch(p, r) /\ InQueue(p, r)' = InQueue(p, r)
      /\ ~ InJob(p, r)'
  BY <1>1 DEF InBatch, InQueue, InJob
<1> QED BY <1>2 DEF InHand, InOnePlace, InJob

LEMMA PipelineHandled ==
  ASSUME Typed, Handled, NEW p \in Procs, PipelineStep(p)
  PROVE  Handled'
<1>1. p \in Workers
  BY DEF Workers
<1>2. /\ UNCHANGED <<batch, queue, loop, picked, reclaimed>>
      /\ job[p] # Idle
      /\ \A q \in Procs \ {p} : job'[q] = job[q]
  <2>1. /\ UNCHANGED <<batch, queue, loop, picked, reclaimed>> /\ job[p] # Idle
        /\ \/ \E s : job' = [job EXCEPT ![p].at = s]
           \/ job' = [job EXCEPT ![p] = Idle]
    BY DEF PipelineStep, CommitQuota, ReportUsage, PipelineFails, Complete, Fail, Abandon,
           procVars, Idle
  <2> QED BY <2>1 DEF Typed, TypeOK, Workers
<1>3. Others(p) /\ \A q \in Procs : LoopOK(q)'
  BY <1>2 DEF Others, Handled, LoopOK
<1>4. /\ task \in [ResIds -> TaskRow] /\ job \in [Workers -> Job \cup {Idle}]
      /\ job[p].id \in ResIds
  BY <1>1, <1>2 DEF Typed, TypeOK, Job
<1>5. ASSUME NEW r \in ResIds PROVE Keeps(p, r) \/ LetsGo(p, r)
  <2>1. CASE CommitQuota(p) \/ ReportUsage(p) \/ PipelineFails(p)
    <3>1. UNCHANGED task /\ job'[p].id = job[p].id
      <4>1. PICK s : job' = [job EXCEPT ![p].at = s]
        BY <2>1 DEF CommitQuota, ReportUsage, PipelineFails
      <4>2. job[p] \in Job /\ job'[p] = [job[p] EXCEPT !.at = s]
        BY <1>1, <1>2, <1>4, <4>1
      <4> QED BY <2>1, <4>2 DEF CommitQuota, ReportUsage, PipelineFails, dbVars, Job
    <3> QED BY <1>2, <3>1, HandUntouched DEF Keeps
  <2>2. CASE Complete(p) \/ Fail(p) \/ Abandon(p)
    <3>1. job' = [job EXCEPT ![p] = Idle]
      BY <2>2 DEF Complete, Fail, Abandon
    <3>2. r # job[p].id => task'[r] = task[r]
      BY <1>4, <2>2 DEF Complete, Fail, Abandon, MarkCompleted, MarkFailed, Marked, Orphan
    <3>3. r = job[p].id => ~ (task'[r].status = "processing" /\ ~ task'[r].orphaned)
      <4>1. CASE Complete(p) \/ Fail(p)
        <5>1. PICK s \in {"failed", "completed"} : task' = Marked(job[p].id, s)
          BY <4>1 DEF Complete, Fail, MarkCompleted, MarkFailed
        <5> QED BY <5>1, MarkedRow
      <4>2. CASE Abandon(p)
        BY <1>1, <1>4, <4>2 DEF Abandon, Orphan, TaskRow
      <4> QED BY <2>2, <4>1, <4>2
    <3> QED BY <1>1, <1>2, <3>1, <3>2, <3>3, JobEnds DEF Keeps, LetsGo
  <2> QED BY <2>1, <2>2 DEF PipelineStep
<1>6. \A r \in ResIds : HandOK(r)'
  BY <1>1, <1>2, <1>3, <1>5, HandsStep
<1> QED BY <1>3, <1>6 DEF Handled

\* A synchronous fallback marks a row whoever claimed it; what it abandons it
\* had never claimed.
LEMMA CallerHandled ==
  ASSUME Typed, Handled, NEW c \in Callers, PipelineStep(c)
  PROVE  Handled'
<1>1. c \notin Procs /\ c \in Workers /\ Callers # {}
  BY WorkersAssumption DEF Workers
<1>2. /\ UNCHANGED <<batch, queue, loop, picked>> /\ job[c] # Idle
      /\ \A q \in Procs : job'[q] = job[q]
  <2>1. /\ UNCHANGED <<batch, queue, loop, picked>> /\ job[c] # Idle
        /\ \/ \E s : job' = [job EXCEPT ![c].at = s]
           \/ job' = [job EXCEPT ![c] = Idle]
    BY DEF PipelineStep, CommitQuota, ReportUsage, PipelineFails, Complete, Fail, Abandon,
           procVars, Idle
  <2> QED BY <1>1, <2>1 DEF Typed, TypeOK, Workers
<1>3. job[c].id \in ResIds
  BY <1>1, <1>2 DEF Typed, TypeOK, Job
<1>4. ASSUME NEW r \in ResIds PROVE task'[r] = task[r] \/ task'[r].status # "processing"
  <2>1. CASE UNCHANGED task
    BY <2>1
  <2>2. CASE Complete(c) \/ Fail(c)
    <3>1. PICK s \in {"failed", "completed"} : task' = Marked(job[c].id, s)
      BY <2>2 DEF Complete, Fail, MarkCompleted, MarkFailed
    <3> QED BY <1>3, <3>1, MarkedRow
  <2> QED BY <1>1, <2>1, <2>2 DEF PipelineStep, CommitQuota, ReportUsage, PipelineFails, Abandon,
             dbVars
<1>5. ASSUME NEW r \in ResIds PROVE HandOK(r)'
  <2>1. \A q \in Procs : InHand(q, r)' = InHand(q, r)
    BY <1>2, HandUntouched
  <2> QED BY <1>1, <1>4, <2>1 DEF Handled, HandOK
<1>6. \A q \in Procs : LoopOK(q)'
  BY <1>2 DEF Handled, LoopOK
<1> QED BY <1>5, <1>6 DEF Handled

\* The number of claims in memory, which Held counts.
LEMMA HeldInHand ==
  ASSUME Typed, NEW p \in Procs, LoopOK(p), NEW r \in ResIds
  PROVE  (Held(p, r) > 0 <=> InHand(p, r)) /\ (InOnePlace(p, r) => Held(p, r) <= 1)
<1>1. PICK B \in SUBSET batch[p] : B = {t \in batch[p] : t.id = r}
  OBVIOUS
<1>2. PICK Q \in SUBSET (1..Len(queue[p])) : Q = {i \in 1..Len(queue[p]) : queue[p][i].id = r}
  OBVIOUS
<1>3. /\ IsFiniteSet(B) /\ Cardinality(B) \in Nat
      /\ Cardinality(B) = 0 <=> B = {}
  BY <1>1, FS_Subset, FS_CardinalityType, FS_EmptySet DEF LoopOK
<1>4. /\ IsFiniteSet(Q) /\ Cardinality(Q) \in Nat
      /\ Cardinality(Q) = 0 <=> Q = {}
  <2>1. queue[p] \in Seq(Task)
    BY DEF Typed, TypeOK
  <2>2. Len(queue[p]) \in Nat
    BY <2>1
  <2>3. IsFiniteSet(1..Len(queue[p]))
    BY <2>2, FS_Interval
  <2> QED BY <1>2, <2>3, FS_Subset, FS_CardinalityType, FS_EmptySet
<1>5. Held(p, r) = Cardinality(B) + Cardinality(Q) + (IF InJob(p, r) THEN 1 ELSE 0)
  BY <1>1, <1>2 DEF Held, InJob
<1>6. (B # {} <=> InBatch(p, r)) /\ (Q # {} <=> InQueue(p, r))
  BY <1>1, <1>2 DEF InBatch, InQueue
<1>7. Held(p, r) > 0 <=> InHand(p, r)
  <2>1. CASE InJob(p, r)
    BY <1>3, <1>4, <1>5, <2>1 DEF InHand
  <2>2. CASE ~ InJob(p, r)
    <3>1. PICK b \in Nat, q \in Nat : b = Cardinality(B) /\ q = Cardinality(Q)
      BY <1>3, <1>4
    <3>2. Held(p, r) = b + q
      BY <1>5, <2>2, <3>1
    <3>3. (b = 0 <=> ~ InBatch(p, r)) /\ (q = 0 <=> ~ InQueue(p, r))
      BY <1>3, <1>4, <1>6, <3>1
    <3>4. Held(p, r) > 0 <=> ~ (b = 0 /\ q = 0)
      BY <3>2
    <3> QED BY <2>2, <3>3, <3>4 DEF InHand
  <2> QED BY <2>1, <2>2
<1>8. ASSUME InOnePlace(p, r) PROVE Held(p, r) <= 1
  <2>1. Cardinality(B) <= 1
    <3>1. CASE B = {}
      BY <1>3, <3>1
    <3>2. CASE B # {}
      <4>1. \A t, u \in B : t = u
        BY <1>1, <1>8 DEF InOnePlace
      <4>2. PICK t \in B : B = {t}
        BY <3>2, <4>1
      <4>3. Cardinality({t}) = 1
        BY FS_Singleton
      <4> QED BY <4>2, <4>3
    <3> QED BY <3>1, <3>2
  <2>2. Cardinality(Q) <= 1
    <3>1. CASE Q = {}
      BY <1>4, <3>1
    <3>2. CASE Q # {}
      <4>1. \A i, j \in Q : i = j
        BY <1>2, <1>8 DEF InOnePlace
      <4>2. PICK i \in Q : Q = {i}
        BY <3>2, <4>1
      <4>3. Cardinality({i}) = 1
        BY FS_Singleton
      <4> QED BY <4>2, <4>3
    <3> QED BY <3>1, <3>2
  <2>3. /\ Cardinality(B) = 0 \/ (Cardinality(Q) = 0 /\ ~ InJob(p, r))
        /\ Cardinality(Q) = 0 \/ ~ InJob(p, r)
    BY <1>3, <1>4, <1>6, <1>8 DEF InOnePlace
  <2> QED BY <1>3, <1>4, <1>5, <2>1, <2>2, <2>3
<1> QED BY <1>7, <1>8

LEMMA ClaimHandled ==
  ASSUME Typed, Handled, NEW p \in Procs, NEW lost \in BOOLEAN, Claim(p, lost)
  PROVE  Handled'
<1> DEFINE claimed == {r \in picked[p] : StillClaimable(task[r])}
<1>1. /\ task \in [ResIds -> TaskRow] /\ picked[p] \in SUBSET ResIds
      /\ batch[p] = {} /\ loop[p] /\ claimed \in SUBSET ResIds
  BY DEF Claim, Handled, LoopOK, Typed, TypeOK
<1>2. /\ batch'[p] = IF lost THEN {} ELSE {[id |-> r, cost |-> task[r].cost] : r \in claimed}
      /\ picked'[p] = {} /\ UNCHANGED <<queue, job, loop>>
      /\ \A q \in Procs \ {p} : batch'[q] = batch[q] /\ picked'[q] = picked[q]
  BY DEF Claim, Typed, TypeOK
<1>3. ASSUME NEW r \in ResIds
      PROVE  /\ r \notin claimed => task'[r] = task[r] /\ reclaimed'[r] = reclaimed[r]
             /\ r \in claimed => /\ task'[r].status = "processing" /\ task'[r].orphaned = lost
                                 /\ ~ reclaimed'[r] => ~ reclaimed[r] /\ task[r].status # "processing"
  <2>1. /\ task'[r] = IF r \in claimed
                      THEN [task[r] EXCEPT !.status = "processing", !.stale = FALSE, !.orphaned = lost]
                      ELSE task[r]
        /\ reclaimed'[r] = (reclaimed[r] \/ (r \in claimed /\ task[r].stale))
    BY DEF Claim
  <2>2. r \in claimed => Claimable(task[r])
    BY DEF StillClaimable
  <2> HIDE DEF claimed
  <2>3. reclaimed[r] \in BOOLEAN /\ task[r] \in TaskRow
    BY DEF Typed, TypeOK
  <2>4. CASE r \in claimed
    <3>1. task'[r].status = "processing" /\ task'[r].orphaned = lost
      BY <2>1, <2>3, <2>4 DEF TaskRow
    <3>2. ~ reclaimed'[r] => ~ reclaimed[r] /\ task[r].status # "processing"
      BY <2>1, <2>2, <2>4 DEF Claimable, Unstarted
    <3> QED BY <2>4, <3>1, <3>2
  <2>5. CASE r \notin claimed
    BY <2>1, <2>3, <2>5
  <2> QED BY <2>4, <2>5
<1>4. ASSUME NEW q \in Procs
      PROVE  LoopOK(q)'
  <2>1. LoopOK(q)
    BY DEF Handled
  <2>2. CASE q = p
    <3>1. IsFiniteSet(claimed)
      <4>1. IsFiniteSet(ResIds)
        BY CountsAssumption, FS_Interval DEF ResIds
      <4> QED BY <1>1, <4>1, FS_Subset
    <3> HIDE DEF claimed
    <3>2. PICK f : f = [r \in claimed |-> [id |-> r, cost |-> task[r].cost]]
      OBVIOUS
    <3>3. ~ lost => f \in Surjection(claimed, batch'[p])
      BY <1>2, <3>2 DEF Surjection
    <3>4. IsFiniteSet(batch'[p])
      BY <1>2, <3>1, <3>3, FS_Surjection, FS_EmptySet
    <3> QED BY <1>1, <1>2, <2>2, <3>4 DEF LoopOK
  <2>3. CASE q # p
    BY <1>2, <2>1, <2>3 DEF LoopOK
  <2> QED BY <2>2, <2>3
<1> HIDE DEF claimed
<1>5. ASSUME NEW r \in ResIds PROVE HandOK(r)'
  <2>1. HandOK(r) /\ ~ InBatch(p, r)
    BY <1>1 DEF Handled, InBatch
  <2>2. \A q \in Procs \ {p} : InHand(q, r)' = InHand(q, r) /\ InOnePlace(q, r)' = InOnePlace(q, r)
    BY <1>2, HandUntouched
  <2>3. /\ InBatch(p, r)' <=> r \in claimed /\ ~ lost
        /\ InQueue(p, r)' = InQueue(p, r) /\ InJob(p, r)' = InJob(p, r)
    <3>1. InQueue(p, r)' = InQueue(p, r) /\ InJob(p, r)' = InJob(p, r)
      BY <1>2 DEF InQueue, InJob
    <3>2. ASSUME r \in claimed, ~ lost PROVE InBatch(p, r)'
      <4>1. [id |-> r, cost |-> task[r].cost] \in batch'[p]
        BY <1>2, <3>2
      <4> QED BY <4>1 DEF InBatch
    <3>3. ASSUME InBatch(p, r)' PROVE r \in claimed /\ ~ lost
      <4>1. PICK t \in batch'[p] : t.id = r
        BY <3>3 DEF InBatch
      <4>2. ~ lost /\ \E q \in claimed : t = [id |-> q, cost |-> task[q].cost]
        BY <1>2, <4>1
      <4> QED BY <4>1, <4>2
    <3> QED BY <3>1, <3>2, <3>3
  <2>4. CASE r \notin claimed
    <3>1. InHand(p, r)' = InHand(p, r) /\ (InOnePlace(p, r) => InOnePlace(p, r)')
      <4>1. InHand(p, r)' = InHand(p, r)
        BY <2>1, <2>3, <2>4 DEF InHand
      <4>2. \A t \in batch'[p] : t.id # r
        BY <2>3, <2>4 DEF InBatch
      <4> QED BY <1>2, <2>3, <2>4, <4>1, <4>2 DEF InOnePlace
    <3> QED BY <1>3, <2>1, <2>2, <2>4, <3>1 DEF HandOK
  <2>5. CASE r \in claimed
    <3>1. ~ lost => InHand(p, r)'
      BY <2>3, <2>5 DEF InHand
    <3>2. ASSUME Callers = {}, ~ reclaimed'[r]
          PROVE  InOnePlace(p, r)' /\ \A q \in Procs \ {p} : ~ InHand(q, r)' /\ InOnePlace(q, r)'
      <4>1. ~ reclaimed[r] /\ task[r].status # "processing"
        BY <1>3, <2>5, <3>2
      <4>2. \A q \in Procs : ~ InHand(q, r) /\ InOnePlace(q, r)
        BY <2>1, <3>2, <4>1 DEF HandOK
      <4>3. ~ InQueue(p, r)' /\ ~ InJob(p, r)'
        BY <2>3, <4>2 DEF InHand
      <4>4. \A t, u \in batch'[p] : t.id = r /\ u.id = r => t = u
        BY <1>2
      <4>5. InOnePlace(p, r)'
        BY <1>2, <4>2, <4>3, <4>4 DEF InOnePlace
      <4> QED BY <2>2, <4>2, <4>5
    <3> QED BY <1>3, <2>5, <3>1, <3>2 DEF HandOK
  <2> QED BY <2>4, <2>5
<1> QED BY <1>4, <1>5 DEF Handled

\* The oldest claimed task of the batch moves to the queue, or is put back.
LEMMA EnqueueHandled ==
  ASSUME Typed, Handled, NEW p \in Procs, Enqueue(p)
  PROVE  Handled'
<1>1. PICK t \in batch[p] :
        /\ batch' = [batch EXCEPT ![p] = @ \ {t}]
        /\ \/ queue' = [queue EXCEPT ![p] = Append(@, t)] /\ UNCHANGED task
           \/ MarkFailed(t.id) /\ UNCHANGED queue
           \/ task' = Orphan({t.id}) /\ UNCHANGED queue
        /\ UNCHANGED <<loop, picked, job, reclaimed>>
  BY DEF Enqueue
<1>2. /\ batch'[p] = batch[p] \ {t} /\ t \in Task
      /\ \A q \in Procs \ {p} : batch'[q] = batch[q] /\ queue'[q] = queue[q]
      /\ queue[p] \in Seq(Task)
  <2>1. /\ batch \in [Procs -> SUBSET Task] /\ queue \in [Procs -> Seq(Task)]
    BY DEF Typed, TypeOK
  <2> QED BY <1>1, <2>1
<1>3. ASSUME NEW q \in Procs PROVE LoopOK(q)'
  <2>1. LoopOK(q)
    BY DEF Handled
  <2>2. CASE q = p
    <3>1. IsFiniteSet(batch'[p])
      BY <1>2, <2>1, <2>2, FS_Subset DEF LoopOK
    <3> QED BY <1>1, <2>1, <2>2, <3>1 DEF LoopOK
  <2>3. CASE q # p
    BY <1>1, <1>2, <2>1, <2>3 DEF LoopOK
  <2> QED BY <2>2, <2>3
<1>4. Others(p)
  BY <1>1, <1>2 DEF Others
<1>5. ASSUME NEW r \in ResIds PROVE Keeps(p, r) \/ LetsGo(p, r)
  <2>1. InJob(p, r)' = InJob(p, r)
    BY <1>1 DEF InJob
  <2>2. /\ r # t.id => InBatch(p, r)' = InBatch(p, r)
        /\ r = t.id => InBatch(p, r) /\ (InOnePlace(p, r) => ~ InBatch(p, r)')
    BY <1>2 DEF InBatch, InOnePlace
  <2>3. \A u, v \in batch'[p] : u \in batch[p] /\ v \in batch[p]
    BY <1>2
  <2>4. CASE queue' = [queue EXCEPT ![p] = Append(@, t)] /\ UNCHANGED task
    <3>1. queue'[p] = Append(queue[p], t)
      BY <2>4 DEF Typed, TypeOK
    <3>2. PICK n \in Nat : n = Len(queue[p])
      BY <1>2
    <3>3. /\ Len(queue'[p]) = n + 1
          /\ queue'[p][n + 1] = t
          /\ \A i \in 1..n : queue'[p][i] = queue[p][i]
      BY <1>2, <3>1, <3>2
    <3>4. 1..(n + 1) = (1..n) \cup {n + 1} /\ n + 1 \notin 1..n
      BY <3>2
    <3>5. InQueue(p, r)' <=> InQueue(p, r) \/ r = t.id
      BY <3>2, <3>3, <3>4 DEF InQueue
    <3>6. ASSUME r # t.id PROVE Keeps(p, r)
      <4>1. InHand(p, r)' = InHand(p, r)
        BY <2>1, <2>2, <3>5, <3>6 DEF InHand
      <4>2. InOnePlace(p, r) => InOnePlace(p, r)'
        BY <2>1, <2>2, <2>3, <3>2, <3>3, <3>4, <3>5, <3>6 DEF InOnePlace
      <4> QED BY <2>4, <4>1, <4>2 DEF Keeps
    <3>7. ASSUME r = t.id PROVE Keeps(p, r)
      <4>1. InHand(p, r)' = InHand(p, r)
        BY <2>2, <3>5, <3>7 DEF InHand
      <4>2. ASSUME InOnePlace(p, r) PROVE InOnePlace(p, r)'
        <5>1. ~ InQueue(p, r) /\ ~ InJob(p, r) /\ ~ InBatch(p, r)'
          BY <2>2, <3>7, <4>2 DEF InOnePlace
        <5>2. \A i \in 1..n : queue'[p][i].id # r
          BY <3>2, <3>3, <5>1 DEF InQueue
        <5>3. \A i, j \in 1..Len(queue'[p]) :
                queue'[p][i].id = r /\ queue'[p][j].id = r => i = j
          BY <3>3, <3>4, <5>2
        <5>4. \A u, v \in batch'[p] : u.id = r /\ v.id = r => u = v
          BY <5>1 DEF InBatch
        <5> QED BY <2>1, <5>1, <5>3, <5>4 DEF InOnePlace
      <4> QED BY <2>4, <4>1, <4>2 DEF Keeps
    <3> QED BY <3>6, <3>7
  <2>5. CASE (MarkFailed(t.id) \/ task' = Orphan({t.id})) /\ UNCHANGED queue
    <3>1. t.id \in ResIds
      BY <1>2 DEF Task
    <3>2. ASSUME NEW s \in {"failed", "completed"}, task' = Marked(t.id, s)
          PROVE  /\ ~ (task'[t.id].status = "processing" /\ ~ task'[t.id].orphaned)
                 /\ \A q \in ResIds \ {t.id} : task'[q] = task[q]
      BY <3>1, <3>2, MarkedRow
    <3>3. /\ ~ (task'[t.id].status = "processing" /\ ~ task'[t.id].orphaned)
          /\ \A q \in ResIds \ {t.id} : task'[q] = task[q]
      <4>1. CASE task' = Orphan({t.id})
        <5>1. task[t.id] \in TaskRow
          BY <3>1 DEF Typed, TypeOK
        <5> QED BY <3>1, <4>1, <5>1 DEF Orphan, TaskRow
      <4> QED BY <2>5, <3>2, <4>1 DEF MarkFailed
    <3>4. InQueue(p, r)' = InQueue(p, r)
      BY <2>5 DEF InQueue
    <3>5. InOnePlace(p, r) => InOnePlace(p, r)'
      BY <2>1, <2>2, <2>3, <2>5, <3>4 DEF InOnePlace
    <3>6. ASSUME r # t.id PROVE Keeps(p, r)
      BY <2>1, <2>2, <3>3, <3>4, <3>5, <3>6 DEF InHand, Keeps
    <3>7. ASSUME r = t.id PROVE LetsGo(p, r)
      <4>1. InOnePlace(p, r) => ~ InHand(p, r)'
        BY <2>1, <2>2, <3>4, <3>7 DEF InHand, InOnePlace
      <4> QED BY <2>2, <3>3, <3>5, <3>7, <4>1 DEF LetsGo, InHand
    <3> QED BY <3>6, <3>7
  <2> QED BY <1>1, <2>4, <2>5
<1>6. \A r \in ResIds : HandOK(r)'
  BY <1>1, <1>4, <1>5, HandsStep
<1> QED BY <1>3, <1>6 DEF Handled

\* The worker takes the head of the queue.
LEMMA TakeHandled ==
  ASSUME Typed, Handled, NEW p \in Procs, TakeTask(p)
  PROVE  Handled'
<1>1. /\ queue[p] \in Seq(Task) /\ queue[p] # <<>>
      /\ queue'[p] = Tail(queue[p]) /\ job[p] = Idle /\ job'[p].id = Head(queue[p]).id
      /\ \A q \in Procs \ {p} : queue'[q] = queue[q] /\ job'[q] = job[q]
      /\ UNCHANGED <<batch, loop, picked, task, reclaimed>>
  BY DEF TakeTask, Typed, TypeOK, dbVars, Workers
<1>2. Others(p) /\ \A q \in Procs : LoopOK(q)'
  BY <1>1 DEF Others, Handled, LoopOK
<1>3. PICK n \in Nat : n + 1 = Len(queue[p])
  <2>1. Len(queue[p]) \in Nat /\ Len(queue[p]) # 0
    BY <1>1
  <2> QED BY <2>1
<1>4. /\ Len(queue'[p]) = n /\ Head(queue[p]) = queue[p][1]
      /\ \A i \in 1..n : queue'[p][i] = queue[p][i + 1]
  BY <1>1, <1>3
<1>5. ASSUME NEW r \in ResIds PROVE Keeps(p, r)
  <2>1. InBatch(p, r)' = InBatch(p, r) /\ ~ InJob(p, r)
    BY <1>1 DEF InBatch, InJob, Idle, ResIds
  <2>2. InJob(p, r)' <=> queue[p][1].id = r
    BY <1>1, <1>4 DEF InJob
  <2>3. InQueue(p, r) <=> \E i \in 1..(n + 1) : queue[p][i].id = r
    BY <1>3 DEF InQueue
  <2>4. InQueue(p, r)' <=> \E i \in 1..n : queue[p][i + 1].id = r
    BY <1>4 DEF InQueue
  <2>5. InQueue(p, r) <=> InQueue(p, r)' \/ InJob(p, r)'
    <3>1. \A i \in 1..(n + 1) : i = 1 \/ (i - 1 \in 1..n /\ i = (i - 1) + 1)
      OBVIOUS
    <3>2. 1 \in 1..(n + 1) /\ \A i \in 1..n : i + 1 \in 1..(n + 1)
      OBVIOUS
    <3> QED BY <2>2, <2>3, <2>4, <3>1, <3>2
  <2>6. InHand(p, r)' = InHand(p, r)
    BY <2>1, <2>5 DEF InHand
  <2>7. ASSUME InOnePlace(p, r) PROVE InOnePlace(p, r)'
    <3>1. \A i, j \in 1..(n + 1) : queue[p][i].id = r /\ queue[p][j].id = r => i = j
      BY <1>3, <2>7 DEF InOnePlace
    <3>2. InQueue(p, r)' => ~ InJob(p, r)'
      <4>1. \A i \in 1..n : 1 \in 1..(n + 1) /\ i + 1 \in 1..(n + 1) /\ i + 1 # 1
        OBVIOUS
      <4> QED BY <2>2, <2>4, <3>1, <4>1
    <3>3. \A i, j \in 1..Len(queue'[p]) : queue'[p][i].id = r /\ queue'[p][j].id = r => i = j
      <4>1. \A i \in 1..n : i + 1 \in 1..(n + 1)
        OBVIOUS
      <4>2. \A i, j \in 1..n : queue[p][i + 1].id = r /\ queue[p][j + 1].id = r => i + 1 = j + 1
        BY <3>1, <4>1
      <4>3. \A i, j \in 1..n : i + 1 = j + 1 => i = j
        OBVIOUS
      <4>4. Len(queue'[p]) = n /\ \A i \in 1..n : queue'[p][i].id = queue[p][i + 1].id
        BY <1>4
      <4>5. ASSUME NEW i \in 1..n, NEW j \in 1..n, queue'[p][i].id = r, queue'[p][j].id = r
            PROVE  i = j
        <5>1. queue[p][i + 1].id = r /\ queue[p][j + 1].id = r
          BY <4>4, <4>5
        <5>2. i + 1 = j + 1
          BY <4>2, <5>1
        <5> QED BY <4>3, <5>2
      <4> QED BY <4>4, <4>5
    <3>4. InBatch(p, r) => ~ InQueue(p, r)
      BY <2>7 DEF InOnePlace
    <3>5. \A t, u \in batch'[p] : t.id = r /\ u.id = r => t = u
      BY <1>1, <2>7 DEF InOnePlace
    <3> QED BY <2>1, <2>5, <3>2, <3>3, <3>4, <3>5 DEF InOnePlace
  <2> QED BY <1>1, <2>6, <2>7 DEF Keeps
<1>6. \A r \in ResIds : HandOK(r)'
  BY <1>1, <1>2, <1>5, HandsStep
<1> QED BY <1>2, <1>6 DEF Handled

LEMMA ProcessHandled ==
  ASSUME Typed, Handled, NEW p \in Procs, ProcessStep(p)
  PROVE  Handled'
<1>1. CASE ClaimPending(p) \/ ClaimLost(p) \/ Enqueue(p) \/ TakeTask(p)
  BY <1>1, ClaimHandled, EnqueueHandled, TakeHandled DEF ClaimPending, ClaimLost
<1>2. CASE SelectPending(p) \/ Close(p) \/ StopRecovery(p) \/ Restart(p)
  <2>1. UNCHANGED <<batch, queue, job, task, reclaimed>>
    BY <1>2 DEF SelectPending, Close, StopRecovery, Restart, dbVars
  <2>2. \A q \in Procs, r \in ResIds :
          InHand(q, r)' = InHand(q, r) /\ InOnePlace(q, r)' = InOnePlace(q, r)
    BY <2>1, HandUntouched
  <2>3. \A r \in ResIds : HandOK(r)'
    BY <2>1, <2>2 DEF Handled, HandOK
  <2>4. ASSUME NEW q \in Procs PROVE LoopOK(q)'
    <3>1. LoopOK(q) /\ picked \in [Procs -> SUBSET ResIds] /\ loop \in [Procs -> BOOLEAN]
      BY DEF Handled, Typed, TypeOK
    <3> QED BY <1>2, <2>1, <3>1 DEF LoopOK, SelectPending, Close, StopRecovery, Restart
  <2> QED BY <2>3, <2>4 DEF Handled
<1>3. CASE Exit(p) \/ Crash(p)
  <2>1. /\ UNCHANGED reclaimed
        /\ batch'[p] = {} /\ queue'[p] = <<>> /\ job'[p] = Idle /\ picked'[p] = {}
        /\ \A q \in Procs \ {p} : /\ batch'[q] = batch[q] /\ queue'[q] = queue[q]
                                  /\ job'[q] = job[q] /\ picked'[q] = picked[q]
                                  /\ loop'[q] = loop[q]
    BY <1>3 DEF Exit, Crash, MemoryGone, Typed, TypeOK, Workers
  <2>2. Others(p)
    BY <2>1 DEF Others
  <2>3. ASSUME NEW q \in Procs PROVE LoopOK(q)'
    <3>1. LoopOK(q)
      BY DEF Handled
    <3>2. IsFiniteSet({})
      BY FS_EmptySet
    <3> QED BY <2>1, <3>1, <3>2 DEF LoopOK
  <2>4. ASSUME NEW r \in ResIds PROVE ~ InHand(p, r)' /\ InOnePlace(p, r)'
    <3>1. ~ InBatch(p, r)' /\ ~ InQueue(p, r)' /\ ~ InJob(p, r)'
      BY <2>1 DEF InBatch, InQueue, InJob, Idle, ResIds
    <3> QED BY <2>1, <3>1 DEF InHand, InOnePlace
  <2>5. ASSUME NEW r \in ResIds PROVE Keeps(p, r) \/ LetsGo(p, r)
    <3>1. CASE Exit(p)
      <4>1. batch[p] = {} /\ queue[p] = <<>> /\ job[p] = Idle /\ UNCHANGED task
        BY <3>1 DEF Exit, Drained, Handled, LoopOK
      <4>2. ~ InBatch(p, r) /\ ~ InQueue(p, r) /\ ~ InJob(p, r)
        BY <4>1 DEF InBatch, InQueue, InJob, Idle, ResIds
      <4> QED BY <2>4, <4>1, <4>2 DEF InHand, Keeps
    <3>2. CASE Crash(p)
      <4>1. Held(p, r) > 0 <=> InHand(p, r)
        BY HeldInHand DEF Handled
      <4>2. task'[r] = IF Held(p, r) > 0 /\ task[r].status = "processing"
                       THEN [task[r] EXCEPT !.orphaned = TRUE] ELSE task[r]
        BY <3>2 DEF Crash, Orphan
      <4>3. CASE InHand(p, r)
        <5>1. task[r] \in TaskRow
          BY DEF Typed, TypeOK
        <5>2. ~ (task'[r].status = "processing" /\ ~ task'[r].orphaned)
          BY <4>1, <4>2, <4>3, <5>1 DEF TaskRow
        <5> QED BY <2>4, <4>3, <5>2 DEF LetsGo
      <4>4. CASE ~ InHand(p, r)
        <5>1. InHand(p, r)' = InHand(p, r)
          BY <2>4, <4>4 DEF InHand
        <5>2. task'[r] = task[r]
          BY <4>1, <4>2, <4>4
        <5> QED BY <2>4, <5>1, <5>2 DEF Keeps
      <4> QED BY <4>3, <4>4
    <3> QED BY <1>3, <3>1, <3>2
  <2>6. \A r \in ResIds : HandOK(r)'
    BY <2>1, <2>2, <2>5, HandsStep
  <2> QED BY <2>3, <2>6 DEF Handled
<1> QED BY <1>1, <1>2, <1>3 DEF ProcessStep

LEMMA StepHandled ==
  ASSUME Typed, Handled, [Next]_vars
  PROVE  Handled'
<1>1. CASE UNCHANGED <<batch, queue, job, loop, picked, task, reclaimed>>
  <2>1. \A q \in Procs, r \in ResIds :
          InHand(q, r)' = InHand(q, r) /\ InOnePlace(q, r)' = InOnePlace(q, r)
    BY <1>1, HandUntouched
  <2> QED BY <1>1, <2>1 DEF Handled, HandOK, LoopOK
<1>2. CASE CleanupSelect \/ UNCHANGED vars
  BY <1>1, <1>2 DEF CleanupSelect, vars, dbVars, procVars
<1>3. CASE \E r \in ResIds : ReservationStep(r)
  BY <1>3, ReservationHandled
<1>4. CASE \E w \in Workers : PipelineStep(w)
  BY <1>4, PipelineHandled, CallerHandled DEF Workers
<1>5. CASE \E p \in Procs : ProcessStep(p)
  BY <1>5, ProcessHandled
<1> QED BY <1>2, <1>3, <1>4, <1>5 DEF Next

LEMMA AlwaysHandled == Spec => [](Typed /\ Handled)
<1>1. Init => Typed /\ Handled
  BY InitTyped, InitHandled
<1>2. Typed /\ Handled /\ [Next]_vars => Typed' /\ Handled'
  BY StepTyped, StepHandled
<1> QED BY <1>1, <1>2, PTL DEF Spec

\* When every settlement is accepted through a receipt (no synchronous
\* fallback), a task is in the hands of one goroutine of one replica unless a
\* claim of 300 s was taken over: the claiming UPDATE repeats the SELECT's
\* condition, and a batch, a queue and a worker never share a claim.
THEOREM OneHolderHolds == ASSUME Callers = {} PROVE Spec => []OneHolder
<1>1. Typed /\ Handled => OneHolder
  <2> SUFFICES ASSUME Typed, Handled, NEW r \in ResIds, ~ reclaimed[r]
               PROVE  /\ \A p \in Procs : Held(p, r) <= 1
                      /\ \A p, q \in Procs : Held(p, r) > 0 /\ Held(q, r) > 0 => p = q
    BY DEF OneHolder
  <2>1. \A p \in Procs : /\ Held(p, r) > 0 <=> InHand(p, r)
                         /\ InOnePlace(p, r) => Held(p, r) <= 1
    BY HeldInHand DEF Handled
  <2> QED BY <2>1 DEF Handled, HandOK
<1> QED BY <1>1, AlwaysHandled, PTL

\* A claimed row that no crash or lost mark orphaned is in the hands of some
\* process, fallbacks or not: a full queue marks the task it refuses, and a
\* Close drains what was claimed, so no row stays in processing for nobody
\* until its claim gets 300 s old.
THEOREM ClaimsHeld == Spec => []ClaimsAreHeld
<1>1. Typed /\ Handled => ClaimsAreHeld
  <2>1. ASSUME Typed, Handled PROVE \A p \in Procs, r \in ResIds : Held(p, r) > 0 <=> InHand(p, r)
    BY <2>1, HeldInHand DEF Handled
  <2> QED BY <2>1 DEF ClaimsAreHeld, Handled, HandOK
<1> QED BY <1>1, AlwaysHandled, PTL
=============================================================================
