--------------------------- MODULE ExecutionProofs ---------------------------
(***************************************************************************)
(* Proofs about execution evidence, for any relays, handlers, reservations,*)
(* outbox capacity and number of faults: types and the capacity of the     *)
(* outbox, one upstream send per intent, room for the evidence of admitted *)
(* attempts, and no charge without evidence or after the deadline.         *)
(***************************************************************************)
EXTENDS ExecutionDelivery, FiniteSetTheorems, TLAPS

RowTable  == [Relays -> [Reservations -> [Categories -> {"absent", "pending", "acknowledged"}]]]
SlotTable == [Relays -> [Reservations -> SUBSET Slots]]
SaidTable == [Relays -> [Reservations -> [{"terminal", "final"} -> Verdicts \cup {None}]]]
Handler   == [at : Places, res : Reservations \cup {None}, sent : BOOLEAN,
              failed : BOOLEAN, last : Verdicts \cup {None}]
Task      == [status : {"none", "pending", "completed", "expired"},
              verdict : Verdicts \cup {None}]

\* TypeOK but for the bound on the other requests' rows, which is a fact about
\* capacity; and a handler that is busy has a reservation.
RelayTyped ==
  /\ rows \in RowTable /\ slots \in SlotTable /\ said \in SaidTable
  /\ others \in [Relays -> Nat]
  /\ sends \in [Relays -> [Reservations -> Nat]]
  /\ call \in [Callers -> Handler]
  /\ calls \in [Callers -> Nat]
  /\ \A c \in Callers : call[c].at # "idle" => call[c].res \in Reservations

BillingTyped ==
  /\ res \in [Reservations -> {"none", "reserved", "committed", "released", "expired"}]
  /\ past \in [Reservations -> BOOLEAN]
  /\ inbox \in [Reservations -> [Categories -> Relays \cup {None}]]
  /\ task \in [Reservations -> Task]
  /\ settling \in [Reservations -> BOOLEAN]
  /\ faults \in 0..MaxFaults

Typed == RelayTyped /\ BillingTyped

\* A cell of a table in three dimensions.
LEMMA CellWritten ==
  ASSUME NEW A, NEW B, NEW C, NEW V, NEW f \in [A -> [B -> [C -> V]]],
         NEW a \in A, NEW b \in B, NEW c \in C, NEW v \in V
  PROVE  [f EXCEPT ![a][b][c] = v] \in [A -> [B -> [C -> V]]]
<1> DEFINE g == [f[a][b] EXCEPT ![c] = v]
           h == [f[a] EXCEPT ![b] = g]
<1>1. f[a] \in [B -> [C -> V]] /\ f[a][b] \in [C -> V]
  OBVIOUS
<1>2. g \in [C -> V]
  BY <1>1
<1>3. h \in [B -> [C -> V]]
  <2> HIDE DEF g
  <2> QED BY <1>1, <1>2
<1>4. [f EXCEPT ![a] = h] \in [A -> [B -> [C -> V]]]
  <2> HIDE DEF h
  <2> QED BY <1>3
<1>5. [f EXCEPT ![a][b][c] = v] = [f EXCEPT ![a] = h]
  OBVIOUS
<1> QED BY <1>4, <1>5

LEMMA InitTyped == Init => Typed
BY DeliveryAssumption
DEF Init, Typed, RelayTyped, BillingTyped, RowTable, SlotTable, SaidTable, Handler, Task, Idle,
    Places, Verdicts, Categories, Slots

LEMMA FaultTyped == ASSUME BillingTyped, Fault \/ UNCHANGED faults PROVE faults' \in 0..MaxFaults
BY DeliveryAssumption DEF BillingTyped, Fault

\* The handler of an attempt that is under way.
LEMMA BusyCall ==
  ASSUME RelayTyped, NEW c \in Callers, call[c].at # "idle"
  PROVE  /\ Mine(c) \in Relays /\ call[c].res \in Reservations /\ call[c] \in Handler
BY DeliveryAssumption DEF RelayTyped, Mine

LEMMA LiveTyped ==
  ASSUME RelayTyped, NEW l \in Relays
  PROVE  LiveSlots(l) \in [Reservations -> SUBSET Slots]
BY DEF RelayTyped, SlotTable, LiveSlots

LEMMA ExpireTyped ==
  ASSUME RelayTyped, NEW l \in Relays, Expire(l)
  PROVE  slots' \in SlotTable
BY LiveTyped DEF RelayTyped, SlotTable, Expire

LEMMA PutTyped ==
  ASSUME RelayTyped, BillingTyped, NEW l \in Relays, NEW r \in Reservations, NEW k \in Categories,
         \/ PutDone(l, r, k) /\ UNCHANGED faults
         \/ PutFailed(l, r, k)
  PROVE  rows' \in RowTable /\ slots' \in SlotTable /\ faults' \in 0..MaxFaults
<1>1. LiveSlots(l) \in [Reservations -> SUBSET Slots]
  BY LiveTyped
<1>2. rows' \in RowTable
  <2>1. UNCHANGED rows \/ rows' = [rows EXCEPT ![l][r][k] = "pending"]
    BY Zenon DEF PutDone, PutFailed
  <2> DEFINE Statuses == {"absent", "pending", "acknowledged"}
  <2>2. rows \in [Relays -> [Reservations -> [Categories -> Statuses]]] /\ "pending" \in Statuses
    BY DEF RelayTyped, RowTable
  <2> HIDE DEF Statuses
  <2>3. [rows EXCEPT ![l][r][k] = "pending"] \in [Relays -> [Reservations -> [Categories -> Statuses]]]
    BY <2>2, CellWritten, Zenon
  <2> USE DEF Statuses
  <2> QED BY <2>1, <2>2, <2>3 DEF RowTable
<1>3. slots' \in SlotTable
  <2>0. Expire(l) \/ slots' = [slots EXCEPT ![l] = [LiveSlots(l) EXCEPT ![r] = @ \ {k}]]
    BY Zenon DEF PutDone, PutFailed
  <2>1. CASE Expire(l)
    BY <2>1, ExpireTyped
  <2>2. CASE slots' = [slots EXCEPT ![l] = [LiveSlots(l) EXCEPT ![r] = @ \ {k}]]
    <3>1. [LiveSlots(l) EXCEPT ![r] = @ \ {k}] \in [Reservations -> SUBSET Slots]
      BY <1>1
    <3> QED BY <2>2, <3>1 DEF RelayTyped, SlotTable
  <2> QED BY <2>0, <2>1, <2>2
<1>4. faults' \in 0..MaxFaults
  BY FaultTyped DEF PutFailed
<1> QED BY <1>2, <1>3, <1>4

\* What changes of a handler: it goes to a place, remembering more or less.
LEMMA HandlerTyped ==
  ASSUME RelayTyped, NEW c \in Callers, NEW h \in Handler,
         h.at # "idle" => h.res \in Reservations,
         call' = [call EXCEPT ![c] = h]
  PROVE  /\ call' \in [Callers -> Handler]
         /\ \A d \in Callers : call'[d].at # "idle" => call'[d].res \in Reservations
BY DEF RelayTyped

LEMMA GotoTyped ==
  ASSUME RelayTyped, NEW c \in Callers, call[c].at # "idle", NEW p \in Places,
         \/ Goto(c, p) \/ Return(c)
  PROVE  /\ call' \in [Callers -> Handler]
         /\ \A d \in Callers : call'[d].at # "idle" => call'[d].res \in Reservations
<1>1. call[c] \in Handler /\ call[c].res \in Reservations
  BY BusyCall
<1>2. CASE Goto(c, p)
  <2>1. [call[c] EXCEPT !.at = p] \in Handler /\ [call[c] EXCEPT !.at = p].res \in Reservations
    BY <1>1 DEF Handler
  <2>2. call' = [call EXCEPT ![c] = [call[c] EXCEPT !.at = p]]
    BY <1>2 DEF Goto, RelayTyped
  <2> QED BY <2>1, <2>2, HandlerTyped
<1>3. CASE Return(c)
  <2>1. Idle \in Handler /\ Idle.at = "idle"
    BY DEF Handler, Idle, Places
  <2> QED BY <1>3, <2>1, HandlerTyped DEF Return
<1> QED BY <1>2, <1>3

\* A verdict is written into a row.
LEMMA SaidTyped ==
  ASSUME RelayTyped, NEW l \in Relays, NEW r \in Reservations, NEW k \in {"terminal", "final"},
         NEW v \in Verdicts \cup {None}
  PROVE  [said EXCEPT ![l][r][k] = v] \in SaidTable
<1> DEFINE Records == {"terminal", "final"}
           Said == Verdicts \cup {None}
<1>1. said \in [Relays -> [Reservations -> [Records -> Said]]] /\ k \in Records /\ v \in Said
  BY DEF RelayTyped, SaidTable
<1> HIDE DEF Records, Said
<1>2. [said EXCEPT ![l][r][k] = v] \in [Relays -> [Reservations -> [Records -> Said]]]
  BY <1>1, CellWritten, Zenon
<1> QED BY <1>2 DEF SaidTable, Records, Said

LEMMA RecordTyped ==
  ASSUME Typed, NEW c \in Callers, call[c].at # "idle",
         NEW k \in {"header", "usage", "terminal"}, NEW v \in Verdicts,
         NEW done \in SUBSET Places, NEW refused \in SUBSET Places,
         Record(c, k, v, done, refused)
  PROVE  Typed'
<1> DEFINE l == Mine(c)
           r == call[c].res
<1>1. l \in Relays /\ r \in Reservations /\ call[c] \in Handler
  BY BusyCall DEF Typed
<1>2. k \in Categories
  BY DEF Categories, Slots
<1>3. rows' \in RowTable /\ slots' \in SlotTable /\ faults' \in 0..MaxFaults
  BY <1>1, <1>2, PutTyped DEF Record, Typed
<1>4. said' \in SaidTable
  <2>1. \/ UNCHANGED said
        \/ said' = [said EXCEPT ![l][r]["terminal"] = v]
    BY DEF Record
  <2>2. said \in SaidTable /\ v \in Verdicts \cup {None}
    BY DEF Typed, RelayTyped
  <2> HIDE DEF l, r
  <2>3. [said EXCEPT ![l][r]["terminal"] = v] \in SaidTable
    BY <1>1, <2>2, SaidTyped DEF Typed
  <2> QED BY <2>1, <2>2, <2>3
<1>5. PICK p \in Places, f \in BOOLEAN : Remember(c, p, v, f)
  <2>1. call[c].failed \in BOOLEAN
    BY <1>1 DEF Handler
  <2> QED BY <2>1 DEF Record
<1>6. [at |-> p, res |-> r, sent |-> call[c].sent, failed |-> f, last |-> v] \in Handler
  BY <1>1 DEF Handler
<1>7. /\ call' \in [Callers -> Handler]
      /\ \A d \in Callers : call'[d].at # "idle" => call'[d].res \in Reservations
  BY <1>1, <1>5, <1>6, HandlerTyped DEF Typed, Remember
<1>8. UNCHANGED <<others, sends, calls, billingVars>>
  BY DEF Record
<1> QED BY <1>3, <1>4, <1>7, <1>8 DEF Typed, RelayTyped, BillingTyped, billingVars

LEMMA AcknowledgeTyped ==
  ASSUME RelayTyped, NEW l \in Relays, NEW r \in Reservations, NEW k \in Categories,
         Acknowledge(l, r, k)
  PROVE  rows' \in RowTable
<1> DEFINE Statuses == {"absent", "pending", "acknowledged"}
<1>1. rows \in [Relays -> [Reservations -> [Categories -> Statuses]]] /\ "acknowledged" \in Statuses
  BY DEF RelayTyped, RowTable
<1> HIDE DEF Statuses
<1>2. [rows EXCEPT ![l][r][k] = "acknowledged"] \in [Relays -> [Reservations -> [Categories -> Statuses]]]
  BY <1>1, CellWritten, Zenon
<1> QED BY <1>2 DEF Acknowledge, RowTable, Statuses

\* What billing holds, without the fault counter.
LEMMA AcceptTyped ==
  ASSUME Typed, NEW l \in Relays, NEW r \in Reservations, NEW k \in Categories,
         AcceptExecution(l, r, k)
  PROVE  /\ inbox' \in [Reservations -> [Categories -> Relays \cup {None}]]
         /\ task' \in [Reservations -> Task]
<1>1. inbox' \in [Reservations -> [Categories -> Relays \cup {None}]]
  BY DEF AcceptExecution, Typed, BillingTyped
<1>2. said[l][r]["final"] \in Verdicts \cup {None}
  BY DEF Typed, RelayTyped, SaidTable
<1>3. [status |-> "pending", verdict |-> said[l][r]["final"]] \in Task
  BY <1>2 DEF Task
<1>4. task' \in [Reservations -> Task]
  <2> DEFINE t == [status |-> "pending", verdict |-> said[l][r]["final"]]
  <2>1. task' = task \/ task' = [task EXCEPT ![r] = t]
    BY Zenon DEF AcceptExecution
  <2> HIDE DEF t
  <2> QED BY <1>3, <2>1 DEF t, Typed, BillingTyped
<1> QED BY <1>1, <1>4

LEMMA ReserveTyped ==
  ASSUME Typed, NEW c \in Callers, NEW r \in Reservations, Reserve(c, r)
  PROVE  Typed'
<1> DEFINE h == [Idle EXCEPT !.at = "reserved", !.res = r]
<1>1. h \in Handler /\ h.at = "reserved" /\ h.res = r
  BY DEF Idle, Handler, Places
<1>2. call' = call \/ call' = [call EXCEPT ![c] = h]
  BY Zenon DEF Reserve
<1>3. /\ call' \in [Callers -> Handler]
      /\ \A d \in Callers : call'[d].at # "idle" => call'[d].res \in Reservations
  <2> HIDE DEF h
  <2> QED BY <1>1, <1>2, HandlerTyped DEF Typed, RelayTyped
<1>4. res' \in [Reservations -> {"none", "reserved", "committed", "released", "expired"}]
  BY DEF Reserve, Typed, BillingTyped
<1>5. calls' \in [Callers -> Nat]
  BY DEF Reserve, Typed, RelayTyped
<1>6. faults' \in 0..MaxFaults
  BY FaultTyped DEF Reserve, Typed
<1>7. UNCHANGED <<rows, slots, said, others, sends, past, inbox, task, settling>>
  BY DEF Reserve
<1> QED BY <1>3, <1>4, <1>5, <1>6, <1>7 DEF Typed, RelayTyped, BillingTyped

LEMMA PrepareTyped ==
  ASSUME Typed, NEW c \in Callers, Prepare(c)
  PROVE  Typed'
<1> DEFINE l == Mine(c)
           r == call[c].res
<1>0. call[c].at # "idle"
  BY DEF Prepare, At
<1>1. l \in Relays /\ r \in Reservations
  BY <1>0, BusyCall DEF Typed
<1>2. \/ Expire(l) /\ UNCHANGED rows
      \/ /\ rows' = [rows EXCEPT ![l][r]["intent"] = "pending"]
         /\ slots' = [slots EXCEPT ![l] = [LiveSlots(l) EXCEPT ![r] = Reservable(r)]]
  BY DEF Prepare
<1>3. Goto(c, "forward") \/ Goto(c, "release") \/ Return(c)
  BY DEF Prepare
<1>4. /\ call' \in [Callers -> Handler]
      /\ \A d \in Callers : call'[d].at # "idle" => call'[d].res \in Reservations
  BY <1>0, <1>3, GotoTyped DEF Typed, Places
<1>5. rows' \in RowTable
  <2> DEFINE Statuses == {"absent", "pending", "acknowledged"}
  <2>1. /\ rows \in [Relays -> [Reservations -> [Categories -> Statuses]]]
        /\ "pending" \in Statuses /\ "intent" \in Categories
    BY DEF Typed, RelayTyped, RowTable, Categories
  <2> HIDE DEF Statuses, l, r
  <2>2. [rows EXCEPT ![l][r]["intent"] = "pending"]
          \in [Relays -> [Reservations -> [Categories -> Statuses]]]
    BY <1>1, <2>1, CellWritten, ZenonT(60)
  <2> QED BY <1>2, <2>1, <2>2 DEF RowTable, Statuses
<1>6. slots' \in SlotTable
  <2> HIDE DEF l, r
  <2>1. LiveSlots(l) \in [Reservations -> SUBSET Slots] /\ Reservable(r) \in SUBSET Slots
    BY <1>1, LiveTyped DEF Typed, Reservable
  <2>2. [LiveSlots(l) EXCEPT ![r] = Reservable(r)] \in [Reservations -> SUBSET Slots]
    BY <2>1
  <2> QED BY <1>1, <1>2, <2>2, ExpireTyped DEF Typed, RelayTyped, SlotTable
<1>7. faults' \in 0..MaxFaults
  BY FaultTyped DEF Prepare, Typed
<1>8. UNCHANGED <<said, others, sends, calls, billingVars>>
  BY DEF Prepare
<1> QED BY <1>4, <1>5, <1>6, <1>7, <1>8 DEF Typed, RelayTyped, BillingTyped, billingVars

LEMMA SendTyped ==
  ASSUME Typed, NEW c \in Callers, Send(c)
  PROVE  Typed'
<1> DEFINE l == Mine(c)
           r == call[c].res
           h == [call[c] EXCEPT !.at = "await", !.sent = TRUE]
<1>0. call[c].at # "idle"
  BY DEF Send, At
<1>1. l \in Relays /\ r \in Reservations /\ call[c] \in Handler
  BY <1>0, BusyCall DEF Typed
<1>2. h \in Handler /\ h.res \in Reservations
  BY <1>1 DEF Handler, Places
<1>3. Goto(c, "release") \/ call' = [call EXCEPT ![c] = h]
  <2>1. Goto(c, "release") \/ call' = [call EXCEPT ![c].at = "await", ![c].sent = TRUE]
    BY DEF Send
  <2> QED BY <1>1, <2>1 DEF Typed, RelayTyped, Handler
<1>4. /\ call' \in [Callers -> Handler]
      /\ \A d \in Callers : call'[d].at # "idle" => call'[d].res \in Reservations
  <2>1. CASE Goto(c, "release")
    BY <1>0, <2>1, GotoTyped DEF Typed, Places
  <2>2. CASE call' = [call EXCEPT ![c] = h]
    <3> HIDE DEF h
    <3> QED BY <1>2, <2>2, HandlerTyped DEF Typed
  <2> QED BY <1>3, <2>1, <2>2
<1>5. sends' \in [Relays -> [Reservations -> Nat]]
  BY <1>1 DEF Send, Typed, RelayTyped
<1>6. UNCHANGED <<rows, slots, said, others, calls, billingVars, faults>>
  BY DEF Send
<1> QED BY <1>4, <1>5, <1>6 DEF Typed, RelayTyped, BillingTyped, billingVars

LEMMA CommitTyped ==
  ASSUME Typed, NEW c \in Callers, Commit(c)
  PROVE  Typed'
<1> DEFINE l == Mine(c)
           r == call[c].res
<1>0. call[c].at # "idle"
  BY DEF Commit, At
<1>1. l \in Relays /\ r \in Reservations /\ call[c] \in Handler
  BY <1>0, BusyCall DEF Typed
<1>2. /\ "final" \in Categories /\ call[c].last \in Verdicts \cup {None}
      /\ "sendfinal" \in Places
  BY <1>1 DEF Categories, Slots, Handler, Places
<1>3. UNCHANGED <<others, sends, calls, billingVars>>
  BY DEF Commit
<1>4. \/ /\ PutDone(l, r, "final") /\ said' = [said EXCEPT ![l][r]["final"] = call[c].last]
         /\ Goto(c, "sendfinal") /\ UNCHANGED faults
      \/ PutFailed(l, r, "final") /\ Return(c) /\ UNCHANGED said
      \/ Return(c) /\ UNCHANGED <<rows, slots, said, faults>>
  BY DEF Commit
<1> HIDE DEF l, r
<1>5. [said EXCEPT ![l][r]["final"] = call[c].last] \in SaidTable /\ said \in SaidTable
  BY <1>1, <1>2, SaidTyped DEF Typed, RelayTyped
<1>6. said' \in SaidTable
  BY <1>4, <1>5
<1>7. rows' \in RowTable /\ slots' \in SlotTable /\ faults' \in 0..MaxFaults
  BY <1>1, <1>2, <1>4, PutTyped, Zenon DEF Typed, RelayTyped, BillingTyped
<1>8. /\ call' \in [Callers -> Handler]
      /\ \A d \in Callers : call'[d].at # "idle" => call'[d].res \in Reservations
  BY <1>0, <1>2, <1>4, GotoTyped DEF Typed
<1> QED BY <1>3, <1>6, <1>7, <1>8 DEF Typed, RelayTyped, BillingTyped, billingVars

LEMMA SendFinalTyped ==
  ASSUME Typed, NEW c \in Callers, SendFinal(c)
  PROVE  Typed'
<1>0. call[c].at # "idle"
  BY DEF SendFinal, At
<1>1. Mine(c) \in Relays /\ call[c].res \in Reservations /\ "final" \in Categories
  BY <1>0, BusyCall DEF Typed, Categories, Slots
<1>2. /\ inbox' \in [Reservations -> [Categories -> Relays \cup {None}]]
      /\ task' \in [Reservations -> Task]
      /\ UNCHANGED <<res, past, settling>>
  <2>1. CASE AcceptExecution(Mine(c), call[c].res, "final")
    BY <1>1, <2>1, AcceptTyped DEF AcceptExecution
  <2>2. CASE UNCHANGED billingVars
    BY <2>2 DEF billingVars, Typed, BillingTyped
  <2> QED BY <2>1, <2>2 DEF SendFinal
<1>3. Goto(c, "ackfinal") \/ Return(c)
  BY DEF SendFinal
<1>4. /\ call' \in [Callers -> Handler]
      /\ \A d \in Callers : call'[d].at # "idle" => call'[d].res \in Reservations
  BY <1>0, <1>3, GotoTyped DEF Typed, Places
<1>5. faults' \in 0..MaxFaults
  BY FaultTyped DEF SendFinal, Typed
<1>6. UNCHANGED <<rows, slots, said, others, sends, calls>>
  BY DEF SendFinal
<1> QED BY <1>2, <1>4, <1>5, <1>6 DEF Typed, RelayTyped, BillingTyped

LEMMA AckFinalTyped ==
  ASSUME Typed, NEW c \in Callers, AckFinal(c)
  PROVE  Typed'
<1>0. call[c].at # "idle"
  BY DEF AckFinal, At
<1>1. Mine(c) \in Relays /\ call[c].res \in Reservations /\ "final" \in Categories
  BY <1>0, BusyCall DEF Typed, Categories, Slots
<1>2. rows' \in RowTable
  BY <1>1, AcknowledgeTyped DEF AckFinal, Typed
<1>3. /\ call' \in [Callers -> Handler]
      /\ \A d \in Callers : call'[d].at # "idle" => call'[d].res \in Reservations
  BY <1>0, GotoTyped DEF AckFinal, Typed, Places
<1> QED BY <1>2, <1>3 DEF AckFinal, Typed, RelayTyped, BillingTyped, billingVars

LEMMA ReleaseTyped ==
  ASSUME Typed, NEW c \in Callers, Release(c)
  PROVE  Typed'
<1>0. call[c].at # "idle"
  BY DEF Release, At
<1>1. call[c].res \in Reservations
  BY <1>0, BusyCall DEF Typed
<1>2. /\ res' \in [Reservations -> {"none", "reserved", "committed", "released", "expired"}]
      /\ UNCHANGED <<past, inbox, task, settling>>
  BY <1>1 DEF Release, ReleaseQuota, billingVars, Typed, BillingTyped
<1>3. /\ call' \in [Callers -> Handler]
      /\ \A d \in Callers : call'[d].at # "idle" => call'[d].res \in Reservations
  BY <1>0, GotoTyped DEF Release, Typed, Places
<1>4. faults' \in 0..MaxFaults
  BY FaultTyped DEF Release, Typed
<1> QED BY <1>2, <1>3, <1>4 DEF Release, Typed, RelayTyped, BillingTyped

LEMMA DeliverTyped ==
  ASSUME Typed, NEW l \in Relays, NEW r \in Reservations, NEW k \in Categories, Deliver(l, r, k)
  PROVE  Typed'
<1>1. rows' \in RowTable /\ slots' \in SlotTable
  BY AcknowledgeTyped, ExpireTyped DEF Deliver, Typed, RelayTyped
<1>2. /\ inbox' \in [Reservations -> [Categories -> Relays \cup {None}]]
      /\ task' \in [Reservations -> Task]
      /\ UNCHANGED <<res, past, settling>>
  BY AcceptTyped DEF Deliver, AcceptExecution
<1>3. faults' \in 0..MaxFaults
  BY FaultTyped DEF Deliver, Typed
<1> QED BY <1>1, <1>2, <1>3 DEF Deliver, Typed, RelayTyped, BillingTyped

LEMMA OthersTyped ==
  ASSUME Typed, NEW l \in Relays, OtherPut(l) \/ OtherAcknowledged(l)
  PROVE  Typed'
<1>1. slots' \in SlotTable
  BY ExpireTyped DEF OtherPut, OtherAcknowledged, Typed, RelayTyped
<1>2. others' \in [Relays -> Nat]
  BY DEF OtherPut, OtherAcknowledged, Typed, RelayTyped
<1> QED BY <1>1, <1>2
        DEF OtherPut, OtherAcknowledged, Typed, RelayTyped, BillingTyped, billingVars

LEMMA CrashTyped ==
  ASSUME Typed, NEW l \in Relays, Crash(l)
  PROVE  Typed'
<1>1. Idle \in Handler /\ Idle.at = "idle"
  BY DEF Idle, Handler, Places
<1>2. call' = [c \in Callers |-> IF Mine(c) = l THEN Idle ELSE call[c]]
  BY DEF Crash
<1>3. /\ call' \in [Callers -> Handler]
      /\ \A d \in Callers : call'[d].at # "idle" => call'[d].res \in Reservations
  BY <1>1, <1>2 DEF Typed, RelayTyped
<1>4. faults' \in 0..MaxFaults
  BY FaultTyped DEF Crash, Typed
<1> QED BY <1>3, <1>4 DEF Crash, Typed, RelayTyped, BillingTyped, billingVars

LEMMA BillingStepTyped ==
  ASSUME Typed, NEW r \in Reservations, Billing(r)
  PROVE  Typed'
<1>1. UNCHANGED relayVars /\ UNCHANGED <<inbox, faults>>
  BY DEF Billing, SettleCheck, SettleCommit, Elapse, Sweep
<1>2. [task[r] EXCEPT !.status = "completed"] \in Task /\ [task[r] EXCEPT !.status = "expired"] \in Task
  BY DEF Typed, BillingTyped, Task
<1>3. /\ Completed(r) = [task EXCEPT ![r] = [task[r] EXCEPT !.status = "completed"]]
      /\ [task EXCEPT ![r].status = "expired"] = [task EXCEPT ![r] = [task[r] EXCEPT !.status = "expired"]]
  BY DEF Typed, BillingTyped, Completed
<1>4. task' \in [Reservations -> Task]
  <2> DEFINE t == [task[r] EXCEPT !.status = "completed"]
             u == [task[r] EXCEPT !.status = "expired"]
  <2>1. task' = task \/ task' = Completed(r) \/ task' = [task EXCEPT ![r].status = "expired"]
    BY DEF Billing, SettleCheck, SettleCommit, Elapse, Sweep
  <2>2. task' = task \/ task' = [task EXCEPT ![r] = t] \/ task' = [task EXCEPT ![r] = u]
    BY <1>3, <2>1
  <2>3. t \in Task /\ u \in Task
    BY <1>2
  <2> HIDE DEF t, u
  <2> QED BY <2>2, <2>3 DEF Typed, BillingTyped
<1>5. /\ res' \in [Reservations -> {"none", "reserved", "committed", "released", "expired"}]
      /\ past' \in [Reservations -> BOOLEAN]
      /\ settling' \in [Reservations -> BOOLEAN]
  BY DEF Billing, SettleCheck, SettleCommit, Elapse, Sweep, Typed, BillingTyped
<1> QED BY <1>1, <1>4, <1>5 DEF relayVars, Typed, RelayTyped, BillingTyped

LEMMA AttemptTyped ==
  ASSUME Typed, NEW c \in Callers, Attempt(c)
  PROVE  Typed'
<1>1. CASE \E r \in Reservations : Reserve(c, r)
  BY <1>1, ReserveTyped
<1>2. CASE Prepare(c)
  BY <1>2, PrepareTyped
<1>3. CASE Decline(c) \/ Unanswered(c)
  <2>1. call[c].at # "idle" /\ (Goto(c, "release") \/ Goto(c, "abandon"))
    BY <1>3 DEF Decline, Unanswered, At
  <2>2. /\ call' \in [Callers -> Handler]
        /\ \A d \in Callers : call'[d].at # "idle" => call'[d].res \in Reservations
    BY <2>1, GotoTyped DEF Typed, Places
  <2>3. UNCHANGED <<rows, slots, said, others, sends, calls, billingVars, faults>>
    BY <1>3 DEF Decline, Unanswered
  <2> QED BY <2>2, <2>3 DEF Typed, RelayTyped, BillingTyped, billingVars
<1>4. CASE Send(c)
  BY <1>4, SendTyped
<1>5. CASE Headers(c) \/ Checkpoint(c) \/ Abandon(c) \/ Rejected(c) \/ Finish(c)
  <2>1. call[c].at # "idle" /\ Verdicts = {"verified", "unproven"}
    BY <1>5 DEF Headers, Checkpoint, Abandon, Rejected, Finish, At, Verdicts
  <2>2. /\ {"body"} \in SUBSET Places /\ {"abandon"} \in SUBSET Places
        /\ {"release"} \in SUBSET Places /\ {"forward", "release"} \in SUBSET Places
        /\ {"commit", "release"} \in SUBSET Places
    BY DEF Places
  <2>3. CASE Headers(c)
    BY <2>1, <2>2, <2>3, RecordTyped DEF Headers
  <2>4. CASE Checkpoint(c)
    BY <2>1, <2>2, <2>4, RecordTyped DEF Checkpoint
  <2>5. CASE Abandon(c)
    BY <2>1, <2>2, <2>5, RecordTyped DEF Abandon
  <2>6. CASE Rejected(c)
    BY <2>1, <2>2, <2>6, RecordTyped DEF Rejected
  <2>7. CASE Finish(c)
    BY <2>1, <2>2, <2>7, RecordTyped DEF Finish
  <2> QED BY <1>5, <2>3, <2>4, <2>5, <2>6, <2>7
<1>6. CASE Commit(c)
  BY <1>6, CommitTyped
<1>7. CASE SendFinal(c)
  BY <1>7, SendFinalTyped
<1>8. CASE AckFinal(c)
  BY <1>8, AckFinalTyped
<1>9. CASE Release(c)
  BY <1>9, ReleaseTyped
<1> QED BY <1>1, <1>2, <1>3, <1>4, <1>5, <1>6, <1>7, <1>8, <1>9 DEF Attempt

\* Every step keeps the types.
LEMMA TypedStep == Typed /\ [Next]_vars => Typed'
<1> SUFFICES ASSUME Typed, [Next]_vars PROVE Typed'
  OBVIOUS
<1>1. CASE Next
  BY <1>1, AttemptTyped, DeliverTyped, OthersTyped, CrashTyped, BillingStepTyped DEF Next
<1>2. CASE UNCHANGED vars
  BY <1>2 DEF vars, relayVars, billingVars, Typed, RelayTyped, BillingTyped
<1> QED BY <1>1, <1>2

LEMMA TypedAlways == Spec => []Typed
BY InitTyped, TypedStep, PTL DEF Spec

-----------------------------------------------------------------------------
(* What a relay knows of an attempt.  Its intent is on disk before anything *)
(* else, admitted once, and kept; so one handler owns the attempt.          *)

Known(l, r)  == rows[l][r]["intent"] # "absent"
Ended(l, r)  == rows[l][r]["terminal"] # "absent"
Proven(l, r) == sends[l][r] > 0 /\ Ended(l, r) /\ said[l][r]["terminal"] = "verified"

Admitted(c) == call[c].at \in {"forward", "await", "body", "abandon", "commit", "sendfinal", "ackfinal"}
Fresh(c)    == At(c, "forward") /\ ~call[c].sent
InFlight(c) == call[c].at \in {"await", "body", "abandon"}
Owns(c, l, r) == Admitted(c) /\ Mine(c) = l /\ call[c].res = r

CellOK(l, r) ==
  /\ ~Known(l, r) => sends[l][r] = 0 /\ ~Ended(l, r)
  /\ sends[l][r] <= 1
  /\ said[l][r]["final"] = "verified" => Proven(l, r)

OwnerOK(c, l, r) ==
  /\ Known(l, r)
  /\ Fresh(c) => sends[l][r] = 0 /\ ~Ended(l, r)
  /\ InFlight(c) => call[c].sent /\ sends[l][r] > 0 /\ ~Ended(l, r)
  /\ At(c, "commit") /\ ~call[c].failed /\ call[c].last = "verified" => Proven(l, r)

RelayInv ==
  \A l \in Relays, r \in Reservations :
    /\ CellOK(l, r)
    /\ \A c \in Callers : Owns(c, l, r) => OwnerOK(c, l, r)
    /\ \A c, d \in Callers : Owns(c, l, r) /\ Owns(d, l, r) => c = d

SameCell(l, r) ==
  /\ Known(l, r)' <=> Known(l, r)
  /\ Ended(l, r)' <=> Ended(l, r)
  /\ sends'[l][r] = sends[l][r]
  /\ said'[l][r] = said[l][r]

\* A cell nothing happens to keeps its invariant.
LEMMA CellKept ==
  ASSUME NEW l, NEW r, SameCell(l, r)
  PROVE  /\ CellOK(l, r) => CellOK(l, r)'
         /\ Proven(l, r)' <=> Proven(l, r)
BY DEF SameCell, CellOK, Proven

LEMMA OwnerKept ==
  ASSUME NEW l, NEW r, NEW c, SameCell(l, r), call'[c] = call[c]
  PROVE  /\ OwnerOK(c, l, r) => OwnerOK(c, l, r)'
         /\ Owns(c, l, r)' <=> Owns(c, l, r)
BY CellKept DEF SameCell, OwnerOK, Owns, Admitted, Fresh, InFlight, At, Mine

\* Proof of usage is never taken back.
RelayKept == RelayInv' /\ \A l \in Relays, r \in Reservations : Proven(l, r) => Proven(l, r)'

\* A step after which fewer handlers are at work.
LEMMA QuietStep ==
  ASSUME RelayInv,
         \A l \in Relays, r \in Reservations : SameCell(l, r),
         \A c \in Callers : call'[c] = call[c] \/ ~Admitted(c)'
  PROVE  RelayKept
<1> SUFFICES ASSUME NEW l \in Relays, NEW r \in Reservations
             PROVE  /\ Proven(l, r) => Proven(l, r)'
                    /\ CellOK(l, r)'
                    /\ \A c \in Callers : Owns(c, l, r)' => OwnerOK(c, l, r)'
                    /\ \A c, d \in Callers : Owns(c, l, r)' /\ Owns(d, l, r)' => c = d
  BY DEF RelayInv, RelayKept
<1>1. CellOK(l, r)' /\ (Proven(l, r) => Proven(l, r)')
  BY CellKept DEF RelayInv
<1>2. ASSUME NEW c \in Callers, Owns(c, l, r)' PROVE Owns(c, l, r) /\ OwnerOK(c, l, r)'
  <2>1. call'[c] = call[c]
    BY <1>2 DEF Owns
  <2> QED BY <1>2, <2>1, OwnerKept DEF RelayInv
<1> QED BY <1>1, <1>2 DEF RelayInv

\* A step of the one handler that owns an attempt, or comes to own it.
LEMMA OwnStep ==
  ASSUME RelayInv, NEW l \in Relays, NEW r \in Reservations, NEW c \in Callers,
         \A d \in Callers \ {c} : ~Owns(d, l, r) /\ call'[d] = call[d],
         \A m \in Relays, s \in Reservations : m # l \/ s # r => SameCell(m, s),
         CellOK(l, r)', Proven(l, r) => Proven(l, r)',
         Admitted(c)' => Owns(c, l, r)' /\ OwnerOK(c, l, r)'
  PROVE  RelayKept
<1> SUFFICES ASSUME NEW m \in Relays, NEW s \in Reservations
             PROVE  /\ Proven(m, s) => Proven(m, s)'
                    /\ CellOK(m, s)'
                    /\ \A d \in Callers : Owns(d, m, s)' => OwnerOK(d, m, s)'
                    /\ \A d, e \in Callers : Owns(d, m, s)' /\ Owns(e, m, s)' => d = e
  BY DEF RelayInv, RelayKept
<1>1. CASE m = l /\ s = r
  <2>1. \A d \in Callers : Owns(d, l, r)' => d = c
    BY DEF Owns, Admitted, Mine
  <2>2. Owns(c, l, r)' => OwnerOK(c, l, r)'
    BY DEF Owns
  <2> QED BY <1>1, <2>1, <2>2
<1>2. CASE m # l \/ s # r
  <2>1. SameCell(m, s) /\ CellOK(m, s)' /\ (Proven(m, s) => Proven(m, s)')
    BY <1>2, CellKept DEF RelayInv
  <2>2. ASSUME NEW d \in Callers, Owns(d, m, s)'
        PROVE  call'[d] = call[d] /\ Owns(d, m, s) /\ OwnerOK(d, m, s)'
    <3>1. d # c
      BY <1>2, <2>2 DEF Owns
    <3>2. call'[d] = call[d]
      BY <3>1
    <3> QED BY <2>1, <2>2, <3>2, OwnerKept DEF RelayInv
  <2> QED BY <2>1, <2>2 DEF RelayInv
<1> QED BY <1>1, <1>2

\* Where a put leaves the rows.
LEMMA PutRows ==
  ASSUME RelayTyped, NEW l \in Relays, NEW r \in Reservations, NEW k \in Categories,
         PutDone(l, r, k) \/ PutFailed(l, r, k)
  PROVE  /\ PutDone(l, r, k) => rows'[l][r][k] # "absent"
         /\ rows[l][r][k] # "absent" => rows'[l][r][k] # "absent"
         /\ \A m \in Relays, s \in Reservations, j \in Categories :
              m # l \/ s # r \/ j # k => rows'[m][s][j] = rows[m][s][j]
<1>1. \/ rows' = rows /\ (PutDone(l, r, k) => rows[l][r][k] # "absent")
      \/ rows' = [rows EXCEPT ![l][r][k] = "pending"]
  BY Zenon DEF PutDone, PutFailed
<1>2. CASE rows' = rows /\ (PutDone(l, r, k) => rows[l][r][k] # "absent")
  BY <1>2
<1>3. CASE rows' = [rows EXCEPT ![l][r][k] = "pending"]
  BY <1>3 DEF RelayTyped, RowTable
<1> QED BY <1>1, <1>2, <1>3

\* Only the owner of an attempt writes its terminal record.
LEMMA OwnersRecord ==
  ASSUME RelayTyped, RelayInv, NEW c \in Callers, call[c].at # "idle", Admitted(c)
  PROVE  /\ Owns(c, Mine(c), call[c].res) /\ OwnerOK(c, Mine(c), call[c].res)
         /\ Mine(c) \in Relays /\ call[c].res \in Reservations
         /\ CellOK(Mine(c), call[c].res)
         /\ \A d \in Callers \ {c} : ~Owns(d, Mine(c), call[c].res)
BY BusyCall DEF RelayInv, Owns

LEMMA RememberOne ==
  ASSUME RelayTyped, NEW c \in Callers, NEW p, NEW v, NEW failed, Remember(c, p, v, failed)
  PROVE  /\ call'[c] = [at |-> p, res |-> call[c].res, sent |-> call[c].sent,
                        failed |-> failed, last |-> v]
         /\ \A d \in Callers \ {c} : call'[d] = call[d]
BY DEF RelayTyped, Remember

LEMMA ProgressRelay ==
  ASSUME Typed, RelayInv, NEW c \in Callers, InFlight(c), NEW k \in {"header", "usage"},
         Record(c, k, "unproven", {"body"}, {"abandon"})
  PROVE  RelayKept
<1>0. Admitted(c) /\ call[c].at # "idle"
  BY DEF InFlight, Admitted
<1>1. PICK l \in Relays, r \in Reservations :
        /\ l = Mine(c) /\ r = call[c].res
        /\ Owns(c, l, r) /\ OwnerOK(c, l, r) /\ CellOK(l, r)
        /\ \A d \in Callers \ {c} : ~Owns(d, l, r)
  BY <1>0, OwnersRecord DEF Typed
<1>2. k \in Categories /\ k # "intent" /\ k # "terminal"
  BY DEF Categories, Slots
<1>3. /\ PutDone(l, r, k) \/ PutFailed(l, r, k)
      /\ UNCHANGED <<said, sends>>
  BY <1>1, <1>2 DEF Record
<1>4. \A m \in Relays, s \in Reservations : SameCell(m, s)
  BY <1>1, <1>2, <1>3, PutRows DEF Typed, SameCell, Known, Ended, Categories, Slots
<1>5. PICK p \in {"body", "abandon"}, f \in BOOLEAN : Remember(c, p, "unproven", f)
  <2>1. call[c] \in Handler
    BY <1>0, BusyCall DEF Typed
  <2>2. call[c].failed \in BOOLEAN
    BY <2>1 DEF Handler
  <2> QED BY <2>2 DEF Record
<1>6. /\ call'[c] = [at |-> p, res |-> call[c].res, sent |-> call[c].sent,
                     failed |-> f, last |-> "unproven"]
      /\ \A d \in Callers \ {c} : call'[d] = call[d]
  BY <1>5, RememberOne DEF Typed
<1>7. Owns(c, l, r)' /\ OwnerOK(c, l, r)'
  BY <1>1, <1>4, <1>6 DEF Owns, OwnerOK, SameCell, Fresh, InFlight, Admitted, At, Mine
<1>8. CellOK(l, r)' /\ (Proven(l, r) => Proven(l, r)')
  BY <1>1, <1>4, CellKept
<1> QED BY <1>1, <1>4, <1>6, <1>7, <1>8, OwnStep

\* A verdict is written, or none.
SaidWrite(l, r, k, v) == UNCHANGED said \/ said' = [said EXCEPT ![l][r][k] = v]

LEMMA SaidRows ==
  ASSUME RelayTyped, NEW l \in Relays, NEW r \in Reservations, NEW k \in {"terminal", "final"},
         NEW v, SaidWrite(l, r, k, v)
  PROVE  /\ said' # said => said'[l][r][k] = v
         /\ \A j \in {"terminal", "final"} \ {k} : said'[l][r][j] = said[l][r][j]
         /\ \A m \in Relays, s \in Reservations : m # l \/ s # r => said'[m][s] = said[m][s]
<1>1. CASE UNCHANGED said
  BY <1>1
<1>2. CASE said' = [said EXCEPT ![l][r][k] = v]
  <2>1. /\ DOMAIN said = Relays /\ DOMAIN said[l] = Reservations
        /\ DOMAIN said[l][r] = {"terminal", "final"}
    BY DEF RelayTyped, SaidTable
  <2>2. said' = [said EXCEPT ![l] = [said[l] EXCEPT ![r] = [said[l][r] EXCEPT ![k] = v]]]
    BY <1>2
  <2>3. said'[l] = [said[l] EXCEPT ![r] = [said[l][r] EXCEPT ![k] = v]]
    BY <2>1, <2>2
  <2>4. said'[l][r] = [said[l][r] EXCEPT ![k] = v]
    BY <2>1, <2>3
  <2>5. \A m \in Relays \ {l} : said'[m] = said[m]
    BY <2>1, <2>2
  <2>6. \A s \in Reservations \ {r} : said'[l][s] = said[l][s]
    BY <2>1, <2>3
  <2> QED BY <2>1, <2>4, <2>5, <2>6
<1> QED BY <1>1, <1>2 DEF SaidWrite

LEMMA TerminalRelay ==
  ASSUME Typed, RelayInv, NEW c \in Callers, InFlight(c), NEW v \in Verdicts,
         NEW done \in SUBSET {"forward", "release", "commit"},
         NEW refused \in SUBSET {"release", "commit"},
         Record(c, "terminal", v, done, refused)
  PROVE  RelayKept
<1>0. Admitted(c) /\ call[c].at # "idle"
  BY DEF InFlight, Admitted
<1>1. PICK l \in Relays, r \in Reservations :
        /\ l = Mine(c) /\ r = call[c].res
        /\ Owns(c, l, r) /\ OwnerOK(c, l, r) /\ CellOK(l, r)
        /\ \A d \in Callers \ {c} : ~Owns(d, l, r)
  BY <1>0, OwnersRecord DEF Typed
<1>2. "terminal" \in Categories
  BY DEF Categories, Slots
<1>3. \/ /\ PutDone(l, r, "terminal")
         /\ said' = [said EXCEPT ![l][r]["terminal"] = v]
         /\ \E p \in done : Remember(c, p, v, FALSE)
      \/ /\ PutFailed(l, r, "terminal")
         /\ UNCHANGED said
         /\ \E p \in refused : Remember(c, p, v, TRUE)
  BY <1>1 DEF Record
<1>4. UNCHANGED sends
  BY DEF Record
<1>5. \A m \in Relays, s \in Reservations : m # l \/ s # r => SameCell(m, s)
  <2>1. \A m \in Relays, s \in Reservations : m # l \/ s # r => said'[m][s] = said[m][s]
    <3>1. SaidWrite(l, r, "terminal", v)
      BY <1>3 DEF SaidWrite
    <3> QED BY <1>1, <3>1, SaidRows DEF Typed
  <2>2. \A m \in Relays, s \in Reservations, j \in Categories :
          m # l \/ s # r => rows'[m][s][j] = rows[m][s][j]
    <3>1. PutDone(l, r, "terminal") \/ PutFailed(l, r, "terminal")
      BY <1>3
    <3> QED BY <1>1, <1>2, <3>1, PutRows DEF Typed
  <2>3. "intent" \in Categories
    BY DEF Categories
  <2> QED BY <1>2, <1>4, <2>1, <2>2, <2>3 DEF SameCell, Known, Ended
<1>6. Known(l, r)' /\ sends[l][r] > 0 /\ ~Ended(l, r) /\ call[c].sent
  <2>1. rows'[l][r]["intent"] = rows[l][r]["intent"]
    <3>1. "intent" \in Categories
      BY DEF Categories
    <3>2. PutDone(l, r, "terminal") \/ PutFailed(l, r, "terminal")
      BY <1>3
    <3> QED BY <1>1, <1>2, <3>1, <3>2, PutRows DEF Typed
  <2> QED BY <1>1, <2>1 DEF OwnerOK, Known
<1>7. /\ said'[l][r]["final"] = said[l][r]["final"]
      /\ said' # said => said'[l][r]["terminal"] = v
      /\ said' = [said EXCEPT ![l][r]["terminal"] = v] => said'[l][r]["terminal"] = v
  <2>1. SaidWrite(l, r, "terminal", v)
    BY <1>3 DEF SaidWrite
  <2>2. said' = [said EXCEPT ![l][r]["terminal"] = v] => said'[l][r]["terminal"] = v
    BY <1>1 DEF Typed, RelayTyped, SaidTable
  <2> QED BY <1>1, <2>1, <2>2, SaidRows DEF Typed
<1>8. CellOK(l, r)'
  BY <1>1, <1>4, <1>6, <1>7 DEF CellOK, Proven
<1>9. PICK p \in {"forward", "release", "commit"}, f \in BOOLEAN :
        /\ Remember(c, p, v, f)
        /\ p = "commit" /\ ~f /\ v = "verified" => Proven(l, r)'
  <2>1. CASE /\ PutDone(l, r, "terminal")
             /\ said' = [said EXCEPT ![l][r]["terminal"] = v]
             /\ \E p \in done : Remember(c, p, v, FALSE)
    <3>1. PICK p \in done : Remember(c, p, v, FALSE)
      BY <2>1
    <3>2. Ended(l, r)'
      BY <1>1, <1>2, <2>1, PutRows DEF Typed, Ended
    <3>3. v = "verified" => Proven(l, r)'
      BY <1>4, <1>6, <1>7, <2>1, <3>2 DEF Proven
    <3> QED BY <3>1, <3>3
  <2>2. CASE /\ PutFailed(l, r, "terminal")
             /\ UNCHANGED said
             /\ \E p \in refused : Remember(c, p, v, TRUE)
    BY <2>2
  <2> QED BY <1>3, <2>1, <2>2
<1>10. /\ call'[c] = [at |-> p, res |-> call[c].res, sent |-> call[c].sent,
                      failed |-> f, last |-> v]
       /\ \A d \in Callers \ {c} : call'[d] = call[d]
  BY <1>9, RememberOne DEF Typed
<1>11. Admitted(c)' => Owns(c, l, r)' /\ OwnerOK(c, l, r)'
  BY <1>1, <1>6, <1>9, <1>10 DEF Owns, OwnerOK, Fresh, InFlight, Admitted, At, Mine
<1>12. ~Proven(l, r)
  BY <1>6 DEF Proven
<1> QED BY <1>1, <1>5, <1>12, <1>8, <1>10, <1>11, OwnStep

\* An acknowledgement writes over a row that is there.
LEMMA AcknowledgeRows ==
  ASSUME RelayTyped, NEW l \in Relays, NEW r \in Reservations, NEW k \in Categories,
         rows[l][r][k] # "absent", Acknowledge(l, r, k)
  PROVE  \A m \in Relays, s \in Reservations, j \in Categories :
           rows'[m][s][j] # "absent" <=> rows[m][s][j] # "absent"
BY DEF RelayTyped, RowTable, Acknowledge

LEMMA SameRows ==
  ASSUME \A m \in Relays, s \in Reservations, j \in {"intent", "terminal"} :
           rows'[m][s][j] # "absent" <=> rows[m][s][j] # "absent",
         UNCHANGED <<said, sends>>
  PROVE  \A m \in Relays, s \in Reservations : SameCell(m, s)
BY DEF SameCell, Known, Ended

LEMMA GotoOne ==
  ASSUME RelayTyped, NEW c \in Callers, call[c].at # "idle", NEW p, Goto(c, p)
  PROVE  /\ \A d \in Callers \ {c} : call'[d] = call[d]
         /\ call'[c].at = p /\ call'[c].res = call[c].res /\ call'[c].sent = call[c].sent
<1>1. call[c] \in Handler
  BY BusyCall
<1>2. call' = [call EXCEPT ![c] = [call[c] EXCEPT !.at = p]]
  BY DEF RelayTyped, Goto
<1>3. call'[c] = [call[c] EXCEPT !.at = p] /\ \A d \in Callers \ {c} : call'[d] = call[d]
  BY <1>2 DEF RelayTyped
<1> QED BY <1>1, <1>3 DEF Handler

LEMMA ReturnOne ==
  ASSUME RelayTyped, NEW c \in Callers, Return(c)
  PROVE  /\ \A d \in Callers \ {c} : call'[d] = call[d]
         /\ call'[c].at = "idle"
BY DEF RelayTyped, Return, Idle

\* A handler that goes where it owns nothing.
LEMMA LeaveStep ==
  ASSUME RelayTyped, RelayInv, NEW c \in Callers, call[c].at # "idle",
         UNCHANGED <<rows, said, sends>>, Goto(c, "release") \/ Return(c)
  PROVE  RelayKept
<1>1. \A d \in Callers \ {c} : call'[d] = call[d]
  BY GotoOne, ReturnOne
<1>2. call'[c].at \in {"release", "idle"}
  BY GotoOne, ReturnOne
<1>3. \A m \in Relays, s \in Reservations : SameCell(m, s)
  BY SameRows
<1> QED BY <1>1, <1>2, <1>3, QuietStep DEF Admitted

LEMMA PrepareRelay ==
  ASSUME Typed, RelayInv, NEW c \in Callers, Prepare(c)
  PROVE  RelayKept
<1>0. call[c].at = "reserved" /\ UNCHANGED <<said, sends>>
  BY DEF Prepare, At
<1>1. PICK l \in Relays, r \in Reservations : l = Mine(c) /\ r = call[c].res
  BY <1>0, BusyCall DEF Typed
<1>2. \/ UNCHANGED rows /\ (Goto(c, "release") \/ Return(c))
      \/ /\ ~Known(l, r) /\ rows' = [rows EXCEPT ![l][r]["intent"] = "pending"]
         /\ Goto(c, "forward")
  BY <1>1 DEF Prepare, Known
<1>3. CASE UNCHANGED rows /\ (Goto(c, "release") \/ Return(c))
  BY <1>0, <1>3, LeaveStep DEF Typed
<1>4. CASE /\ ~Known(l, r) /\ rows' = [rows EXCEPT ![l][r]["intent"] = "pending"]
           /\ Goto(c, "forward")
  <2>1. /\ Known(l, r)'
        /\ \A m \in Relays, s \in Reservations :
             /\ Ended(m, s)' <=> Ended(m, s)
             /\ m # l \/ s # r => (Known(m, s)' <=> Known(m, s))
    BY <1>4 DEF Known, Ended, Typed, RelayTyped, RowTable, Categories, Slots
  <2>2. \A m \in Relays, s \in Reservations : m # l \/ s # r => SameCell(m, s)
    BY <1>0, <2>1 DEF SameCell
  <2>3. sends[l][r] = 0 /\ ~Ended(l, r) /\ CellOK(l, r)
    BY <1>4 DEF RelayInv, CellOK
  <2>4. CellOK(l, r)'
    BY <1>0, <2>1, <2>3 DEF CellOK, Proven
  <2>5. \A d \in Callers : ~Owns(d, l, r)
    BY <1>4 DEF RelayInv, OwnerOK
  <2>6. /\ call'[c].at = "forward" /\ call'[c].res = r
        /\ \A d \in Callers \ {c} : call'[d] = call[d]
    BY <1>0, <1>1, <1>4, GotoOne DEF Typed
  <2>7. Owns(c, l, r)' /\ OwnerOK(c, l, r)'
    BY <1>0, <1>1, <2>1, <2>3, <2>6 DEF Owns, OwnerOK, Admitted, Fresh, InFlight, At, Mine
  <2>8. ~Proven(l, r)
    BY <2>3 DEF Proven
  <2> QED BY <2>8, <2>2, <2>4, <2>5, <2>6, <2>7, OwnStep
<1> QED BY <1>2, <1>3, <1>4

LEMMA SendRelay ==
  ASSUME Typed, RelayInv, NEW c \in Callers, Send(c)
  PROVE  RelayKept
<1>0. At(c, "forward") /\ Admitted(c) /\ call[c].at # "idle" /\ UNCHANGED <<rows, said>>
  BY DEF Send, At, Admitted
<1>1. PICK l \in Relays, r \in Reservations :
        /\ l = Mine(c) /\ r = call[c].res
        /\ Owns(c, l, r) /\ OwnerOK(c, l, r) /\ CellOK(l, r)
        /\ \A d \in Callers \ {c} : ~Owns(d, l, r)
  BY <1>0, OwnersRecord DEF Typed
<1>2. CASE call[c].sent \/ call[c].failed
  BY <1>0, <1>2, LeaveStep DEF Send, Typed
<1>3. CASE ~(call[c].sent \/ call[c].failed)
  <2>1. /\ sends' = [sends EXCEPT ![l][r] = @ + 1]
        /\ call' = [call EXCEPT ![c].at = "await", ![c].sent = TRUE]
    BY <1>1, <1>3 DEF Send
  <2>2. sends[l][r] = 0 /\ ~Ended(l, r) /\ Known(l, r)
    BY <1>0, <1>1, <1>3 DEF OwnerOK, Fresh
  <2>3. /\ sends'[l][r] = 1
        /\ \A m \in Relays, s \in Reservations : m # l \/ s # r => sends'[m][s] = sends[m][s]
    BY <2>1, <2>2 DEF Typed, RelayTyped
  <2>4. \A m \in Relays, s \in Reservations : m # l \/ s # r => SameCell(m, s)
    BY <1>0, <2>3 DEF SameCell, Known, Ended
  <2>5. CellOK(l, r)'
    BY <1>0, <1>1, <2>2, <2>3 DEF CellOK, Proven, Known, Ended
  <2>6. call[c] \in Handler
    BY <1>0, BusyCall DEF Typed
  <2>7. /\ call'[c].at = "await" /\ call'[c].res = r /\ call'[c].sent = TRUE
        /\ \A d \in Callers \ {c} : call'[d] = call[d]
    BY <1>1, <2>1, <2>6 DEF Typed, RelayTyped, Handler
  <2>8. Owns(c, l, r)' /\ OwnerOK(c, l, r)'
    BY <1>0, <1>1, <2>2, <2>3, <2>7
       DEF Owns, OwnerOK, Admitted, Fresh, InFlight, At, Mine, Known, Ended
  <2>9. ~Proven(l, r)
    BY <2>2 DEF Proven
  <2> QED BY <1>1, <2>9, <2>4, <2>5, <2>7, <2>8, OwnStep
<1> QED BY <1>2, <1>3

LEMMA UnansweredRelay ==
  ASSUME Typed, RelayInv, NEW c \in Callers, Unanswered(c)
  PROVE  RelayKept
<1>0. /\ At(c, "await") /\ Admitted(c) /\ InFlight(c) /\ call[c].at # "idle"
      /\ UNCHANGED <<rows, said, sends>> /\ Goto(c, "abandon")
  BY DEF Unanswered, At, Admitted, InFlight
<1>1. PICK l \in Relays, r \in Reservations :
        /\ l = Mine(c) /\ r = call[c].res
        /\ Owns(c, l, r) /\ OwnerOK(c, l, r) /\ CellOK(l, r)
        /\ \A d \in Callers \ {c} : ~Owns(d, l, r)
  BY <1>0, OwnersRecord DEF Typed
<1>2. \A m \in Relays, s \in Reservations : SameCell(m, s)
  BY <1>0, SameRows
<1>4. /\ call'[c].at = "abandon" /\ call'[c].res = r /\ call'[c].sent = call[c].sent
      /\ \A d \in Callers \ {c} : call'[d] = call[d]
  BY <1>0, <1>1, GotoOne DEF Typed
<1>5. Owns(c, l, r)' /\ OwnerOK(c, l, r)'
  BY <1>0, <1>1, <1>2, <1>4 DEF Owns, OwnerOK, SameCell, Admitted, Fresh, InFlight, At, Mine
<1>6. CellOK(l, r)' /\ (Proven(l, r) => Proven(l, r)')
  BY <1>1, <1>2, CellKept
<1> QED BY <1>1, <1>2, <1>4, <1>5, <1>6, OwnStep

LEMMA CommitRelay ==
  ASSUME Typed, RelayInv, NEW c \in Callers, Commit(c)
  PROVE  RelayKept
<1>0. At(c, "commit") /\ Admitted(c) /\ call[c].at # "idle" /\ UNCHANGED sends
  BY DEF Commit, At, Admitted
<1>1. PICK l \in Relays, r \in Reservations :
        /\ l = Mine(c) /\ r = call[c].res
        /\ Owns(c, l, r) /\ OwnerOK(c, l, r) /\ CellOK(l, r)
        /\ \A d \in Callers \ {c} : ~Owns(d, l, r)
  BY <1>0, OwnersRecord DEF Typed
<1>2. "final" \in Categories /\ "intent" \in Categories /\ "terminal" \in Categories
  BY DEF Categories, Slots
<1>3. \/ /\ ~call[c].failed /\ PutDone(l, r, "final")
         /\ said' = [said EXCEPT ![l][r]["final"] = call[c].last]
         /\ Goto(c, "sendfinal")
      \/ PutFailed(l, r, "final") /\ Return(c) /\ UNCHANGED said
      \/ Return(c) /\ UNCHANGED <<rows, said>>
  BY <1>1 DEF Commit
<1>4. CASE /\ ~call[c].failed /\ PutDone(l, r, "final")
           /\ said' = [said EXCEPT ![l][r]["final"] = call[c].last]
           /\ Goto(c, "sendfinal")
  <2>1. SaidWrite(l, r, "final", call[c].last)
    BY <1>4 DEF SaidWrite
  <2>2. /\ said'[l][r]["terminal"] = said[l][r]["terminal"]
        /\ said' # said => said'[l][r]["final"] = call[c].last
        /\ \A m \in Relays, s \in Reservations : m # l \/ s # r => said'[m][s] = said[m][s]
    BY <1>1, <2>1, SaidRows DEF Typed
  <2>3. \A m \in Relays, s \in Reservations, j \in {"intent", "terminal"} :
          rows'[m][s][j] = rows[m][s][j]
    BY <1>1, <1>2, <1>4, PutRows DEF Typed
  <2>4. \A m \in Relays, s \in Reservations : m # l \/ s # r => SameCell(m, s)
    BY <1>0, <2>2, <2>3 DEF SameCell, Known, Ended
  <2>5. call[c].last = "verified" => Proven(l, r)
    BY <1>0, <1>1, <1>4 DEF OwnerOK
  <2>6. Proven(l, r) => Proven(l, r)'
    BY <1>0, <1>1, <2>2, <2>3 DEF Proven, Ended
  <2>7. said'[l][r]["final"] = "verified" => Proven(l, r)
    BY <1>1, <2>2, <2>5 DEF CellOK
  <2>8. CellOK(l, r)'
    BY <1>0, <1>1, <2>3, <2>6, <2>7 DEF CellOK, Known, Ended
  <2>9. /\ call'[c].at = "sendfinal" /\ call'[c].res = r
         /\ \A d \in Callers \ {c} : call'[d] = call[d]
    BY <1>0, <1>1, <1>4, GotoOne DEF Typed
  <2>10. Owns(c, l, r)' /\ OwnerOK(c, l, r)'
    BY <1>1, <2>3, <2>9 DEF Owns, OwnerOK, Admitted, Fresh, InFlight, At, Mine, Known
  <2> QED BY <1>1, <2>4, <2>6, <2>8, <2>9, <2>10, OwnStep
<1>5. CASE PutFailed(l, r, "final") /\ Return(c) /\ UNCHANGED said
  BY <1>0, <1>5, LeaveStep DEF PutFailed, Typed
<1>6. CASE Return(c) /\ UNCHANGED <<rows, said>>
  BY <1>0, <1>6, LeaveStep DEF Typed
<1> QED BY <1>3, <1>4, <1>5, <1>6

LEMMA SendFinalRelay ==
  ASSUME Typed, RelayInv, NEW c \in Callers, SendFinal(c)
  PROVE  RelayKept
<1>0. /\ At(c, "sendfinal") /\ Admitted(c) /\ call[c].at # "idle"
      /\ UNCHANGED <<rows, said, sends>>
      /\ Goto(c, "ackfinal") \/ Return(c)
  BY DEF SendFinal, At, Admitted
<1>1. PICK l \in Relays, r \in Reservations :
        /\ l = Mine(c) /\ r = call[c].res
        /\ Owns(c, l, r) /\ OwnerOK(c, l, r) /\ CellOK(l, r)
        /\ \A d \in Callers \ {c} : ~Owns(d, l, r)
  BY <1>0, OwnersRecord DEF Typed
<1>2. CASE Goto(c, "ackfinal")
  <2>1. \A m \in Relays, s \in Reservations : SameCell(m, s)
    BY <1>0, SameRows
  <2>3. /\ call'[c].at = "ackfinal" /\ call'[c].res = r
        /\ \A d \in Callers \ {c} : call'[d] = call[d]
    BY <1>0, <1>1, <1>2, GotoOne DEF Typed
  <2>4. Owns(c, l, r)' /\ OwnerOK(c, l, r)'
    BY <1>1, <2>1, <2>3 DEF Owns, OwnerOK, SameCell, Admitted, Fresh, InFlight, At, Mine
  <2>5. CellOK(l, r)' /\ (Proven(l, r) => Proven(l, r)')
    BY <1>1, <2>1, CellKept
  <2> QED BY <1>1, <2>1, <2>3, <2>4, <2>5, OwnStep
<1>3. CASE Return(c)
  BY <1>0, <1>3, LeaveStep DEF Typed
<1> QED BY <1>0, <1>2, <1>3

LEMMA AckFinalRelay ==
  ASSUME Typed, RelayInv, NEW c \in Callers, AckFinal(c)
  PROVE  RelayKept
<1>0. At(c, "ackfinal") /\ Return(c) /\ UNCHANGED <<said, sends>> /\ call[c].at # "idle"
  BY DEF AckFinal, At
<1>1. PICK l \in Relays, r \in Reservations : l = Mine(c) /\ r = call[c].res
  BY <1>0, BusyCall DEF Typed
<1>2. \A m \in Relays, s \in Reservations, j \in {"intent", "terminal"} :
        rows'[m][s][j] = rows[m][s][j]
  <2>1. rows' = [rows EXCEPT ![l][r]["final"] = "acknowledged"]
    BY <1>1 DEF AckFinal, Acknowledge
  <2> QED BY <1>1, <2>1 DEF Typed, RelayTyped, RowTable, Categories, Slots
<1>3. \A m \in Relays, s \in Reservations : SameCell(m, s)
  BY <1>0, <1>2, SameRows
<1>4. \A d \in Callers : call'[d] = call[d] \/ ~Admitted(d)'
  BY <1>0, ReturnOne DEF Typed, Admitted
<1> QED BY <1>3, <1>4, QuietStep

LEMMA AttemptRelay ==
  ASSUME Typed, RelayInv, NEW c \in Callers, Attempt(c)
  PROVE  RelayKept
<1>1. CASE \E r \in Reservations : Reserve(c, r)
  <2>1. UNCHANGED <<rows, said, sends>>
    BY <1>1 DEF Reserve
  <2>2. \A d \in Callers : call'[d] = call[d] \/ ~Admitted(d)'
    <3>1. PICK r \in Reservations : Reserve(c, r)
      BY <1>1
    <3>2. UNCHANGED call \/ call' = [call EXCEPT ![c] = [Idle EXCEPT !.at = "reserved", !.res = r]]
      BY <3>1, Zenon DEF Reserve
    <3>3. [Idle EXCEPT !.at = "reserved", !.res = r].at = "reserved"
      BY DEF Idle
    <3> QED BY <3>2, <3>3 DEF Typed, RelayTyped, Admitted
  <2> QED BY <2>1, <2>2, SameRows, QuietStep
<1>2. CASE Prepare(c)
  BY <1>2, PrepareRelay
<1>3. CASE Decline(c)
  <2>1. call[c].at # "idle"
    BY <1>3 DEF Decline, At
  <2> QED BY <1>3, <2>1, LeaveStep DEF Decline, Typed
<1>4. CASE Send(c)
  BY <1>4, SendRelay
<1>5. CASE Headers(c)
  BY <1>5, ProgressRelay DEF Headers, InFlight, At
<1>6. CASE Checkpoint(c)
  BY <1>6, ProgressRelay DEF Checkpoint, InFlight, At
<1>7. CASE Unanswered(c)
  BY <1>7, UnansweredRelay
<1>8. CASE Abandon(c) \/ Rejected(c) \/ Finish(c)
  <2>1. InFlight(c) /\ "unproven" \in Verdicts
    BY <1>8 DEF Abandon, Rejected, Finish, InFlight, At, Verdicts
  <2>2. /\ {"release"} \in SUBSET {"forward", "release", "commit"}
        /\ {"forward", "release"} \in SUBSET {"forward", "release", "commit"}
        /\ {"commit", "release"} \in SUBSET {"forward", "release", "commit"}
        /\ {"release"} \in SUBSET {"release", "commit"}
        /\ {"commit", "release"} \in SUBSET {"release", "commit"}
    OBVIOUS
  <2>3. CASE Abandon(c)
    BY <2>1, <2>2, <2>3, TerminalRelay DEF Abandon
  <2>4. CASE Rejected(c)
    BY <2>1, <2>2, <2>4, TerminalRelay DEF Rejected
  <2>5. CASE Finish(c)
    BY <2>1, <2>2, <2>5, TerminalRelay DEF Finish
  <2> QED BY <1>8, <2>3, <2>4, <2>5
<1>9. CASE Commit(c)
  BY <1>9, CommitRelay
<1>10. CASE SendFinal(c)
  BY <1>10, SendFinalRelay
<1>11. CASE AckFinal(c)
  BY <1>11, AckFinalRelay
<1>12. CASE Release(c)
  <2>1. call[c].at # "idle"
    BY <1>12 DEF Release, At
  <2> QED BY <1>12, <2>1, LeaveStep DEF Release, Typed
<1> QED BY <1>1, <1>2, <1>3, <1>4, <1>5, <1>6, <1>7, <1>8, <1>9, <1>10, <1>11, <1>12 DEF Attempt

\* The worker, the other requests, a crash and billing leave the attempts as
\* they are.
LEMMA OutsideRelay ==
  ASSUME Typed, RelayInv,
         \/ \E l \in Relays, r \in Reservations, k \in Categories : Deliver(l, r, k)
         \/ \E l \in Relays : OtherPut(l) \/ OtherAcknowledged(l) \/ Crash(l)
         \/ \E r \in Reservations : Billing(r)
         \/ UNCHANGED vars
  PROVE  RelayKept
<1>1. \A c \in Callers : call'[c] = call[c] \/ ~Admitted(c)'
  BY DEF Deliver, OtherPut, OtherAcknowledged, Crash, Billing, SettleCheck, SettleCommit, Elapse,
         Sweep, vars, relayVars, Admitted, Idle, Typed, RelayTyped
<1>2. CASE \E l \in Relays, r \in Reservations, k \in Categories : Deliver(l, r, k)
  <2>1. PICK l \in Relays, r \in Reservations, k \in Categories : Deliver(l, r, k)
    BY <1>2
  <2>2. /\ Acknowledge(l, r, k) \/ UNCHANGED rows
        /\ rows[l][r][k] # "absent" /\ UNCHANGED <<said, sends>>
    BY <2>1 DEF Deliver
  <2>3. \A m \in Relays, s \in Reservations, j \in Categories :
          rows'[m][s][j] # "absent" <=> rows[m][s][j] # "absent"
    BY <2>2, AcknowledgeRows DEF Typed
  <2>4. {"intent", "terminal"} \subseteq Categories
    BY DEF Categories, Slots
  <2> QED BY <1>1, <2>2, <2>3, <2>4, SameRows, QuietStep
<1>3. CASE UNCHANGED <<rows, said, sends>>
  BY <1>1, <1>3, SameRows, QuietStep
<1> QED BY <1>2, <1>3 DEF OtherPut, OtherAcknowledged, Crash, Billing, SettleCheck, SettleCommit,
                          Elapse, Sweep, vars, relayVars

LEMMA RelayStep == Typed /\ RelayInv /\ [Next]_vars => RelayKept
BY AttemptRelay, OutsideRelay DEF Next

LEMMA InitRelay == Init => RelayInv
BY DeliveryAssumption
DEF Init, RelayInv, CellOK, Owns, Admitted, Idle, Known, Ended, Categories, Slots, Verdicts

LEMMA RelayAlways == Spec => []RelayInv
<1>1. Typed /\ RelayInv /\ [Next]_vars => RelayInv'
  BY RelayStep DEF RelayKept
<1> QED BY <1>1, TypedAlways, InitRelay, PTL DEF Spec

\* The relay sends one request upstream for an admitted intent: Admit takes an
\* intent once, and Do asks the attempt before it sends.
THEOREM OneSend == Spec => []SentOnce
<1>1. RelayInv => SentOnce
  BY DEF RelayInv, CellOK, SentOnce
<1> QED BY <1>1, RelayAlways, PTL

-----------------------------------------------------------------------------
(* What billing believes.  A verified verdict reaches a task only with a    *)
(* final event whose relay has the terminal record, and a charge only from  *)
(* such a task.                                                             *)

Backed(r) == \E l \in Relays : Proven(l, r)

BillingInv ==
  \A r \in Reservations :
    task[r].verdict = "verified" \/ settling[r] \/ res[r] = "committed" => Backed(r)

LEMMA AcceptBacked ==
  ASSUME Typed, RelayInv, BillingInv, RelayKept,
         NEW l \in Relays, NEW r \in Reservations, NEW k \in Categories, AcceptExecution(l, r, k)
  PROVE  BillingInv'
<1>1. \A s \in Reservations : Backed(s) => Backed(s)'
  BY DEF RelayKept, Backed
<1>2. UNCHANGED <<res, settling>>
  BY DEF AcceptExecution
<1>3. \A s \in Reservations :
        \/ task'[s] = task[s]
        \/ s = r /\ task'[s].verdict = said[l][r]["final"]
  BY DEF AcceptExecution, Typed, BillingTyped
<1>4. said[l][r]["final"] = "verified" => Backed(r)
  BY DEF RelayInv, CellOK, Backed
<1> QED BY <1>1, <1>2, <1>3, <1>4 DEF BillingInv

LEMMA UnchargedBacked ==
  ASSUME BillingInv, RelayKept,
         \A s \in Reservations :
           /\ task'[s].verdict = task[s].verdict
           /\ settling'[s] => settling[s] \/ task[s].verdict = "verified"
           /\ res'[s] = "committed" => res[s] = "committed" \/ settling[s]
  PROVE  BillingInv'
<1>1. \A s \in Reservations : Backed(s) => Backed(s)'
  BY DEF RelayKept, Backed
<1> QED BY <1>1 DEF BillingInv

LEMMA BillingBacked ==
  ASSUME Typed, BillingInv, RelayKept, NEW r \in Reservations, Billing(r)
  PROVE  BillingInv'
<1>1. \A s \in Reservations : task'[s].verdict = task[s].verdict
  BY DEF Billing, SettleCheck, SettleCommit, Elapse, Sweep, Completed, Typed, BillingTyped, Task
<1>2. \A s \in Reservations : settling'[s] => settling[s] \/ task[s].verdict = "verified"
  BY DEF Billing, SettleCheck, SettleCommit, Elapse, Sweep, Typed, BillingTyped
<1>3. \A s \in Reservations : res'[s] = "committed" => res[s] = "committed" \/ settling[s]
  BY DEF Billing, SettleCheck, SettleCommit, Elapse, Sweep, Typed, BillingTyped
<1> QED BY <1>1, <1>2, <1>3, UnchargedBacked

LEMMA BillingStep == Typed /\ RelayInv /\ BillingInv /\ [Next]_vars => BillingInv'
<1> SUFFICES ASSUME Typed, RelayInv, BillingInv, [Next]_vars PROVE BillingInv'
  OBVIOUS
<1>1. RelayKept
  BY RelayStep
<1>2. CASE UNCHANGED <<res, task, settling>>
  BY <1>1, <1>2, UnchargedBacked
<1>3. ASSUME NEW c \in Callers, Attempt(c) PROVE BillingInv'
  <2>1. CASE \E r \in Reservations : Reserve(c, r)
    <3>1. /\ UNCHANGED <<task, settling>>
          /\ \A s \in Reservations : res'[s] = "committed" => res[s] = "committed"
      BY <2>1 DEF Reserve, Typed, BillingTyped
    <3> QED BY <1>1, <3>1, UnchargedBacked
  <2>2. CASE SendFinal(c)
    <3>1. CASE UNCHANGED billingVars
      BY <1>2, <3>1 DEF billingVars
    <3>2. CASE AcceptExecution(Mine(c), call[c].res, "final")
      <4>1. Mine(c) \in Relays /\ call[c].res \in Reservations /\ "final" \in Categories
        BY <2>2, BusyCall DEF Typed, SendFinal, At, Categories, Slots
      <4> QED BY <1>1, <3>2, <4>1, AcceptBacked
    <3> QED BY <2>2, <3>1, <3>2 DEF SendFinal
  <2>3. CASE Release(c)
    <3>1. /\ UNCHANGED <<task, settling>>
          /\ \A s \in Reservations : res'[s] = "committed" => res[s] = "committed"
      BY <2>3 DEF Release, ReleaseQuota, billingVars, Typed, BillingTyped
    <3> QED BY <1>1, <3>1, UnchargedBacked
  <2>4. CASE UNCHANGED billingVars
    BY <1>2, <2>4 DEF billingVars
  <2> QED BY <1>3, <2>1, <2>2, <2>3, <2>4
          DEF Attempt, Prepare, Decline, Send, Headers, Checkpoint, Unanswered, Abandon, Rejected,
              Finish, Record, Commit, AckFinal
<1>4. ASSUME NEW l \in Relays, NEW r \in Reservations, NEW k \in Categories, Deliver(l, r, k)
      PROVE  BillingInv'
  BY <1>1, <1>4, AcceptBacked DEF Deliver
<1>5. ASSUME NEW r \in Reservations, Billing(r) PROVE BillingInv'
  BY <1>1, <1>5, BillingBacked
<1>6. CASE \E l \in Relays : OtherPut(l) \/ OtherAcknowledged(l) \/ Crash(l)
  BY <1>2, <1>6 DEF OtherPut, OtherAcknowledged, Crash, billingVars
<1>7. CASE UNCHANGED vars
  BY <1>2, <1>7 DEF vars, billingVars
<1> QED BY <1>3, <1>4, <1>5, <1>6, <1>7 DEF Next

\* A committed reservation rests on an upstream answer whose verified usage its
\* relay has on disk: durableCommit, AcceptExecution and CommitQuotaWithUsage
\* together, through crashes, lost calls and full outboxes.
THEOREM ChargeNeedsEvidence == Spec => []ChargedOnEvidence
<1>1. Init => BillingInv
  BY DeliveryAssumption DEF Init, BillingInv, Verdicts
<1>2. BillingInv => ChargedOnEvidence
  BY DEF BillingInv, Backed, Proven, Ended, ChargedOnEvidence
<1> QED BY <1>1, <1>2, BillingStep, TypedAlways, RelayAlways, PTL DEF Spec

\* No step charges a reservation after its deadline: only the transaction of
\* CommitQuotaWithUsage commits, and it looks at the clock again.
THEOREM ChargeInTime == Spec => NoLateCharge
<1>1. Typed /\ [Next]_vars =>
        [\A r \in Reservations : res[r] # "committed" /\ res'[r] = "committed" => ~past[r]]_vars
  <2> SUFFICES ASSUME Typed, Next, NEW r \in Reservations, res[r] # "committed", res'[r] = "committed"
               PROVE  ~past[r]
    OBVIOUS
  <2>1. CASE UNCHANGED res
    BY <2>1
  <2>2. ASSUME NEW c \in Callers, Attempt(c) PROVE UNCHANGED res \/ res'[r] = res[r] \/ res'[r] # "committed"
    BY <2>2 DEF Attempt, Reserve, Prepare, Decline, Send, Headers, Checkpoint, Unanswered, Abandon,
                Rejected, Finish, Record, Commit, SendFinal, AckFinal, Release, ReleaseQuota,
                AcceptExecution, billingVars, Typed, BillingTyped
  <2>3. ASSUME NEW s \in Reservations, Billing(s) PROVE ~past[r]
    BY <2>3 DEF Billing, SettleCheck, SettleCommit, Settleable, Elapse, Sweep, Typed, BillingTyped
  <2> QED BY <2>1, <2>2, <2>3
          DEF Next, Deliver, AcceptExecution, OtherPut, OtherAcknowledged, Crash, billingVars
<1> QED BY <1>1, TypedAlways, PTL DEF Spec, NoLateCharge

-----------------------------------------------------------------------------
(* The capacity of an outbox: its pending rows and the slots it has promised*)
(* never exceed MaxEvents.                                                  *)

PendingRows(l) == {e \in Reservations \X Categories : rows[l][e[1]][e[2]] = "pending"}
Held(h)        == {e \in Reservations \X Slots : e[2] \in h[e[1]]}

Capacity == \A l \in Relays : Pending(l) + Reserved(slots[l]) <= MaxEvents

LEMMA FinitePairs ==
  /\ IsFiniteSet(Slots)
  /\ IsFiniteSet(Reservations \X Categories) /\ IsFiniteSet(Reservations \X Slots)
<1>1. IsFiniteSet({"header"}) /\ IsFiniteSet({"terminal"}) /\ IsFiniteSet({"final"})
      /\ IsFiniteSet({"intent"}) /\ IsFiniteSet({"usage"})
  BY FS_Singleton
<1>2. IsFiniteSet({"header"} \cup {"terminal"})
  BY <1>1, FS_Union
<1>3. IsFiniteSet(({"header"} \cup {"terminal"}) \cup {"final"})
  BY <1>1, <1>2, FS_Union
<1>4. Slots = ({"header"} \cup {"terminal"}) \cup {"final"}
  BY DEF Slots
<1>5. IsFiniteSet({"intent"} \cup {"usage"})
  BY <1>1, FS_Union
<1>6. IsFiniteSet(({"intent"} \cup {"usage"}) \cup Slots)
  BY <1>3, <1>4, <1>5, FS_Union
<1>7. Categories = ({"intent"} \cup {"usage"}) \cup Slots
  BY DEF Categories
<1> QED BY <1>3, <1>4, <1>6, <1>7, FS_Product, DeliveryAssumption

LEMMA CountsAreNat ==
  /\ \A l : /\ IsFiniteSet(PendingRows(l)) /\ Cardinality(PendingRows(l)) \in Nat
            /\ Pending(l) = others[l] + Cardinality(PendingRows(l))
  /\ \A h : IsFiniteSet(Held(h)) /\ Cardinality(Held(h)) \in Nat /\ Reserved(h) = Cardinality(Held(h))
<1>1. \A l : IsFiniteSet(PendingRows(l))
  <2> TAKE l
  <2>1. PendingRows(l) \subseteq Reservations \X Categories
    BY DEF PendingRows
  <2> QED BY <2>1, FinitePairs, FS_Subset
<1>2. \A h : IsFiniteSet(Held(h))
  <2> TAKE h
  <2>1. Held(h) \subseteq Reservations \X Slots
    BY DEF Held
  <2> QED BY <2>1, FinitePairs, FS_Subset
<1>3. \A l : Pending(l) = others[l] + Cardinality(PendingRows(l))
  BY DEF Pending, PendingRows
<1>4. \A h : Reserved(h) = Cardinality(Held(h))
  BY DEF Reserved, Held
<1> QED BY <1>1, <1>2, <1>3, <1>4, FS_CardinalityType

\* Slots that are given up, or one that becomes a row.
LEMMA HeldShrinks ==
  ASSUME NEW h, NEW g, \A r \in Reservations : g[r] \subseteq h[r]
  PROVE  Reserved(g) <= Reserved(h)
<1>1. Held(g) \subseteq Held(h)
  BY DEF Held
<1> QED BY <1>1, CountsAreNat, FS_Subset

LEMMA SlotUsed ==
  ASSUME NEW h \in [Reservations -> SUBSET Slots], NEW r \in Reservations, NEW k \in h[r]
  PROVE  Reserved([h EXCEPT ![r] = @ \ {k}]) = Reserved(h) - 1
<1> DEFINE g == [h EXCEPT ![r] = @ \ {k}]
<1>1. <<r, k>> \in Held(h)
  BY DEF Held
<1>2. Held(g) = Held(h) \ {<<r, k>>}
  BY DEF Held
<1> HIDE DEF g
<1>3. Cardinality(Held(g)) = Cardinality(Held(h)) - 1
  <2>1. IsFiniteSet(Held(h))
    BY CountsAreNat
  <2>2. Cardinality(Held(h) \ {<<r, k>>}) = Cardinality(Held(h)) - 1
    BY <1>1, <2>1, FS_RemoveElement, Zenon
  <2> QED BY <1>2, <2>2
<1>4. Reserved(g) = Reserved(h) - 1
  BY <1>3, CountsAreNat
<1> QED BY <1>4 DEF g

LEMMA SlotsTaken ==
  ASSUME NEW h \in [Reservations -> SUBSET Slots], NEW r \in Reservations, NEW S \in SUBSET Slots
  PROVE  /\ Cardinality(S) \in Nat
         /\ Reserved([h EXCEPT ![r] = S]) <= Reserved(h) + Cardinality(S)
<1> DEFINE g == [h EXCEPT ![r] = S]
           T == {r} \X S
<1>1. IsFiniteSet(S) /\ Cardinality(S) \in Nat
  BY FinitePairs, FS_Subset, FS_CardinalityType
<1>2. IsFiniteSet(T) /\ Cardinality(T) = Cardinality(S)
  <2>1. IsFiniteSet({r}) /\ Cardinality({r}) = 1
    BY FS_Singleton, Zenon
  <2>2. IsFiniteSet(T) /\ Cardinality(T) = Cardinality({r}) * Cardinality(S)
    BY <1>1, <2>1, FS_Product, Zenon
  <2> QED BY <1>1, <2>1, <2>2
<1>3. Held(g) \subseteq Held(h) \cup T
  BY DEF Held
<1>4. /\ IsFiniteSet(Held(h) \cup T)
      /\ Cardinality(Held(h) \cup T)
           = Cardinality(Held(h)) + Cardinality(T) - Cardinality(Held(h) \cap T)
      /\ Cardinality(Held(h) \cap T) \in Nat
  BY <1>1, <1>2, CountsAreNat, FS_Union, FS_Intersection, FS_CardinalityType
<1> HIDE DEF g, T
<1>5. Cardinality(Held(g)) <= Cardinality(Held(h) \cup T)
  BY <1>3, <1>4, FS_Subset
<1>6. Reserved(g) <= Reserved(h) + Cardinality(S)
  BY <1>1, <1>2, <1>4, <1>5, CountsAreNat, FS_CardinalityType
<1> QED BY <1>1, <1>6 DEF g

\* Rows of one outbox before and after.
LEMMA PendingMore ==
  ASSUME NEW l \in Relays, NEW r \in Reservations, NEW k \in Categories, RelayTyped,
         rows[l][r][k] = "absent",
         \A s \in Reservations, j \in Categories :
           rows'[l][s][j] = IF s = r /\ j = k THEN "pending" ELSE rows[l][s][j]
  PROVE  Cardinality(PendingRows(l)') = Cardinality(PendingRows(l)) + 1
<1>1. <<r, k>> \notin PendingRows(l)
  BY DEF PendingRows
<1>2. PendingRows(l)' = PendingRows(l) \cup {<<r, k>>}
  BY DEF PendingRows
<1>3. IsFiniteSet(PendingRows(l))
  BY CountsAreNat
<1>4. Cardinality(PendingRows(l) \cup {<<r, k>>}) = Cardinality(PendingRows(l)) + 1
  BY <1>1, <1>3, FS_AddElement, Zenon
<1> QED BY <1>2, <1>4

LEMMA PendingLess ==
  ASSUME NEW l,
         \A s \in Reservations, j \in Categories :
           rows'[l][s][j] = "pending" => rows[l][s][j] = "pending"
  PROVE  Cardinality(PendingRows(l)') <= Cardinality(PendingRows(l))
<1>1. PendingRows(l)' \subseteq PendingRows(l)
  BY DEF PendingRows
<1> QED BY <1>1, CountsAreNat, FS_Subset

LEMMA CountsAfter ==
  /\ \A l : /\ IsFiniteSet(PendingRows(l)') /\ Cardinality(PendingRows(l)') \in Nat
            /\ Pending(l)' = others'[l] + Cardinality(PendingRows(l)')
  /\ \A l : Reserved(slots[l])' = Reserved(slots'[l]) /\ Reserved(slots'[l]) \in Nat
<1>1. \A l : IsFiniteSet(PendingRows(l)')
  <2> TAKE l
  <2>1. PendingRows(l)' \subseteq Reservations \X Categories
    BY DEF PendingRows
  <2> QED BY <2>1, FinitePairs, FS_Subset
<1>2. \A l : Pending(l)' = others'[l] + Cardinality(PendingRows(l)')
  BY DEF Pending, PendingRows
<1>3. \A l : Reserved(slots[l])' = Reserved(slots'[l])
  BY DEF Reserved
<1> QED BY <1>1, <1>2, <1>3, CountsAreNat, FS_CardinalityType

\* An outbox with neither a new row nor a new promise.
LEMMA CapacityKept ==
  ASSUME RelayTyped, Capacity, NEW l \in Relays,
         \A s \in Reservations, j \in Categories :
           rows'[l][s][j] = "pending" => rows[l][s][j] = "pending",
         others'[l] \in Nat, others'[l] <= others[l],
         \A s \in Reservations : slots'[l][s] \subseteq slots[l][s]
  PROVE  Pending(l)' + Reserved(slots'[l]) <= MaxEvents
<1>1. Cardinality(PendingRows(l)') <= Cardinality(PendingRows(l))
  BY PendingLess
<1>2. Reserved(slots'[l]) <= Reserved(slots[l])
  BY HeldShrinks
<1>3. Pending(l) + Reserved(slots[l]) <= MaxEvents
  BY DEF Capacity
<1>4. /\ Pending(l) = others[l] + Cardinality(PendingRows(l)) /\ Cardinality(PendingRows(l)) \in Nat
      /\ Reserved(slots[l]) \in Nat
  BY CountsAreNat
<1>5. /\ Pending(l)' = others'[l] + Cardinality(PendingRows(l)') /\ Cardinality(PendingRows(l)') \in Nat
      /\ Reserved(slots'[l]) \in Nat
  BY CountsAfter
<1>6. others[l] \in Nat /\ MaxEvents \in Nat
  BY DeliveryAssumption DEF RelayTyped
<1> QED BY <1>1, <1>2, <1>3, <1>4, <1>5, <1>6

LEMMA ExpireSlots ==
  ASSUME RelayTyped, NEW l \in Relays
  PROVE  /\ \A s \in Reservations : LiveSlots(l)[s] \subseteq slots[l][s]
         /\ Expire(l) => slots'[l] = LiveSlots(l)
BY DEF RelayTyped, SlotTable, LiveSlots, Expire

LEMMA PutCapacity ==
  ASSUME RelayTyped, Capacity, NEW l \in Relays, NEW r \in Reservations, NEW k \in Categories,
         PutDone(l, r, k) \/ PutFailed(l, r, k), UNCHANGED others
  PROVE  Pending(l)' + Reserved(slots'[l]) <= MaxEvents
<1> DEFINE h == LiveSlots(l)
           g == [h EXCEPT ![r] = @ \ {k}]
<1>0. h \in [Reservations -> SUBSET Slots] /\ others[l] \in Nat /\ MaxEvents \in Nat
  BY LiveTyped, DeliveryAssumption DEF RelayTyped
<1>1. CASE Expire(l) /\ UNCHANGED rows
  BY <1>0, <1>1, ExpireSlots, CapacityKept
<1>2. CASE /\ rows[l][r][k] = "absent" /\ Fits(l, r, k)
           /\ rows' = [rows EXCEPT ![l][r][k] = "pending"]
           /\ slots' = [slots EXCEPT ![l] = g]
  <2>1. \A s \in Reservations, j \in Categories :
          rows'[l][s][j] = IF s = r /\ j = k THEN "pending" ELSE rows[l][s][j]
    BY <1>2 DEF RelayTyped, RowTable
  <2>2. Cardinality(PendingRows(l)') = Cardinality(PendingRows(l)) + 1
    BY <1>2, <2>1, PendingMore
  <2>3. Pending(l)' = Pending(l) + 1 /\ Pending(l) \in Nat
    BY <1>0, <2>2, CountsAreNat, CountsAfter
  <2>4. slots'[l] = g
    <3> HIDE DEF g
    <3> QED BY <1>2 DEF RelayTyped, SlotTable
  <2>5. Reserved(h) \in Nat /\ Reserved(h) <= Reserved(slots[l]) /\ Reserved(slots[l]) \in Nat
    BY CountsAreNat, ExpireSlots, HeldShrinks
  <2>6. CASE k \in h[r]
    <3>1. Reserved(g) = Reserved(h) - 1
      BY <1>0, <2>6, SlotUsed
    <3>2. Pending(l) + Reserved(slots[l]) <= MaxEvents
      BY DEF Capacity
    <3> HIDE DEF g, h
    <3> QED BY <1>0, <2>3, <2>4, <2>5, <3>1, <3>2
  <2>7. CASE k \notin h[r]
    <3>1. g = h
      BY <1>0, <2>7
    <3>2. Pending(l) + Reserved(h) + 1 <= MaxEvents
      BY <1>2, <2>7 DEF Fits, Room
    <3> HIDE DEF g, h
    <3> QED BY <1>0, <2>3, <2>4, <2>5, <3>1, <3>2
  <2> QED BY <2>6, <2>7
<1> QED BY <1>1, <1>2 DEF PutDone, PutFailed

LEMMA PrepareCapacity ==
  ASSUME Typed, Capacity, NEW c \in Callers, Prepare(c)
  PROVE  Pending(Mine(c))' + Reserved(slots'[Mine(c)]) <= MaxEvents
<1>0. call[c].at = "reserved" /\ UNCHANGED others
  BY DEF Prepare, At
<1>1. PICK l \in Relays, r \in Reservations : l = Mine(c) /\ r = call[c].res
  BY <1>0, BusyCall DEF Typed
<1> DEFINE h == LiveSlots(l)
           g == [h EXCEPT ![r] = Reservable(r)]
<1>2. h \in [Reservations -> SUBSET Slots] /\ others[l] \in Nat /\ MaxEvents \in Nat
  BY LiveTyped, DeliveryAssumption DEF Typed, RelayTyped
<1>3. \/ Expire(l) /\ UNCHANGED rows
      \/ /\ rows[l][r]["intent"] = "absent" /\ AdmitFits(l, r)
         /\ rows' = [rows EXCEPT ![l][r]["intent"] = "pending"]
         /\ slots' = [slots EXCEPT ![l] = g]
  BY <1>1 DEF Prepare
<1>4. CASE Expire(l) /\ UNCHANGED rows
  BY <1>0, <1>1, <1>2, <1>4, ExpireSlots, CapacityKept DEF Typed
<1>5. CASE /\ rows[l][r]["intent"] = "absent" /\ AdmitFits(l, r)
           /\ rows' = [rows EXCEPT ![l][r]["intent"] = "pending"]
           /\ slots' = [slots EXCEPT ![l] = g]
  <2>0. "intent" \in Categories
    BY DEF Categories
  <2>1. \A s \in Reservations, j \in Categories :
          rows'[l][s][j] = IF s = r /\ j = "intent" THEN "pending" ELSE rows[l][s][j]
    BY <1>5, <2>0 DEF Typed, RelayTyped, RowTable
  <2>2. Cardinality(PendingRows(l)') = Cardinality(PendingRows(l)) + 1
    BY <1>5, <2>0, <2>1, PendingMore DEF Typed
  <2>3. Pending(l)' = Pending(l) + 1 /\ Pending(l) \in Nat
    BY <1>0, <1>2, <2>2, CountsAreNat, CountsAfter
  <2>4. slots'[l] = g
    <3> HIDE DEF g
    <3> QED BY <1>5 DEF Typed, RelayTyped, SlotTable
  <2>5. Reserved(h) \in Nat /\ Reserved(g) \in Nat
    BY CountsAreNat
  <2>6. Cardinality(Reservable(r)) \in Nat /\ Reserved(g) <= Reserved(h) + Cardinality(Reservable(r))
    <3>1. Reservable(r) \in SUBSET Slots
      BY DEF Reservable
    <3> QED BY <1>2, <3>1, SlotsTaken
  <2>7. Pending(l) + Reserved(h) + (1 + Cardinality(Reservable(r))) <= MaxEvents
    BY <1>5 DEF AdmitFits, Room
  <2> HIDE DEF g, h
  <2>8. Pending(l)' + Reserved(slots'[l]) <= MaxEvents
    BY <1>2, <2>3, <2>4, <2>5, <2>6, <2>7
  <2>9. l = Mine(c)
    BY <1>1
  <2> QED BY <2>8, <2>9 DEF Mine
<1> QED BY <1>3, <1>4, <1>5

\* A relay whose rows, slots and other rows are as they were.
LEMMA CapacitySame ==
  ASSUME Capacity, NEW l \in Relays,
         others'[l] = others[l], rows'[l] = rows[l], slots'[l] = slots[l]
  PROVE  Pending(l)' + Reserved(slots'[l]) <= MaxEvents
BY DEF Capacity, Pending, Reserved

\* A put, an expiry or an admission stays within its relay's outbox.
Elsewhere(l) == \A m \in Relays \ {l} : rows'[m] = rows[m] /\ slots'[m] = slots[m]

LEMMA PutElsewhere ==
  ASSUME RelayTyped, NEW l \in Relays, NEW r \in Reservations, NEW k \in Categories,
         PutDone(l, r, k) \/ PutFailed(l, r, k)
  PROVE  Elsewhere(l)
<1> DEFINE g == [LiveSlots(l) EXCEPT ![r] = @ \ {k}]
<1>1. \A m \in Relays \ {l} : rows'[m] = rows[m]
  <2>1. UNCHANGED rows \/ rows' = [rows EXCEPT ![l][r][k] = "pending"]
    BY Zenon DEF PutDone, PutFailed
  <2> QED BY <2>1 DEF RelayTyped, RowTable
<1>2. \A m \in Relays \ {l} : slots'[m] = slots[m]
  <2>1. slots' = [slots EXCEPT ![l] = LiveSlots(l)] \/ slots' = [slots EXCEPT ![l] = g]
    BY Zenon DEF PutDone, PutFailed, Expire
  <2> HIDE DEF g
  <2> QED BY <2>1 DEF RelayTyped, SlotTable
<1> QED BY <1>1, <1>2 DEF Elsewhere

LEMMA AttemptCapacity ==
  ASSUME Typed, Capacity, NEW c \in Callers, Attempt(c)
  PROVE  Capacity'
<1>0. SUFFICES ASSUME NEW l \in Relays PROVE Pending(l)' + Reserved(slots'[l]) <= MaxEvents
  BY CountsAfter DEF Capacity
<1>1. CASE UNCHANGED <<rows, slots, others>>
  BY <1>1, CapacitySame
<1>2. ASSUME call[c].at # "idle", UNCHANGED others, NEW k \in Categories,
             PutDone(Mine(c), call[c].res, k) \/ PutFailed(Mine(c), call[c].res, k)
      PROVE  Pending(l)' + Reserved(slots'[l]) <= MaxEvents
  <2>1. PICK m \in Relays, r \in Reservations : m = Mine(c) /\ r = call[c].res
    BY <1>2, BusyCall DEF Typed
  <2>2. PutDone(m, r, k) \/ PutFailed(m, r, k)
    BY <1>2, <2>1
  <2>3. CASE l = m
    BY <1>2, <2>2, <2>3, PutCapacity DEF Typed
  <2>4. CASE l # m
    BY <1>2, <2>2, <2>4, PutElsewhere, CapacitySame DEF Typed, Elsewhere
  <2> QED BY <2>3, <2>4
<1>3. CASE Prepare(c)
  <2>1. call[c].at # "idle" /\ UNCHANGED others
    BY <1>3 DEF Prepare, At
  <2>2. PICK m \in Relays, r \in Reservations : m = Mine(c) /\ r = call[c].res
    BY <2>1, BusyCall DEF Typed
  <2>3. CASE l = m
    BY <1>3, <2>2, <2>3, PrepareCapacity
  <2>4. CASE l # m
    <3> DEFINE g == [LiveSlots(m) EXCEPT ![r] = Reservable(r)]
    <3>1. \/ UNCHANGED rows /\ slots' = [slots EXCEPT ![m] = LiveSlots(m)]
          \/ /\ rows' = [rows EXCEPT ![m][r]["intent"] = "pending"]
             /\ slots' = [slots EXCEPT ![m] = g]
      BY <1>3, <2>2 DEF Prepare, Expire
    <3> HIDE DEF g
    <3>2. rows'[l] = rows[l] /\ slots'[l] = slots[l]
      BY <2>4, <3>1 DEF Typed, RelayTyped, RowTable, SlotTable
    <3> QED BY <2>1, <3>2, CapacitySame
  <2> QED BY <2>3, <2>4
<1>4. CASE Headers(c) \/ Checkpoint(c) \/ Abandon(c) \/ Rejected(c) \/ Finish(c)
  <2>1. {"header", "usage", "terminal"} \subseteq Categories /\ call[c].at # "idle"
    BY <1>4 DEF Categories, Slots, Headers, Checkpoint, Abandon, Rejected, Finish, At
  <2>2. PICK k \in {"header", "usage", "terminal"} :
          /\ PutDone(Mine(c), call[c].res, k) \/ PutFailed(Mine(c), call[c].res, k)
          /\ UNCHANGED others
    BY <1>4 DEF Headers, Checkpoint, Abandon, Rejected, Finish, Record
  <2> QED BY <1>2, <2>1, <2>2
<1>5. CASE Commit(c)
  <2>1. "final" \in Categories /\ call[c].at # "idle" /\ UNCHANGED others
    BY <1>5 DEF Categories, Slots, Commit, At
  <2>2. CASE UNCHANGED <<rows, slots>>
    BY <1>1, <2>1, <2>2
  <2> QED BY <1>2, <1>5, <2>1, <2>2 DEF Commit
<1>6. CASE AckFinal(c)
  <2>1. call[c].at # "idle" /\ UNCHANGED <<others, slots>>
    BY <1>6 DEF AckFinal, At
  <2>2. PICK m \in Relays, r \in Reservations : m = Mine(c) /\ r = call[c].res
    BY <2>1, BusyCall DEF Typed
  <2>3. rows' = [rows EXCEPT ![m][r]["final"] = "acknowledged"]
    BY <1>6, <2>2 DEF AckFinal, Acknowledge
  <2>4. \A s \in Reservations, j \in Categories :
          rows'[l][s][j] = "pending" => rows[l][s][j] = "pending"
    BY <2>3 DEF Typed, RelayTyped, RowTable
  <2>5. others'[l] \in Nat /\ others'[l] <= others[l]
    BY <2>1 DEF Typed, RelayTyped
  <2> QED BY <2>1, <2>4, <2>5, CapacityKept DEF Typed
<1> QED BY <1>1, <1>3, <1>4, <1>5, <1>6
        DEF Attempt, Reserve, Decline, Send, Unanswered, SendFinal, Release

LEMMA CapacityStep == Typed /\ Capacity /\ [Next]_vars => Capacity'
<1> SUFFICES ASSUME Typed, Capacity, [Next]_vars PROVE Capacity'
  OBVIOUS
<1>1. ASSUME NEW c \in Callers, Attempt(c) PROVE Capacity'
  BY <1>1, AttemptCapacity
<1>2. CASE UNCHANGED <<rows, slots, others>>
  BY <1>2, CapacitySame, CountsAfter DEF Capacity
<1>3. ASSUME NEW m \in Relays, NEW r \in Reservations, NEW k \in Categories, Deliver(m, r, k),
             NEW l \in Relays
      PROVE  Pending(l)' + Reserved(slots'[l]) <= MaxEvents
  <2>1. /\ UNCHANGED rows \/ rows' = [rows EXCEPT ![m][r][k] = "acknowledged"]
        /\ slots' = [slots EXCEPT ![m] = LiveSlots(m)] /\ UNCHANGED others
    BY <1>3 DEF Deliver, Acknowledge, Expire
  <2>2. \A s \in Reservations, j \in Categories :
          rows'[l][s][j] = "pending" => rows[l][s][j] = "pending"
    <3>1. CASE UNCHANGED rows
      BY <3>1
    <3>2. CASE rows' = [rows EXCEPT ![m][r][k] = "acknowledged"]
      BY <3>2 DEF Typed, RelayTyped, RowTable
    <3> QED BY <2>1, <3>1, <3>2
  <2>3. \A s \in Reservations : slots'[l][s] \subseteq slots[l][s]
    BY <2>1, ExpireSlots DEF Typed, RelayTyped, SlotTable
  <2>4. others'[l] \in Nat /\ others'[l] <= others[l]
    BY <2>1 DEF Typed, RelayTyped
  <2> QED BY <2>2, <2>3, <2>4, CapacityKept DEF Typed
<1>4. ASSUME NEW m \in Relays, OtherAcknowledged(m), NEW l \in Relays
      PROVE  Pending(l)' + Reserved(slots'[l]) <= MaxEvents
  <2>1. UNCHANGED <<rows, slots>> /\ others'[l] \in Nat /\ others'[l] <= others[l]
    BY <1>4 DEF OtherAcknowledged, Typed, RelayTyped
  <2> QED BY <2>1, CapacityKept DEF Typed
<1>5. ASSUME NEW m \in Relays, OtherPut(m), NEW l \in Relays
      PROVE  Pending(l)' + Reserved(slots'[l]) <= MaxEvents
  <2>1. /\ UNCHANGED rows /\ slots' = [slots EXCEPT ![m] = LiveSlots(m)]
        /\ others' = [others EXCEPT ![m] = @ + 1]
        /\ Pending(m) + Reserved(LiveSlots(m)) + 1 <= MaxEvents
    BY <1>5 DEF OtherPut, Expire, Room
  <2>2. CASE l = m
    <3>1. slots'[l] = LiveSlots(l) /\ others'[l] = others[l] + 1 /\ others[l] \in Nat
      BY <2>1, <2>2 DEF Typed, RelayTyped, SlotTable
    <3>2. Pending(l)' = others'[l] + Cardinality(PendingRows(l))
      BY <2>1 DEF Pending, PendingRows
    <3>3. Pending(l)' = Pending(l) + 1
      BY <3>1, <3>2, CountsAreNat
    <3>4. Pending(l) \in Nat /\ Reserved(LiveSlots(l)) \in Nat /\ MaxEvents \in Nat
      BY <3>1, CountsAreNat, DeliveryAssumption
    <3> QED BY <2>1, <2>2, <3>1, <3>3, <3>4
  <2>3. CASE l # m
    BY <2>1, <2>3, CapacitySame DEF Typed, RelayTyped, SlotTable
  <2> QED BY <2>2, <2>3
<1>6. CASE \E l \in Relays : Crash(l)
  BY <1>2, <1>6 DEF Crash
<1>7. ASSUME NEW r \in Reservations, Billing(r) PROVE Capacity'
  BY <1>2, <1>7 DEF Billing, SettleCheck, SettleCommit, Elapse, Sweep, relayVars
<1>8. CASE UNCHANGED vars
  BY <1>2, <1>8 DEF vars, relayVars
<1> QED BY <1>1, <1>3, <1>4, <1>5, <1>6, <1>7, <1>8, CountsAfter DEF Next, Capacity

LEMMA InitCapacity == Init => Capacity
<1> SUFFICES ASSUME Init, NEW l \in Relays PROVE Pending(l) + Reserved(slots[l]) <= MaxEvents
  BY DEF Capacity
<1>1. PendingRows(l) = {} /\ Held(slots[l]) = {} /\ others[l] = 0
  BY DEF Init, PendingRows, Held
<1>2. Cardinality(PendingRows(l)) = 0 /\ Cardinality(Held(slots[l])) = 0
  BY <1>1, FS_EmptySet, Zenon
<1>3. Pending(l) = 0 /\ Reserved(slots[l]) = 0
  BY <1>1, <1>2, CountsAreNat
<1> QED BY <1>3, DeliveryAssumption

LEMMA CapacityAlways == Spec => []Capacity
BY TypedAlways, InitCapacity, CapacityStep, PTL DEF Spec

\* Types; the other requests' rows are bounded because an outbox never holds
\* more than its capacity.
THEOREM Types == Spec => []TypeOK
<1>1. Typed /\ Capacity => TypeOK
  <2> SUFFICES ASSUME Typed, Capacity PROVE TypeOK
    OBVIOUS
  <2>1. others \in [Relays -> 0..MaxEvents]
    <3>1. ASSUME NEW l \in Relays PROVE others[l] \in 0..MaxEvents
      <4>1. /\ others[l] \in Nat /\ MaxEvents \in Nat
            /\ Pending(l) + Reserved(slots[l]) <= MaxEvents
        BY DeliveryAssumption DEF Typed, RelayTyped, Capacity
      <4>2. /\ Pending(l) = others[l] + Cardinality(PendingRows(l))
            /\ Cardinality(PendingRows(l)) \in Nat /\ Reserved(slots[l]) \in Nat
        BY CountsAreNat
      <4> QED BY <4>1, <4>2
    <3> QED BY <3>1 DEF Typed, RelayTyped
  <2> QED BY <2>1 DEF Typed, RelayTyped, BillingTyped, TypeOK, RowTable, SlotTable, SaidTable, Handler, Task
<1> QED BY <1>1, TypedAlways, CapacityAlways, PTL

-----------------------------------------------------------------------------
(* Room for evidence: the slots of an attempt are taken by its own puts, or *)
(* given up at its deadline.                                                *)

Roomy(c, l, r) == past[r] \/ Needed(c) \subseteq slots[l][r]

RoomInv == \A l \in Relays, r \in Reservations, c \in Callers : Owns(c, l, r) => Roomy(c, l, r)

SlotsKept(l, r) == (past[r] => past'[r]) /\ (past'[r] \/ slots'[l][r] = slots[l][r])

LEMMA NeededAt ==
  ASSUME NEW c
  PROVE  /\ At(c, "await") => Needed(c) = Slots
         /\ At(c, "body") => Needed(c) = {"terminal", "final"}
         /\ At(c, "abandon") => Needed(c) = {"terminal"}
         /\ At(c, "commit") => Needed(c) = {"final"}
         /\ Fresh(c) => Needed(c) = Slots
         /\ ~Fresh(c) /\ call[c].at \notin {"await", "body", "abandon", "commit"} => Needed(c) = {}
BY DEF Needed, At, Fresh

LEMMA NeededAfter ==
  ASSUME NEW c
  PROVE  /\ At(c, "await")' => Needed(c)' = Slots
         /\ At(c, "body")' => Needed(c)' = {"terminal", "final"}
         /\ At(c, "abandon")' => Needed(c)' = {"terminal"}
         /\ At(c, "commit")' => Needed(c)' = {"final"}
         /\ Fresh(c)' => Needed(c)' = Slots
         /\ ~Fresh(c)' /\ call'[c].at \notin {"await", "body", "abandon", "commit"} => Needed(c)' = {}
BY DEF Needed, At, Fresh

\* No slot of an attempt before its deadline is touched, and handlers need what
\* they needed, or less.
LEMMA RoomQuiet ==
  ASSUME RoomInv,
         \A l \in Relays, r \in Reservations : SlotsKept(l, r),
         \A c \in Callers :
           \/ call'[c] = call[c] \/ Needed(c)' = {}
           \/ Admitted(c) /\ call'[c].res = call[c].res /\ Needed(c)' \subseteq Needed(c)
  PROVE  RoomInv'
<1> SUFFICES ASSUME NEW l \in Relays, NEW r \in Reservations, NEW c \in Callers, Owns(c, l, r)'
             PROVE  Roomy(c, l, r)'
  BY DEF RoomInv
<1>1. CASE Needed(c)' = {}
  BY <1>1 DEF Roomy
<1>2. CASE Owns(c, l, r) /\ Needed(c)' \subseteq Needed(c)
  <2>1. Roomy(c, l, r) /\ SlotsKept(l, r)
    BY <1>2 DEF RoomInv
  <2> QED BY <1>2, <2>1 DEF Roomy, SlotsKept
<1>3. CASE call'[c] = call[c]
  <2>1. Needed(c)' = Needed(c) /\ Owns(c, l, r)
    BY <1>3 DEF Needed, Owns, Admitted, At, Mine
  <2> QED BY <1>2, <2>1
<1> QED BY <1>1, <1>2, <1>3 DEF Owns, Mine

\* The owner of an attempt uses its slots.
LEMMA RoomOwn ==
  ASSUME RoomInv, NEW l \in Relays, NEW r \in Reservations, NEW c \in Callers,
         \A d \in Callers \ {c} : ~Owns(d, l, r) /\ call'[d] = call[d],
         \A m \in Relays, s \in Reservations : m # l \/ s # r => SlotsKept(m, s),
         Admitted(c)' => Owns(c, l, r)' /\ Roomy(c, l, r)'
  PROVE  RoomInv'
<1> SUFFICES ASSUME NEW m \in Relays, NEW s \in Reservations, NEW d \in Callers, Owns(d, m, s)'
             PROVE  Roomy(d, m, s)'
  BY DEF RoomInv
<1>1. CASE d = c
  BY <1>1 DEF Owns
<1>2. CASE d # c
  <2>1. Owns(d, m, s) /\ Needed(d)' = Needed(d)
    BY <1>2 DEF Needed, Owns, Admitted, At, Mine
  <2>2. SlotsKept(m, s) /\ Roomy(d, m, s)
    BY <1>2, <2>1 DEF RoomInv
  <2> QED BY <2>1, <2>2 DEF SlotsKept, Roomy
<1> QED BY <1>1, <1>2

LEMMA ExpireKept ==
  ASSUME RelayTyped, BillingTyped, NEW l \in Relays, Expire(l), UNCHANGED past
  PROVE  \A m \in Relays, s \in Reservations : SlotsKept(m, s)
<1>1. \A s \in Reservations : LiveSlots(l)[s] = IF past[s] THEN {} ELSE slots[l][s]
  BY DEF LiveSlots
<1>2. slots'[l] = LiveSlots(l) /\ \A m \in Relays \ {l} : slots'[m] = slots[m]
  BY DEF RelayTyped, SlotTable, Expire
<1> QED BY <1>1, <1>2 DEF SlotsKept

LEMMA PutKept ==
  ASSUME RelayTyped, BillingTyped, NEW l \in Relays, NEW r \in Reservations, NEW k \in Categories,
         PutDone(l, r, k) \/ PutFailed(l, r, k), UNCHANGED past
  PROVE  /\ \A m \in Relays, s \in Reservations : m # l \/ s # r => SlotsKept(m, s)
         /\ past[r] \/ slots[l][r] \ {k} \subseteq slots'[l][r]
<1> DEFINE g == [LiveSlots(l) EXCEPT ![r] = @ \ {k}]
<1>1. Expire(l) \/ slots' = [slots EXCEPT ![l] = g]
  BY Zenon DEF PutDone, PutFailed
<1>2. CASE Expire(l)
  BY <1>2, ExpireKept DEF SlotsKept, BillingTyped
<1>3. CASE slots' = [slots EXCEPT ![l] = g]
  <2>1. /\ g[r] = LiveSlots(l)[r] \ {k}
        /\ \A s \in Reservations \ {r} : g[s] = LiveSlots(l)[s]
    BY LiveTyped
  <2>2. \A s \in Reservations : LiveSlots(l)[s] = IF past[s] THEN {} ELSE slots[l][s]
    BY DEF LiveSlots
  <2> HIDE DEF g
  <2>3. slots'[l] = g /\ \A m \in Relays \ {l} : slots'[m] = slots[m]
    BY <1>3 DEF RelayTyped, SlotTable
  <2>4. past[r] \/ slots[l][r] \ {k} \subseteq slots'[l][r]
    BY <2>1, <2>2, <2>3
  <2>5. \A m \in Relays, s \in Reservations : m # l \/ s # r => SlotsKept(m, s)
    BY <2>1, <2>2, <2>3 DEF SlotsKept
  <2> QED BY <2>4, <2>5
<1> QED BY <1>1, <1>2, <1>3

\* A record takes the slot of its category, which nobody needs afterwards.
LEMMA RecordRoom ==
  ASSUME Typed, RelayInv, RoomInv, NEW c \in Callers, InFlight(c),
         NEW k \in {"header", "usage", "terminal"}, NEW v, NEW done, NEW refused,
         Record(c, k, v, done, refused),
         \A p \in done \cup refused :
           \/ p = "release" \/ p = "forward"
           \/ p = "body" /\ {"terminal", "final"} \subseteq Needed(c) \ {k}
           \/ p = "abandon" /\ {"terminal"} \subseteq Needed(c) \ {k}
           \/ p = "commit" /\ {"final"} \subseteq Needed(c) \ {k}
  PROVE  RoomInv'
<1>0. Admitted(c) /\ call[c].at # "idle" /\ k \in Categories
  BY DEF InFlight, Admitted, Categories, Slots
<1>1. PICK l \in Relays, r \in Reservations :
        /\ l = Mine(c) /\ r = call[c].res
        /\ Owns(c, l, r) /\ OwnerOK(c, l, r)
        /\ \A d \in Callers \ {c} : ~Owns(d, l, r)
  BY <1>0, OwnersRecord DEF Typed
<1>2. /\ PutDone(l, r, k) \/ PutFailed(l, r, k)
      /\ UNCHANGED past
  BY <1>1 DEF Record, billingVars
<1>3. /\ \A m \in Relays, s \in Reservations : m # l \/ s # r => SlotsKept(m, s)
      /\ past[r] \/ slots[l][r] \ {k} \subseteq slots'[l][r]
  BY <1>0, <1>2, PutKept DEF Typed
<1>4. \E p \in done \cup refused, f \in {TRUE, k # "terminal" /\ call[c].failed} : Remember(c, p, v, f)
  BY DEF Record
<1>5. PICK p \in done \cup refused,
            f \in {TRUE, k # "terminal" /\ call[c].failed} : Remember(c, p, v, f)
  BY <1>4
<1>6. /\ call'[c].at = p /\ call'[c].res = r /\ call'[c].sent = TRUE
      /\ \A d \in Callers \ {c} : call'[d] = call[d]
  <2>1. call[c].sent = TRUE
    BY <1>0, <1>1, BusyCall DEF OwnerOK, Typed, Handler
  <2>2. /\ call'[c] = [at |-> p, res |-> call[c].res, sent |-> call[c].sent,
                       failed |-> f, last |-> v]
        /\ \A d \in Callers \ {c} : call'[d] = call[d]
    BY <1>5, RememberOne DEF Typed
  <2> QED BY <1>1, <2>1, <2>2
<1>7. Needed(c)' = {} \/ Needed(c)' \subseteq Needed(c) \ {k}
  BY <1>6, NeededAfter DEF At, Fresh
<1>8. Roomy(c, l, r)
  BY <1>1 DEF RoomInv
<1>9. Roomy(c, l, r)'
  BY <1>2, <1>3, <1>7, <1>8 DEF Roomy
<1>10. Admitted(c)' => Owns(c, l, r)'
  BY <1>1, <1>6 DEF Owns, Mine
<1> QED BY <1>1, <1>3, <1>6, <1>9, <1>10, RoomOwn

LEMMA CommitRoom ==
  ASSUME Typed, RelayInv, RoomInv, NEW c \in Callers, Commit(c)
  PROVE  RoomInv'
<1>0. /\ At(c, "commit") /\ Admitted(c) /\ call[c].at # "idle" /\ "final" \in Categories
      /\ UNCHANGED past
  BY DEF Commit, At, Admitted, Categories, Slots, billingVars
<1>1. PICK l \in Relays, r \in Reservations :
        /\ l = Mine(c) /\ r = call[c].res
        /\ Owns(c, l, r) /\ \A d \in Callers \ {c} : ~Owns(d, l, r)
  BY <1>0, OwnersRecord DEF Typed
<1>2. \/ /\ PutDone(l, r, "final") \/ PutFailed(l, r, "final")
         /\ Goto(c, "sendfinal") \/ Return(c)
      \/ Return(c) /\ UNCHANGED slots
  BY <1>1 DEF Commit
<1>3. /\ call'[c].at \in {"sendfinal", "idle"}
      /\ Admitted(c)' => call'[c].res = r
      /\ \A d \in Callers \ {c} : call'[d] = call[d]
  BY <1>0, <1>1, <1>2, GotoOne, ReturnOne DEF Typed, Admitted
<1>4. Needed(c)' = {}
  BY <1>3, NeededAfter DEF Fresh, At
<1>5. CASE PutDone(l, r, "final") \/ PutFailed(l, r, "final")
  <2>1. \A m \in Relays, s \in Reservations : m # l \/ s # r => SlotsKept(m, s)
    BY <1>0, <1>5, PutKept DEF Typed
  <2>2. Admitted(c)' => Owns(c, l, r)' /\ Roomy(c, l, r)'
    BY <1>1, <1>3, <1>4 DEF Owns, Mine, Roomy, Admitted
  <2> QED BY <1>1, <1>3, <2>1, <2>2, RoomOwn
<1>6. CASE UNCHANGED slots
  BY <1>0, <1>3, <1>4, <1>6, RoomQuiet DEF SlotsKept
<1> QED BY <1>2, <1>5, <1>6

LEMMA PrepareRoom ==
  ASSUME Typed, RelayInv, RoomInv, NEW c \in Callers, Prepare(c)
  PROVE  RoomInv'
<1>0. call[c].at = "reserved" /\ UNCHANGED past
  BY DEF Prepare, At, billingVars
<1>1. PICK l \in Relays, r \in Reservations : l = Mine(c) /\ r = call[c].res
  BY <1>0, BusyCall DEF Typed
<1> DEFINE g == [LiveSlots(l) EXCEPT ![r] = Reservable(r)]
<1>2. \/ Expire(l) /\ (Goto(c, "release") \/ Return(c))
      \/ /\ ~Known(l, r) /\ slots' = [slots EXCEPT ![l] = g] /\ Goto(c, "forward")
  BY <1>1 DEF Prepare, Known
<1>3. CASE Expire(l) /\ (Goto(c, "release") \/ Return(c))
  <2>1. \A m \in Relays, s \in Reservations : SlotsKept(m, s)
    BY <1>0, <1>3, ExpireKept DEF Typed
  <2>2. /\ call'[c].at \in {"release", "idle"}
        /\ \A d \in Callers \ {c} : call'[d] = call[d]
    BY <1>0, <1>3, GotoOne, ReturnOne DEF Typed
  <2>3. Needed(c)' = {}
    BY <2>2, NeededAfter DEF Fresh, At
  <2> QED BY <2>1, <2>2, <2>3, RoomQuiet
<1>4. CASE ~Known(l, r) /\ slots' = [slots EXCEPT ![l] = g] /\ Goto(c, "forward")
  <2>1. /\ g[r] = Reservable(r)
        /\ \A s \in Reservations \ {r} : g[s] = IF past[s] THEN {} ELSE slots[l][s]
    BY DEF LiveSlots
  <2> HIDE DEF g
  <2>2. slots'[l] = g /\ \A m \in Relays \ {l} : slots'[m] = slots[m]
    BY <1>4 DEF Typed, RelayTyped, SlotTable
  <2>3. \A m \in Relays, s \in Reservations : m # l \/ s # r => SlotsKept(m, s)
    BY <1>0, <2>1, <2>2 DEF SlotsKept
  <2>4. /\ call'[c].at = "forward" /\ call'[c].res = r
        /\ \A d \in Callers \ {c} : call'[d] = call[d]
    BY <1>0, <1>1, <1>4, GotoOne DEF Typed
  <2>5. Needed(c)' \subseteq Slots
    BY <2>4, NeededAfter DEF At, Fresh
  <2>6. past'[r] \/ slots'[l][r] = Slots
    BY <1>0, <2>1, <2>2 DEF Reservable
  <2>7. Owns(c, l, r)' /\ Roomy(c, l, r)'
    BY <1>1, <2>4, <2>5, <2>6 DEF Owns, Admitted, Mine, Roomy
  <2>8. \A d \in Callers : ~Owns(d, l, r)
    BY <1>4 DEF RelayInv, OwnerOK
  <2> QED BY <2>3, <2>4, <2>7, <2>8, RoomOwn
<1> QED BY <1>2, <1>3, <1>4

LEMMA AttemptRoom ==
  ASSUME Typed, RelayInv, RoomInv, NEW c \in Callers, Attempt(c)
  PROVE  RoomInv'
<1>1. ASSUME UNCHANGED <<slots, past>>,
             \A d \in Callers \ {c} : call'[d] = call[d],
             \/ call'[c] = call[c] \/ Needed(c)' = {}
             \/ Admitted(c) /\ call'[c].res = call[c].res /\ Needed(c)' \subseteq Needed(c)
      PROVE  RoomInv'
  <2>1. \A m \in Relays, s \in Reservations : SlotsKept(m, s)
    BY <1>1 DEF SlotsKept
  <2> QED BY <1>1, <2>1, RoomQuiet
<1>2. ASSUME UNCHANGED <<slots, past>>, call[c].at # "idle",
             NEW p \in {"release", "sendfinal", "ackfinal"}, Goto(c, p) \/ Return(c)
      PROVE  RoomInv'
  <2>1. /\ call'[c].at \in {"release", "sendfinal", "ackfinal", "idle"}
        /\ \A d \in Callers \ {c} : call'[d] = call[d]
    BY <1>2, GotoOne, ReturnOne DEF Typed
  <2>2. Needed(c)' = {}
    BY <2>1, NeededAfter DEF Fresh, At
  <2> QED BY <1>1, <1>2, <2>1, <2>2
<1>3. CASE \E r \in Reservations : Reserve(c, r)
  <2>1. PICK r \in Reservations : Reserve(c, r)
    BY <1>3
  <2>2. UNCHANGED call \/ call' = [call EXCEPT ![c] = [Idle EXCEPT !.at = "reserved", !.res = r]]
    BY <2>1, Zenon DEF Reserve
  <2>3. [Idle EXCEPT !.at = "reserved", !.res = r].at = "reserved"
    BY DEF Idle
  <2>4. /\ \A d \in Callers \ {c} : call'[d] = call[d]
        /\ call'[c] = call[c] \/ call'[c].at = "reserved"
    BY <2>2, <2>3 DEF Typed, RelayTyped
  <2>5. call'[c] = call[c] \/ Needed(c)' = {}
    BY <2>4, NeededAfter DEF Fresh, At
  <2> QED BY <1>1, <2>1, <2>4, <2>5 DEF Reserve
<1>4. CASE Prepare(c)
  BY <1>4, PrepareRoom
<1>5. CASE Decline(c)
  BY <1>2, <1>5 DEF Decline, At, billingVars
<1>6. CASE Send(c)
  <2>1. At(c, "forward") /\ call[c].at # "idle" /\ Admitted(c) /\ UNCHANGED <<slots, past>>
    BY <1>6 DEF Send, At, Admitted, billingVars
  <2>2. CASE Goto(c, "release")
    BY <1>2, <2>1, <2>2
  <2>3. CASE ~call[c].sent /\ call' = [call EXCEPT ![c].at = "await", ![c].sent = TRUE]
    <3>1. call[c] \in Handler
      BY <2>1, BusyCall DEF Typed
    <3>2. /\ call'[c].at = "await" /\ call'[c].res = call[c].res
          /\ \A d \in Callers \ {c} : call'[d] = call[d]
      BY <2>3, <3>1 DEF Typed, RelayTyped, Handler
    <3>3. Needed(c)' = Slots /\ Needed(c) = Slots
      BY <2>1, <2>3, <3>2, NeededAt, NeededAfter DEF At, Fresh
    <3> QED BY <1>1, <2>1, <3>2, <3>3
  <2> QED BY <1>6, <2>2, <2>3 DEF Send
<1>7. CASE Headers(c)
  <2>1. At(c, "await") /\ InFlight(c) /\ Needed(c) = {"header", "terminal", "final"}
    BY <1>7, NeededAt DEF Headers, InFlight, At, Slots
  <2> QED BY <1>7, <2>1, RecordRoom DEF Headers
<1>8. CASE Checkpoint(c)
  <2>1. At(c, "body") /\ InFlight(c) /\ Needed(c) = {"terminal", "final"}
    BY <1>8, NeededAt DEF Checkpoint, InFlight, At
  <2> QED BY <1>8, <2>1, RecordRoom DEF Checkpoint
<1>9. CASE Unanswered(c)
  <2>1. /\ At(c, "await") /\ Admitted(c) /\ call[c].at # "idle"
        /\ Goto(c, "abandon") /\ UNCHANGED <<slots, past>>
    BY <1>9 DEF Unanswered, At, Admitted, billingVars
  <2>2. /\ call'[c].at = "abandon" /\ call'[c].res = call[c].res
        /\ \A d \in Callers \ {c} : call'[d] = call[d]
    BY <2>1, GotoOne DEF Typed
  <2>3. Needed(c) = Slots /\ Needed(c)' = {"terminal"}
    BY <2>1, <2>2, NeededAt, NeededAfter DEF At
  <2>4. Needed(c)' \subseteq Needed(c)
    BY <2>3 DEF Slots
  <2> QED BY <1>1, <2>1, <2>2, <2>4
<1>10. CASE Abandon(c)
  <2>1. InFlight(c)
    BY <1>10 DEF Abandon, InFlight, At
  <2> QED BY <1>10, <2>1, RecordRoom DEF Abandon
<1>11. CASE Rejected(c)
  <2>1. InFlight(c)
    BY <1>11 DEF Rejected, InFlight, At
  <2> QED BY <1>11, <2>1, RecordRoom DEF Rejected
<1>12. CASE Finish(c)
  <2>1. At(c, "body") /\ InFlight(c) /\ Needed(c) = {"terminal", "final"}
    BY <1>12, NeededAt DEF Finish, InFlight, At
  <2> QED BY <1>12, <2>1, RecordRoom DEF Finish
<1>13. CASE Commit(c)
  BY <1>13, CommitRoom
<1>14. CASE SendFinal(c)
  <2>1. /\ call[c].at # "idle" /\ (Goto(c, "ackfinal") \/ Return(c))
        /\ UNCHANGED <<slots, past>>
    BY <1>14 DEF SendFinal, At, AcceptExecution, billingVars
  <2> QED BY <1>2, <2>1
<1>15. CASE AckFinal(c)
  <2>1. call[c].at # "idle" /\ Return(c) /\ UNCHANGED <<slots, past>>
    BY <1>15 DEF AckFinal, At, billingVars
  <2> QED BY <1>2, <2>1
<1>16. CASE Release(c)
  <2>1. call[c].at # "idle" /\ Return(c) /\ UNCHANGED <<slots, past>>
    BY <1>16 DEF Release, At, ReleaseQuota, billingVars
  <2> QED BY <1>2, <2>1
<1> QED BY <1>3, <1>4, <1>5, <1>6, <1>7, <1>8, <1>9, <1>10, <1>11, <1>12, <1>13, <1>14, <1>15, <1>16
        DEF Attempt

LEMMA RoomStep == Typed /\ RelayInv /\ RoomInv /\ [Next]_vars => RoomInv'
<1> SUFFICES ASSUME Typed, RelayInv, RoomInv, [Next]_vars PROVE RoomInv'
  OBVIOUS
<1>1. ASSUME NEW c \in Callers, Attempt(c) PROVE RoomInv'
  BY <1>1, AttemptRoom
<1>2. CASE UNCHANGED <<call, slots, past>>
  BY <1>2, RoomQuiet DEF SlotsKept
<1>3. ASSUME NEW l \in Relays, Expire(l), UNCHANGED <<call, past>> PROVE RoomInv'
  BY <1>3, ExpireKept, RoomQuiet DEF Typed
<1>4. ASSUME NEW l \in Relays, NEW r \in Reservations, NEW k \in Categories, Deliver(l, r, k)
      PROVE  RoomInv'
  BY <1>3, <1>4 DEF Deliver, AcceptExecution
<1>5. ASSUME NEW l \in Relays, OtherPut(l) \/ OtherAcknowledged(l) PROVE RoomInv'
  BY <1>2, <1>3, <1>5 DEF OtherPut, OtherAcknowledged, billingVars
<1>6. ASSUME NEW l \in Relays, Crash(l) PROVE RoomInv'
  <2>1. \A c \in Callers : call'[c] = call[c] \/ call'[c].at = "idle"
    BY <1>6 DEF Crash, Idle
  <2>2. \A c \in Callers : call'[c] = call[c] \/ Needed(c)' = {}
    BY <2>1, NeededAfter DEF Fresh, At
  <2> QED BY <1>6, <2>2, RoomQuiet DEF Crash, billingVars, SlotsKept
<1>7. ASSUME NEW r \in Reservations, Billing(r) PROVE RoomInv'
  <2>1. UNCHANGED <<call, slots>> /\ \A s \in Reservations : past[s] => past'[s]
    BY <1>7 DEF Billing, SettleCheck, SettleCommit, Elapse, Sweep, relayVars, Typed, BillingTyped
  <2> QED BY <2>1, RoomQuiet DEF SlotsKept
<1>8. CASE UNCHANGED vars
  BY <1>2, <1>8 DEF vars, relayVars, billingVars
<1> QED BY <1>1, <1>4, <1>5, <1>6, <1>7, <1>8 DEF Next

\* Whatever else is written, an outbox stays within its capacity, and until its
\* deadline an admitted attempt finds there the slots for what it has to write.
THEOREM RoomForEvidence == Spec => []EvidenceHasRoom
<1>1. Init => RoomInv
  BY DEF Init, RoomInv, Owns, Admitted, Idle
<1>2. Typed /\ Capacity /\ RoomInv => EvidenceHasRoom
  <2> SUFFICES ASSUME Typed, Capacity, RoomInv, NEW c \in Callers, Needed(c) # {}
               PROVE  past[call[c].res] \/ Needed(c) \subseteq slots[Mine(c)][call[c].res]
    BY DEF EvidenceHasRoom, Capacity
  <2>1. Admitted(c) /\ call[c].at # "idle"
    BY NeededAt DEF Admitted, Fresh, At
  <2>2. Owns(c, Mine(c), call[c].res) /\ Mine(c) \in Relays /\ call[c].res \in Reservations
    BY <2>1, BusyCall DEF Typed, Owns
  <2> QED BY <2>2 DEF RoomInv, Roomy
<1> QED BY <1>1, <1>2, RoomStep, TypedAlways, RelayAlways, CapacityAlways, PTL DEF Spec
=============================================================================
