---------------------------- MODULE WalletProofs ----------------------------
(***************************************************************************)
(* Proofs about Wallet for every set of users, number of reservations and *)
(* operations, opening balance and amount: type correctness; a reservation *)
(* is settled once, its ledger rows agree with the row's status and every  *)
(* reply with the settled cost; the operations implement Reservation.tla.  *)
(***************************************************************************)
EXTENDS Wallet, SumLemmas, SequenceTheorems, TLAPS

\* A receivable is never settled beyond what it is for.
ReceivablesSound ==
  \A i \in 1..Len(receivables) : receivables[i].settled <= receivables[i].overdue

Typed == TypeOK /\ ReceivablesSound

LEMMA Owners ==
  /\ NRes \in Nat /\ NOps \in Nat
  /\ \A r \in ResIds : ResUser[r] \in Users
  /\ \A o \in OpIds : OpUser[o] \in Users
BY CountsAssumption, OwnersAssumption

\* The retries that find a closed row, and what they are told.
Answers(r) ==
  {Dismissed, IF res[r].status = "committed" THEN Told(CommittedAmount(res[r])) ELSE Told(0)}
Replayed(r) == Terminal(res[r]) /\ \E reply \in Answers(r) : Answer(r, reply)

LEMMA Money ==
  /\ \A a \in Amounts : a \in Nat /\ a > 0
  /\ \A p \in Profiles : p.mode \in Modes /\ p.intent \in BOOLEAN
BY MoneyAssumption DEF Modes

LEMMA ReceivableType ==
  ASSUME Typed
  PROVE  /\ Len(receivables) \in Nat
         /\ \A i \in 1..Len(receivables) :
              /\ receivables[i] \in Receivable
              /\ receivables[i].overdue - receivables[i].settled \in Nat
<1>1. receivables \in Seq(Receivable)
  BY DEF Typed, TypeOK
<1>2. \A i \in 1..Len(receivables) :
        receivables[i] \in Receivable
  BY <1>1
<1>3. \A i \in 1..Len(receivables) :
        receivables[i].overdue \in Nat /\ receivables[i].settled \in Nat
  BY <1>2 DEF Receivable
<1>4. \A i \in 1..Len(receivables) : receivables[i].settled <= receivables[i].overdue
  BY DEF Typed, ReceivablesSound
<1>5. \A i \in 1..Len(receivables) : receivables[i].overdue - receivables[i].settled \in Nat
  BY <1>3, <1>4
<1>6. Len(receivables) \in Nat
  BY <1>1
<1> QED
  BY <1>2, <1>5, <1>6

LEMMA OutstandingType ==
  ASSUME Typed, NEW u \in Users
  PROVE  \A i \in 1..Len(receivables) : Outstanding(u)[i] \in Nat
BY ReceivableType DEF Outstanding

LEMMA SettlementType ==
  ASSUME Typed, NEW u \in Users, NEW amount \in Nat, NEW i \in 1..Len(receivables)
  PROVE  /\ Settlement(u, amount, i) \in Nat
         /\ Settlement(u, amount, i) <= Outstanding(u)[i]
<1> DEFINE n == Len(receivables)
<1>1. n \in Nat
  BY ReceivableType
<1>2. \A j \in 1..n : Outstanding(u)[j] \in Nat
  BY OutstandingType
<1>3. \A j \in 1..n : Outstanding(u)[j] \in Int
  BY <1>2
<1>4. RunningTotal(Outstanding(u), n) \in [0..n -> Int]
  BY <1>1, <1>3, RunningTotalIs
<1>5. RunningTotal(Outstanding(u), n)[i-1] \in Int
  BY <1>1, <1>4
<1> QED
  BY <1>2, <1>5 DEF Settlement, MinOf, Positive

LEMMA InitTyped == Init => Typed
<1> SUFFICES ASSUME Init PROVE Typed
  OBVIOUS
<1>1. balance \in [Users -> Int]
  BY MoneyAssumption DEF Init
<1>2. TypeOK
  BY <1>1 DEF Init, TypeOK, NoRow, Row, Statuses, Modes, NoReset, NoLedger
<1>3. ReceivablesSound
  BY DEF Init, ReceivablesSound
<1> QED BY <1>2, <1>3 DEF Typed

LEMMA ReserveTyped ==
  ASSUME Typed, NEW r \in ResIds, Reserve(r)
  PROVE  Typed'
<1>1. PICK cost \in Amounts, sub \in Amounts \cup {0}, p \in Profiles :
        ReserveQuota(r, cost, sub, p.mode, p.intent)
  BY DEF Reserve
<1>2. /\ cost - sub \in Nat /\ cost \in Nat
      /\ p.mode \in Modes /\ p.intent \in BOOLEAN
      /\ ResUser[r] \in Users
  BY <1>1, Money, Owners DEF ReserveQuota, SplitOK
<1>3. UNCHANGED receivables
  BY <1>1 DEF ReserveQuota
<1>4. res' \in [ResIds -> Row]
  BY <1>1, <1>2 DEF ReserveQuota, Typed, TypeOK, Row, Statuses
<1>5. balance' \in [Users -> Int] /\ frozen' \in [Users -> Int]
  BY <1>1, <1>2 DEF ReserveQuota, Typed, TypeOK
<1>6. TypeOK'
  BY <1>1, <1>4, <1>5 DEF ReserveQuota, Typed, TypeOK, ledgerVars
<1>7. ReceivablesSound'
  BY <1>3 DEF Typed, ReceivablesSound
<1> QED BY <1>6, <1>7 DEF Typed

\* What a won commit does to money, with its arguments named.
LEMMA CommitFacts ==
  ASSUME Typed, NEW r \in ResIds,
         NEW cost \in Amounts \cup {0}, NEW sub \in Amounts \cup {0},
         CommitWon(r, cost, sub)
  PROVE  LET actual == SettledCost(res[r], cost)
         IN  /\ ResUser[r] \in Users
             /\ actual \in Nat /\ sub \in Nat /\ actual - sub \in Nat
             /\ res[r] \in Row /\ res[r].status = "reserved"
             /\ balance[ResUser[r]] \in Int /\ frozen[ResUser[r]] \in Int
             /\ BalanceAfterCommit(balance[ResUser[r]], res[r].balanceAmount, actual - sub) \in Int
<1>1. cost \in Nat /\ sub \in Nat
  BY Money
<1>2. SettledCost(res[r], cost) \in Nat
  BY <1>1 DEF SettledCost
<1>3. sub <= SettledCost(res[r], cost) /\ res[r].status = "reserved"
  BY DEF CommitWon, SplitOK
<1>4. ResUser[r] \in Users /\ res[r] \in Row
  BY Owners DEF Typed, TypeOK
<1>5. balance[ResUser[r]] \in Int /\ frozen[ResUser[r]] \in Int
  BY <1>4 DEF Typed, TypeOK
<1> QED
  BY <1>1, <1>2, <1>3, <1>4, <1>5 DEF Row, BalanceAfterCommit

\* Recording a receivable appends at most one sound row.
LEMMA RecordReceivableTyped ==
  ASSUME Typed, NEW r \in ResIds, NEW u \in Users, NEW old \in Int, NEW new \in Int,
         RecordReceivable(r, u, old, new)
  PROVE  /\ receivables' \in Seq(Receivable)
         /\ ReceivablesSound'
<1> DEFINE row == [id |-> r, user |-> u, overdue |-> Overdue(old, new), settled |-> 0]
<1>1. receivables \in Seq(Receivable) /\ ReceivablesSound
  BY DEF Typed, TypeOK
<1>2. CASE UNCHANGED receivables
  BY <1>1, <1>2 DEF ReceivablesSound
<1>3. CASE Overdue(old, new) > 0 /\ receivables' = Append(receivables, row)
  <2>1. Overdue(old, new) \in Nat
    BY <1>3 DEF Overdue, Positive
  <2>2. row \in Receivable
    BY <2>1 DEF Receivable
  <2>3. receivables' \in Seq(Receivable)
    BY <1>1, <1>3, <2>2
  <2>4. /\ Len(receivables') = Len(receivables) + 1
        /\ Len(receivables) \in Nat
        /\ \A i \in 1..Len(receivables) : receivables'[i] = receivables[i]
        /\ receivables'[Len(receivables) + 1] = row
    BY <1>1, <1>3
  <2>5. row.settled <= row.overdue
    BY <2>1
  <2>6. ReceivablesSound'
    BY <1>1, <2>4, <2>5 DEF ReceivablesSound
  <2> QED BY <2>3, <2>6
<1> QED BY <1>2, <1>3 DEF RecordReceivable

LEMMA CommitTyped ==
  ASSUME Typed, NEW r \in ResIds, Commit(r)
  PROVE  Typed'
<1>1. PICK cost \in Amounts \cup {0}, sub \in Amounts \cup {0} : CommitWon(r, cost, sub)
  BY DEF Commit
<1> DEFINE u == ResUser[r]
           actual == SettledCost(res[r], cost)
           new == BalanceAfterCommit(balance[u], res[r].balanceAmount, actual - sub)
<1>2. /\ u \in Users /\ actual \in Nat /\ sub \in Nat /\ actual - sub \in Nat
      /\ res[r] \in Row /\ balance[u] \in Int /\ frozen[u] \in Int /\ new \in Int
  BY <1>1, CommitFacts
<1>3. receivables' \in Seq(Receivable) /\ ReceivablesSound'
  <2>1. RecordReceivable(r, u, balance[u], new)
    BY <1>1 DEF CommitWon
  <2> HIDE DEF u, new
  <2> QED BY <1>2, <2>1, RecordReceivableTyped
<1>4. balance' \in [Users -> Int]
  BY <1>1, <1>2 DEF CommitWon, Typed, TypeOK
<1>5. frozen' \in [Users -> Int]
  <2>1. FrozenAfterCommit(frozen[u], res[r].balanceAmount, actual - sub) \in Int
    BY <1>2 DEF FrozenAfterCommit, Row
  <2> QED BY <1>1, <2>1 DEF CommitWon, Typed, TypeOK
<1>6. usedAmount' \in [Users -> Nat] /\ requestCount' \in [Users -> Nat]
  <2>1. usedAmount[u] + actual \in Nat /\ requestCount[u] + 1 \in Nat
    <3>1. usedAmount[u] \in Nat /\ requestCount[u] \in Nat
      BY <1>2 DEF Typed, TypeOK
    <3> QED BY <1>2, <3>1
  <2>2. /\ usedAmount' = [usedAmount EXCEPT ![u] = usedAmount[u] + actual]
        /\ requestCount' = [requestCount EXCEPT ![u] = requestCount[u] + 1]
    BY <1>1 DEF CommitWon, UsedAfterCommit
  <2> HIDE DEF u, actual
  <2> QED BY <2>1, <2>2 DEF Typed, TypeOK
<1>7. res' \in [ResIds -> Row]
  BY <1>1, <1>2 DEF CommitWon, Typed, TypeOK, Row, Statuses
<1>8. consumed' \in [ResIds -> [sub : Nat, bal : Nat]]
  BY <1>1, <1>2 DEF CommitWon, Typed, TypeOK
<1>9. latest' \in [Users -> [found : BOOLEAN, after : Int]]
  BY <1>1, <1>2 DEF CommitWon, Typed, TypeOK, LedgerRow
<1>10. replies' \in [ResIds -> SUBSET Reply]
  <2>1. replies' = [replies EXCEPT ![r] = @ \cup {Told(actual)}]
    BY <1>1 DEF CommitWon
  <2>2. Told(actual) \in Reply
    BY <1>2 DEF Told, Reply
  <2> QED BY <2>1, <2>2 DEF Typed, TypeOK
<1>11. TypeOK'
  BY <1>1, <1>3, <1>4, <1>5, <1>6, <1>7, <1>8, <1>9, <1>10
  DEF CommitWon, Typed, TypeOK
<1> QED BY <1>3, <1>11 DEF Typed

LEMMA ReplayedTyped ==
  ASSUME Typed, NEW r \in ResIds, Replayed(r)
  PROVE  Typed'
<1>1. PICK reply \in Answers(r) : Answer(r, reply)
  BY DEF Replayed
<1>2. CommittedAmount(res[r]) \in Nat
  BY DEF CommittedAmount, Typed, TypeOK, Row
<1>3. reply \in Reply
  BY <1>2 DEF Answers, Dismissed, Told, Reply
<1>4. replies' \in [ResIds -> SUBSET Reply]
  BY <1>1, <1>3 DEF Answer, Typed, TypeOK
<1>5. TypeOK'
  BY <1>1, <1>4 DEF Answer, Typed, TypeOK, walletVars, ledgerVars
<1>6. ReceivablesSound'
  BY <1>1 DEF Answer, Typed, ReceivablesSound
<1> QED BY <1>5, <1>6 DEF Typed

LEMMA ReleaseTyped ==
  ASSUME Typed, NEW r \in ResIds, NEW final \in {"released", "expired"},
         NEW answers \in SUBSET {Dismissed}, ReleaseReservation(r, final, answers)
  PROVE  Typed'
<1> DEFINE u == ResUser[r]
           held == res[r].balanceAmount
<1>1. u \in Users /\ res[r] \in Row /\ held \in Nat
  BY Owners DEF Typed, TypeOK, Row
<1>2. balance' \in [Users -> Int] /\ frozen' \in [Users -> Int]
  <2>1. balance[u] + held \in Int /\ frozen[u] - held \in Int
    BY <1>1 DEF Typed, TypeOK
  <2>2. /\ balance' = [balance EXCEPT ![u] = balance[u] + held]
        /\ frozen' = [frozen EXCEPT ![u] = frozen[u] - held]
    BY DEF ReleaseReservation
  <2> HIDE DEF u, held
  <2> QED BY <2>1, <2>2 DEF Typed, TypeOK
<1>3. refunded' \in [ResIds -> Nat]
  BY <1>1 DEF ReleaseReservation, Typed, TypeOK
<1>4. res' \in [ResIds -> Row]
  BY <1>1 DEF ReleaseReservation, Typed, TypeOK, Row, Statuses
<1>5. latest' \in [Users -> [found : BOOLEAN, after : Int]]
  BY <1>1 DEF ReleaseReservation, Typed, TypeOK, LedgerRow
<1>6. replies' \in [ResIds -> SUBSET Reply]
  <2>1. replies' = [replies EXCEPT ![r] = @ \cup answers]
    BY DEF ReleaseReservation
  <2>2. answers \subseteq Reply
    BY DEF Dismissed, Reply
  <2> QED BY <2>1, <2>2 DEF Typed, TypeOK
<1>7. TypeOK'
  BY <1>2, <1>3, <1>4, <1>5, <1>6 DEF ReleaseReservation, Typed, TypeOK
<1>8. ReceivablesSound'
  BY DEF ReleaseReservation, Typed, ReceivablesSound
<1> QED BY <1>7, <1>8 DEF Typed

\* What the settlement of the oldest receivables makes of each row.
LEMMA SettleOldestRows ==
  ASSUME Typed, NEW u \in Users, NEW amount \in Nat, SettleOldest(u, amount)
  PROVE  /\ receivables' \in Seq(Receivable)
         /\ Len(receivables') = Len(receivables)
         /\ \A i \in 1..Len(receivables) :
              /\ receivables'[i].id = receivables[i].id
              /\ receivables'[i].user = receivables[i].user
              /\ receivables'[i].overdue = receivables[i].overdue
              /\ receivables'[i].settled
                   = receivables[i].settled + Settlement(u, amount, i)
<1> DEFINE n == Len(receivables)
           paid == [i \in 1..n |->
                      [receivables[i] EXCEPT !.settled = @ + Settlement(u, amount, i)]]
<1>1. n \in Nat /\ \A i \in 1..n : receivables[i] \in Receivable
  BY ReceivableType
<1>2. \A i \in 1..n : Settlement(u, amount, i) \in Nat
  BY SettlementType
<1>3. \A i \in 1..n : /\ paid[i] \in Receivable
                      /\ paid[i].id = receivables[i].id
                      /\ paid[i].user = receivables[i].user
                      /\ paid[i].overdue = receivables[i].overdue
                      /\ paid[i].settled = receivables[i].settled + Settlement(u, amount, i)
  BY <1>1, <1>2 DEF Receivable
<1>4. receivables' = paid
  BY DEF SettleOldest
<1>5. paid \in [1..n -> Receivable]
  BY <1>3
<1> HIDE DEF paid
<1>6. paid \in Seq(Receivable) /\ Len(paid) = n
  BY <1>1, <1>5, LenProperties, SeqDef
<1> QED BY <1>3, <1>4, <1>6

LEMMA TopUpTyped ==
  ASSUME Typed, NEW o \in OpIds, NEW amount \in Nat, TopUpQuota(o, amount)
  PROVE  Typed'
<1> DEFINE u == OpUser[o]
<1>1. u \in Users /\ balance[u] \in Int
  BY Owners DEF Typed, TypeOK
<1>2. SettleOldest(u, amount)
  BY DEF TopUpQuota
<1>3. receivables' \in Seq(Receivable) /\ Len(receivables') = Len(receivables)
  BY <1>1, <1>2, SettleOldestRows
<1>4. ReceivablesSound'
  <2> SUFFICES ASSUME NEW i \in 1..Len(receivables)
               PROVE  receivables'[i].settled <= receivables'[i].overdue
    BY <1>3 DEF ReceivablesSound
  <2>1. /\ receivables'[i].overdue = receivables[i].overdue
        /\ receivables'[i].settled = receivables[i].settled + Settlement(u, amount, i)
    BY <1>1, <1>2, SettleOldestRows
  <2>2. /\ receivables[i].overdue \in Nat /\ receivables[i].settled \in Nat
        /\ receivables[i].settled <= receivables[i].overdue
    <3>1. receivables[i] \in Receivable
      BY ReceivableType
    <3> QED BY <3>1 DEF Receivable, Typed, ReceivablesSound
  <2>3. Settlement(u, amount, i) \in Nat /\ Settlement(u, amount, i) <= Outstanding(u)[i]
    BY <1>1, SettlementType
  <2>4. Outstanding(u)[i] <= receivables[i].overdue - receivables[i].settled
    BY <2>2 DEF Outstanding
  <2>5. Outstanding(u)[i] \in Nat
    BY <1>1, OutstandingType
  <2> QED BY <2>1, <2>2, <2>3, <2>4, <2>5
<1>5. balance' \in [Users -> Int] /\ topups' \in [OpIds -> Nat]
  BY <1>1 DEF TopUpQuota, Typed, TypeOK
<1>6. latest' \in [Users -> [found : BOOLEAN, after : Int]]
  BY <1>1 DEF TopUpQuota, Typed, TypeOK, LedgerRow
<1>7. TypeOK'
  BY <1>3, <1>5, <1>6 DEF TopUpQuota, Typed, TypeOK
<1> QED BY <1>4, <1>7 DEF Typed

LEMMA PurchaseTyped ==
  ASSUME Typed, NEW o \in OpIds, NEW price \in Nat, PurchaseSubscription(o, price)
  PROVE  Typed'
<1>1. OpUser[o] \in Users /\ balance[OpUser[o]] \in Int
  BY Owners DEF Typed, TypeOK
<1>2. /\ balance' \in [Users -> Int] /\ purchases' \in [OpIds -> Nat]
      /\ latest' \in [Users -> [found : BOOLEAN, after : Int]]
  BY <1>1 DEF PurchaseSubscription, Typed, TypeOK, LedgerRow
<1>3. TypeOK'
  BY <1>2 DEF PurchaseSubscription, Typed, TypeOK
<1>4. ReceivablesSound'
  BY DEF PurchaseSubscription, Typed, ReceivablesSound
<1> QED BY <1>3, <1>4 DEF Typed

LEMMA ResetTyped ==
  ASSUME Typed, NEW o \in OpIds, NEW target \in Nat, NEW expected \in Int,
         ResetBalance(o, target, expected)
  PROVE  Typed'
<1>1. OpUser[o] \in Users
  BY Owners
<1>2. /\ balance' \in [Users -> Int]
      /\ resets' \in [OpIds -> [claimed : BOOLEAN, amount : Int]]
      /\ latest' \in [Users -> [found : BOOLEAN, after : Int]]
  BY <1>1 DEF ResetBalance, Typed, TypeOK, LedgerRow
<1>3. TypeOK'
  BY <1>2 DEF ResetBalance, Typed, TypeOK
<1>4. ReceivablesSound'
  BY DEF ResetBalance, Typed, ReceivablesSound
<1> QED BY <1>3, <1>4 DEF Typed
-----------------------------------------------------------------------------
\* The steps of Next with their arguments: what the proofs below go through.
LEMMA StepCases ==
  ASSUME Typed, [Next]_vars
  PROVE  \/ \E r \in ResIds : Reserve(r) \/ Commit(r) \/ Replayed(r)
         \/ \E r \in ResIds, final \in {"released", "expired"}, answers \in SUBSET {Dismissed} :
              ReleaseReservation(r, final, answers)
         \/ \E o \in OpIds, amount \in Nat :
              amount > 0 /\ (TopUpQuota(o, amount) \/ PurchaseSubscription(o, amount))
         \/ \E o \in OpIds, target \in Nat, expected \in Int : ResetBalance(o, target, expected)
         \/ UNCHANGED vars
<1>1. ASSUME NEW r \in ResIds, CommitReplayed(r) \/ DismissCommit(r)
      PROVE  \/ Replayed(r)
             \/ \E answers \in SUBSET {Dismissed} : ReleaseReservation(r, "released", answers)
  <2>1. CASE ReleaseReservation(r, "released", {Dismissed})
    BY <2>1
  <2>2. CASE Terminal(res[r]) /\ Answer(r, Dismissed)
    BY <2>2 DEF Replayed, Answers
  <2>3. CASE CommitReplayed(r)
    BY <2>3 DEF CommitReplayed, Replayed, Answers, Terminal
  <2> QED BY <1>1, <2>1, <2>2, <2>3 DEF DismissCommit
<1>2. CASE \E o \in OpIds : TopUp(o) \/ Purchase(o)
  BY <1>2, Money DEF TopUp, Purchase
<1>3. ASSUME NEW o \in OpIds, Reset(o)
      PROVE  \E target \in Nat, expected \in Int : ResetBalance(o, target, expected)
  <2>1. balance[OpUser[o]] \in Int
    BY Owners DEF Typed, TypeOK
  <2>2. Read(OpUser[o]) \subseteq Int
    BY <2>1, Money DEF Read
  <2> QED BY <1>3, <2>2, Money DEF Reset
<1>4. ASSUME NEW r \in ResIds, Release(r) \/ Expire(r)
      PROVE  \E final \in {"released", "expired"}, answers \in SUBSET {Dismissed} :
               ReleaseReservation(r, final, answers)
  BY <1>4 DEF Release, Expire
<1> QED BY <1>1, <1>2, <1>3, <1>4 DEF Next

LEMMA StepTyped ==
  ASSUME Typed, [Next]_vars
  PROVE  Typed'
<1>1. CASE \E r \in ResIds : Reserve(r) \/ Commit(r) \/ Replayed(r)
  BY <1>1, ReserveTyped, CommitTyped, ReplayedTyped
<1>2. CASE \E r \in ResIds, final \in {"released", "expired"}, answers \in SUBSET {Dismissed} :
             ReleaseReservation(r, final, answers)
  BY <1>2, ReleaseTyped
<1>3. CASE \E o \in OpIds, amount \in Nat :
             amount > 0 /\ (TopUpQuota(o, amount) \/ PurchaseSubscription(o, amount))
  BY <1>3, TopUpTyped, PurchaseTyped
<1>4. CASE \E o \in OpIds, target \in Nat, expected \in Int : ResetBalance(o, target, expected)
  BY <1>4, ResetTyped
<1>5. CASE UNCHANGED vars
  BY <1>5 DEF vars, Typed, TypeOK, ReceivablesSound
<1> QED BY <1>1, <1>2, <1>3, <1>4, <1>5, StepCases

LEMMA AlwaysTyped == Spec => []Typed
<1>1. Init => Typed
  BY InitTyped
<1>2. Typed /\ [Next]_vars => Typed'
  BY StepTyped
<1> QED BY <1>1, <1>2, PTL DEF Spec

\* Every state the operations reach is well typed: counters and ledger amounts
\* never go below zero, and a receivable is never over-settled.
THEOREM TypeCorrect == Spec => []TypeOK
<1>1. Typed => TypeOK
  BY DEF Typed
<1> QED BY <1>1, AlwaysTyped, PTL

-----------------------------------------------------------------------------
(* A reservation is settled once. *)

\* SettledOnce and RepliesAgree for one reservation, with what makes them
\* inductive: nothing is told while the row is open, a closed row never gets
\* an actual cost, and a committed row without an execution intent has a
\* positive one (the floor of SettledCost).
RowSettled(r) ==
  /\ res[r].status = "committed" =>
       /\ Charge(r) = res[r].actualCost
       /\ refunded[r] = 0
       /\ res[r].actualCost > 0 \/ res[r].intent
  /\ res[r].status # "committed" => Charge(r) = 0 /\ res[r].actualCost = 0
  /\ replies[r] \subseteq {Dismissed, Told(res[r].actualCost)}
  /\ res[r].status \in {"released", "expired"} => refunded[r] = res[r].balanceAmount
  /\ res[r].status \in {"none", "reserved"} => refunded[r] = 0 /\ replies[r] = {}

Settled == \A r \in ResIds : RowSettled(r)

\* A step that leaves a reservation's rows alone leaves it settled.
LEMMA UntouchedRow ==
  ASSUME NEW r, RowSettled(r),
         res'[r] = res[r], consumed'[r] = consumed[r],
         refunded'[r] = refunded[r], replies'[r] = replies[r]
  PROVE  RowSettled(r)'
BY DEF RowSettled, Charge

LEMMA InitSettled == Init => Settled
BY DEF Init, Settled, RowSettled, Charge, NoRow

LEMMA ReserveSettled ==
  ASSUME Typed, Settled, NEW r \in ResIds, Reserve(r)
  PROVE  Settled'
<1>1. PICK cost \in Amounts, sub \in Amounts \cup {0}, p \in Profiles :
        ReserveQuota(r, cost, sub, p.mode, p.intent)
  BY DEF Reserve
<1>2. SUFFICES ASSUME NEW q \in ResIds PROVE RowSettled(q)'
  BY DEF Settled
<1>3. RowSettled(q)
  BY DEF Settled
<1>4. /\ UNCHANGED <<consumed, refunded, replies>>
      /\ res[r].status = "none"
      /\ res' = [res EXCEPT ![r] =
                   [status |-> "reserved", mode |-> p.mode, intent |-> p.intent,
                    amount |-> cost, balanceAmount |-> cost - sub, actualCost |-> 0]]
  BY <1>1 DEF ReserveQuota, Vacant, ledgerVars
<1>5. CASE q = r
  <2>1. res'[r].status = "reserved"
    BY <1>4 DEF Typed, TypeOK
  <2> QED BY <1>3, <1>4, <1>5, <2>1 DEF RowSettled, Charge
<1>6. CASE q # r
  <2>1. res'[q] = res[q]
    BY <1>4, <1>6 DEF Typed, TypeOK
  <2> QED BY <1>3, <1>4, <2>1, UntouchedRow
<1> QED BY <1>5, <1>6

LEMMA CommitSettled ==
  ASSUME Typed, Settled, NEW r \in ResIds, Commit(r)
  PROVE  Settled'
<1>1. PICK cost \in Amounts \cup {0}, sub \in Amounts \cup {0} : CommitWon(r, cost, sub)
  BY DEF Commit
<1> DEFINE actual == SettledCost(res[r], cost)
<1>2. /\ actual \in Nat /\ sub \in Nat
      /\ res[r] \in Row /\ res[r].status = "reserved"
  BY <1>1, CommitFacts
<1>3. actual > 0 \/ res[r].intent
  BY Money DEF SettledCost, Row
<1>4. /\ res' = [res EXCEPT ![r].status = "committed", ![r].actualCost = actual]
      /\ consumed' = [consumed EXCEPT ![r] = [sub |-> sub, bal |-> actual - sub]]
      /\ replies' = [replies EXCEPT ![r] = @ \cup {Told(actual)}]
      /\ UNCHANGED refunded
  BY <1>1 DEF CommitWon
<1> HIDE DEF actual
<1>5. SUFFICES ASSUME NEW q \in ResIds PROVE RowSettled(q)'
  BY DEF Settled
<1>6. RowSettled(q)
  BY DEF Settled
<1>7. CASE q = r
  <2>1. /\ res'[r].status = "committed"
        /\ res'[r].actualCost = actual
        /\ res'[r].intent = res[r].intent
    BY <1>2, <1>4 DEF Typed, TypeOK, Row
  <2>2. Charge(r)' = actual
    BY <1>2, <1>4 DEF Charge, Typed, TypeOK
  <2>3. replies'[r] = {Told(actual)}
    BY <1>2, <1>4, <1>6, <1>7 DEF RowSettled, Typed, TypeOK
  <2>4. refunded'[r] = 0
    BY <1>2, <1>4, <1>6, <1>7 DEF RowSettled
  <2> QED BY <1>3, <1>7, <2>1, <2>2, <2>3, <2>4 DEF RowSettled
<1>8. CASE q # r
  <2>1. /\ res'[q] = res[q] /\ consumed'[q] = consumed[q]
        /\ replies'[q] = replies[q] /\ refunded'[q] = refunded[q]
    BY <1>4, <1>8 DEF Typed, TypeOK
  <2> QED BY <1>6, <2>1, UntouchedRow
<1> QED BY <1>7, <1>8

LEMMA ReplayedSettled ==
  ASSUME Typed, Settled, NEW r \in ResIds, Replayed(r)
  PROVE  Settled'
<1>1. PICK reply \in Answers(r) : Answer(r, reply)
  BY DEF Replayed
<1>2. /\ Terminal(res[r])
      /\ replies' = [replies EXCEPT ![r] = @ \cup {reply}]
      /\ UNCHANGED <<res, consumed, refunded>>
  BY <1>1 DEF Replayed, Answer, ledgerVars
<1>3. SUFFICES ASSUME NEW q \in ResIds PROVE RowSettled(q)'
  BY DEF Settled
<1>4. RowSettled(q)
  BY DEF Settled
<1>5. CASE q = r
  <2>1. res[r].status = "committed" => CommittedAmount(res[r]) = res[r].actualCost
    BY <1>4, <1>5 DEF RowSettled, CommittedAmount
  <2>2. res[r].status # "committed" => res[r].actualCost = 0
    BY <1>4, <1>5 DEF RowSettled
  <2>3. reply \in {Dismissed, Told(res[r].actualCost)}
    BY <1>1, <2>1, <2>2 DEF Answers
  <2>4. replies'[r] \subseteq {Dismissed, Told(res[r].actualCost)}
    BY <1>2, <1>4, <1>5, <2>3 DEF RowSettled, Typed, TypeOK
  <2> QED BY <1>2, <1>4, <1>5, <2>4 DEF RowSettled, Charge, Terminal
<1>6. CASE q # r
  <2>1. replies'[q] = replies[q]
    BY <1>2, <1>6 DEF Typed, TypeOK
  <2> QED BY <1>2, <1>4, <2>1, UntouchedRow
<1> QED BY <1>5, <1>6

LEMMA ReleaseSettled ==
  ASSUME Typed, Settled, NEW r \in ResIds, NEW final \in {"released", "expired"},
         NEW answers \in SUBSET {Dismissed}, ReleaseReservation(r, final, answers)
  PROVE  Settled'
<1>1. /\ res[r].status = "reserved"
      /\ res' = [res EXCEPT ![r].status = final]
      /\ refunded' = [refunded EXCEPT ![r] = res[r].balanceAmount]
      /\ replies' = [replies EXCEPT ![r] = @ \cup answers]
      /\ UNCHANGED consumed
  BY DEF ReleaseReservation, Releasable
<1>2. SUFFICES ASSUME NEW q \in ResIds PROVE RowSettled(q)'
  BY DEF Settled
<1>3. RowSettled(q)
  BY DEF Settled
<1>4. CASE q = r
  <2>1. res'[r].status = final /\ res'[r].balanceAmount = res[r].balanceAmount
    BY <1>1 DEF Typed, TypeOK, Row
  <2>2. refunded'[r] = res[r].balanceAmount
    BY <1>1 DEF Typed, TypeOK
  <2>3. replies'[r] \subseteq {Dismissed, Told(res[r].actualCost)}
    BY <1>1, <1>3, <1>4 DEF RowSettled, Typed, TypeOK
  <2>4. res'[r].actualCost = res[r].actualCost
    BY <1>1 DEF Typed, TypeOK, Row
  <2> QED BY <1>1, <1>3, <1>4, <2>1, <2>2, <2>3, <2>4 DEF RowSettled, Charge
<1>5. CASE q # r
  <2>1. res'[q] = res[q] /\ refunded'[q] = refunded[q] /\ replies'[q] = replies[q]
    BY <1>1, <1>5 DEF Typed, TypeOK
  <2> QED BY <1>1, <1>3, <2>1, UntouchedRow
<1> QED BY <1>4, <1>5

LEMMA StepSettled ==
  ASSUME Typed, Settled, [Next]_vars
  PROVE  Settled'
<1>1. CASE \E r \in ResIds : Reserve(r) \/ Commit(r) \/ Replayed(r)
  BY <1>1, ReserveSettled, CommitSettled, ReplayedSettled
<1>2. CASE \E r \in ResIds, final \in {"released", "expired"}, answers \in SUBSET {Dismissed} :
             ReleaseReservation(r, final, answers)
  BY <1>2, ReleaseSettled
<1>3. CASE UNCHANGED <<res, consumed, refunded, replies>>
  BY <1>3 DEF Settled, RowSettled, Charge
<1>4. ASSUME NEW o \in OpIds, NEW amount \in Nat,
             TopUpQuota(o, amount) \/ PurchaseSubscription(o, amount)
      PROVE  UNCHANGED <<res, consumed, refunded, replies>>
  BY <1>4 DEF TopUpQuota, PurchaseSubscription
<1>5. ASSUME NEW o \in OpIds, NEW target, NEW expected, ResetBalance(o, target, expected)
      PROVE  UNCHANGED <<res, consumed, refunded, replies>>
  BY <1>5 DEF ResetBalance
<1>6. CASE UNCHANGED vars
  BY <1>6, <1>3 DEF vars
<1> QED BY <1>1, <1>2, <1>3, <1>4, <1>5, <1>6, StepCases

LEMMA AlwaysSettled == Spec => []Settled
<1>1. Init => Settled
  BY InitSettled
<1>2. Typed /\ Settled /\ [Next]_vars => Settled'
  BY StepSettled
<1> QED BY <1>1, <1>2, AlwaysTyped, PTL DEF Spec

\* A reservation is settled exactly once, whatever retries, duplicated commits,
\* releases and expiry jobs race for it: the consume and refund rows of the
\* ledger are the ones its status tells.
THEOREM SettlementIsOnce == Spec => []SettledOnce
<1>1. Settled => SettledOnce
  <2> SUFFICES ASSUME Settled, NEW r \in ResIds
               PROVE  /\ res[r].status = "committed" =>
                           Charge(r) = res[r].actualCost /\ refunded[r] = 0
                      /\ res[r].status \in {"released", "expired"} =>
                           Charge(r) = 0 /\ refunded[r] = res[r].balanceAmount
                      /\ res[r].status \in {"none", "reserved"} =>
                           Charge(r) = 0 /\ refunded[r] = 0
    BY DEF SettledOnce
  <2> QED BY DEF Settled, RowSettled
<1> QED BY <1>1, AlwaysSettled, PTL

\* A CommitQuota that is told success found a closed reservation, and hears its
\* settled cost if it asked for the settlement, however often it is retried; 0
\* is what a request for the release hears, of a committed reservation too.
THEOREM EveryReplyAgrees == Spec => []RepliesAgree
<1>1. Typed /\ Settled => RepliesAgree
  <2> SUFFICES ASSUME Typed, Settled, NEW r \in ResIds, NEW reply \in replies[r]
               PROVE  /\ Terminal(res[r])
                      /\ reply.amount =
                           IF reply.by = "commit" THEN res[r].actualCost ELSE 0
    BY DEF RepliesAgree
  <2>1. RowSettled(r)
    BY DEF Settled
  <2>2. reply = Dismissed \/ reply = Told(res[r].actualCost)
    BY <2>1 DEF RowSettled
  <2>3. res[r].status \in Statuses
    BY DEF Typed, TypeOK, Row
  <2> QED BY <2>1, <2>2, <2>3 DEF RowSettled, Terminal, Statuses, Dismissed, Told
<1> QED BY <1>1, AlwaysSettled, AlwaysTyped, PTL
-----------------------------------------------------------------------------
\* The refinement mapping, as functions.
State == [r \in ResIds |-> res[r].status]
Charged == [r \in ResIds |-> Charge(r)]

LEMMA MappedInit == Init => Promise!ReservationInit
BY DEF Init, Promise!ReservationInit, NoRow, Charge

\* A step that leaves rows and charges alone is a stutter of Reservation.tla.
LEMMA MappedStutter ==
  ASSUME UNCHANGED <<res, consumed>>
  PROVE  UNCHANGED Promise!abstractVars
BY DEF Promise!abstractVars, Charge

LEMMA MappedReserve ==
  ASSUME Typed, NEW r \in ResIds, Reserve(r)
  PROVE  Promise!Open(r)
<1>1. PICK cost \in Amounts, sub \in Amounts \cup {0}, p \in Profiles :
        ReserveQuota(r, cost, sub, p.mode, p.intent)
  BY DEF Reserve
<1>2. /\ res[r].status = "none"
      /\ UNCHANGED consumed
      /\ res' = [res EXCEPT ![r] =
                   [status |-> "reserved", mode |-> p.mode, intent |-> p.intent,
                    amount |-> cost, balanceAmount |-> cost - sub, actualCost |-> 0]]
  BY <1>1 DEF ReserveQuota, Vacant, ledgerVars
<1>3. State' = [State EXCEPT ![r] = "reserved"]
  <2>1. \A q \in ResIds : res'[q].status = IF q = r THEN "reserved" ELSE res[q].status
    BY <1>2 DEF Typed, TypeOK
  <2> QED BY <2>1 DEF State
<1>4. Charged' = Charged
  BY <1>2 DEF Charged, Charge
<1> QED BY <1>2, <1>3, <1>4 DEF State, Charged, Promise!Open

LEMMA MappedCommit ==
  ASSUME Typed, NEW r \in ResIds, Commit(r)
  PROVE  Promise!Settle(r)
<1>1. PICK cost \in Amounts \cup {0}, sub \in Amounts \cup {0} : CommitWon(r, cost, sub)
  BY DEF Commit
<1> DEFINE actual == SettledCost(res[r], cost)
<1>2. actual \in Nat /\ sub \in Nat /\ actual - sub \in Nat
      /\ res[r] \in Row /\ res[r].status = "reserved"
  BY <1>1, CommitFacts
<1>3. /\ res' = [res EXCEPT ![r].status = "committed", ![r].actualCost = actual]
      /\ consumed' = [consumed EXCEPT ![r] = [sub |-> sub, bal |-> actual - sub]]
  BY <1>1 DEF CommitWon
<1> HIDE DEF actual
<1>4. State' = [State EXCEPT ![r] = "committed"]
  <2>1. \A q \in ResIds : res'[q].status = IF q = r THEN "committed" ELSE res[q].status
    BY <1>2, <1>3 DEF Typed, TypeOK, Row
  <2> QED BY <2>1 DEF State
<1>5. Charged' = [Charged EXCEPT ![r] = actual] /\ Charged'[r] = actual
  <2>1. \A q \in ResIds : Charge(q)' = IF q = r THEN actual ELSE Charge(q)
    BY <1>2, <1>3 DEF Charge, Typed, TypeOK
  <2> QED BY <2>1 DEF Charged
<1> QED BY <1>2, <1>4, <1>5 DEF State, Charged, Promise!Settle

LEMMA MappedRelease ==
  ASSUME Typed, NEW r \in ResIds, NEW final \in {"released", "expired"},
         NEW answers \in SUBSET {Dismissed}, ReleaseReservation(r, final, answers)
  PROVE  Promise!Close(r)
<1>1. /\ res[r].status = "reserved"
      /\ res' = [res EXCEPT ![r].status = final]
      /\ UNCHANGED consumed
  BY DEF ReleaseReservation, Releasable
<1>2. State' = [State EXCEPT ![r] = final]
  <2>1. \A q \in ResIds : res'[q].status = IF q = r THEN final ELSE res[q].status
    BY <1>1 DEF Typed, TypeOK, Row
  <2> QED BY <2>1 DEF State
<1>3. Charged' = Charged
  BY <1>1 DEF Charged, Charge
<1> QED BY <1>1, <1>2, <1>3 DEF State, Charged, Promise!Close

LEMMA MappedStep ==
  ASSUME Typed, [Next]_vars
  PROVE  [Promise!ReservationNext]_(Promise!abstractVars)
<1>1. CASE \E r \in ResIds : Reserve(r) \/ Commit(r)
  BY <1>1, MappedReserve, MappedCommit DEF Promise!ReservationNext
<1>2. CASE \E r \in ResIds, final \in {"released", "expired"}, answers \in SUBSET {Dismissed} :
             ReleaseReservation(r, final, answers)
  BY <1>2, MappedRelease DEF Promise!ReservationNext
<1>3. CASE UNCHANGED <<res, consumed>>
  BY <1>3, MappedStutter
<1>4. ASSUME NEW r \in ResIds, Replayed(r)
      PROVE  UNCHANGED <<res, consumed>>
  BY <1>4 DEF Replayed, Answer, ledgerVars
<1>5. ASSUME NEW o \in OpIds, NEW amount \in Nat,
             TopUpQuota(o, amount) \/ PurchaseSubscription(o, amount)
      PROVE  UNCHANGED <<res, consumed>>
  BY <1>5 DEF TopUpQuota, PurchaseSubscription
<1>6. ASSUME NEW o \in OpIds, NEW target, NEW expected, ResetBalance(o, target, expected)
      PROVE  UNCHANGED <<res, consumed>>
  BY <1>6 DEF ResetBalance
<1>7. CASE UNCHANGED vars
  BY <1>7, <1>3 DEF vars
<1> QED BY <1>1, <1>2, <1>3, <1>4, <1>5, <1>6, <1>7, StepCases

\* The billing operations implement Reservation.tla: every transaction opens,
\* settles or closes one request, or leaves all of them alone.
THEOREM ImplementsReservation == Spec => SettlesLikeReservation
<1>1. Init => Promise!ReservationInit
  BY MappedInit
<1>2. Typed /\ [Next]_vars => [Promise!ReservationNext]_(Promise!abstractVars)
  BY MappedStep
<1> QED BY <1>1, <1>2, AlwaysTyped, PTL
        DEF Spec, SettlesLikeReservation, Promise!ReservationSpec
=============================================================================
