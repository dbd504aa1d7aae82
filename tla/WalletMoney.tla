---------------------------- MODULE WalletMoney -----------------------------
(***************************************************************************)
(* Proofs that the wallets agree with the tables behind them: the frozen   *)
(* amount with the open holds, the money with the ledger, the usage with   *)
(* the consume rows.  And about overdraft: who may owe, that what is owed  *)
(* is recorded, and that subscription_only requests never touch a wallet.  *)
(***************************************************************************)
EXTENDS WalletProofs

\* The entries of the columns are integers.
LEMMA ColumnTypes ==
  ASSUME Typed, NEW v \in Users
  PROVE  /\ \A r \in 1..NRes : /\ Holds(v)[r] \in Int
                               /\ WalletCharges(v)[r] \in Int
                               /\ Charges(v)[r] \in Int
                               /\ Commits(v)[r] \in Int
         /\ \A o \in 1..NOps : Credits(v)[o] \in Int
<1>1. \A r \in ResIds : res[r] \in Row /\ consumed[r] \in [sub : Nat, bal : Nat]
  BY DEF Typed, TypeOK
<1>2. \A r \in ResIds : Holds(v)[r] \in Int
  BY <1>1 DEF Holds, Row
<1>3. \A r \in ResIds : WalletCharges(v)[r] \in Int /\ Charges(v)[r] \in Int
  BY <1>1 DEF WalletCharges, Charges, Charge
<1>4. \A r \in ResIds : Commits(v)[r] \in Int
  BY DEF Commits
<1>5. \A o \in OpIds : topups[o] \in Nat /\ purchases[o] \in Nat /\ resets[o].amount \in Int
  BY DEF Typed, TypeOK
<1>6. \A o \in OpIds : Credits(v)[o] \in Int
  BY <1>5 DEF Credits
<1> QED BY <1>2, <1>3, <1>4, <1>6 DEF ResIds, OpIds

\* A step that changes one reservation moves the columns by that row.
LEMMA HoldsMove ==
  ASSUME Typed, Typed', NEW v \in Users, NEW r \in ResIds,
         \A q \in ResIds : q # r => res'[q] = res[q]
  PROVE  /\ Total(Holds(v), NRes)' = Total(Holds(v), NRes) + (Holds(v)[r]' - Holds(v)[r])
         /\ Total(Commits(v), NRes)' = Total(Commits(v), NRes) + (Commits(v)[r]' - Commits(v)[r])
<1>1. /\ \A q \in 1..NRes : Holds(v)[q] \in Int /\ Commits(v)[q] \in Int
      /\ Holds(v)[r]' \in Int /\ Commits(v)[r]' \in Int
      /\ NRes \in Nat /\ r \in 1..NRes
  <2>1. res'[r] \in Row
    BY DEF Typed, TypeOK
  <2>2. Holds(v)[r]' \in Int /\ Commits(v)[r]' \in Int
    BY <2>1 DEF Holds, Commits, Row
  <2> QED BY <2>2, ColumnTypes, Owners DEF ResIds
<1>2. \A q \in 1..NRes : q # r => Holds(v)'[q] = Holds(v)[q] /\ Commits(v)'[q] = Commits(v)[q]
  BY DEF Holds, Commits, ResIds
<1>3. /\ Total(Holds(v)', NRes) = Total(Holds(v), NRes) + (Holds(v)'[r] - Holds(v)[r])
      /\ Total(Commits(v)', NRes) = Total(Commits(v), NRes) + (Commits(v)'[r] - Commits(v)[r])
  BY <1>1, <1>2, TotalUpdate
<1> QED BY <1>3

LEMMA ChargesMove ==
  ASSUME Typed, Typed', NEW v \in Users, NEW r \in ResIds,
         \A q \in ResIds : q # r => consumed'[q] = consumed[q]
  PROVE  /\ Total(WalletCharges(v), NRes)'
              = Total(WalletCharges(v), NRes) + (WalletCharges(v)[r]' - WalletCharges(v)[r])
         /\ Total(Charges(v), NRes)'
              = Total(Charges(v), NRes) + (Charges(v)[r]' - Charges(v)[r])
<1>1. /\ \A q \in 1..NRes : WalletCharges(v)[q] \in Int /\ Charges(v)[q] \in Int
      /\ WalletCharges(v)[r]' \in Int /\ Charges(v)[r]' \in Int
      /\ NRes \in Nat /\ r \in 1..NRes
  <2>1. consumed'[r] \in [sub : Nat, bal : Nat]
    BY DEF Typed, TypeOK
  <2>2. WalletCharges(v)[r]' \in Int /\ Charges(v)[r]' \in Int
    BY <2>1 DEF WalletCharges, Charges, Charge
  <2> QED BY <2>2, ColumnTypes, Owners DEF ResIds
<1>2. \A q \in 1..NRes : q # r => /\ WalletCharges(v)'[q] = WalletCharges(v)[q]
                                  /\ Charges(v)'[q] = Charges(v)[q]
  BY DEF WalletCharges, Charges, Charge, ResIds
<1>3. /\ Total(WalletCharges(v)', NRes)
           = Total(WalletCharges(v), NRes) + (WalletCharges(v)'[r] - WalletCharges(v)[r])
      /\ Total(Charges(v)', NRes)
           = Total(Charges(v), NRes) + (Charges(v)'[r] - Charges(v)[r])
  BY <1>1, <1>2, TotalUpdate
<1> QED BY <1>3
LEMMA CreditsMove ==
  ASSUME Typed, Typed', NEW v \in Users, NEW o \in OpIds,
         \A q \in OpIds : q # o => /\ topups'[q] = topups[q]
                                   /\ purchases'[q] = purchases[q]
                                   /\ resets'[q] = resets[q]
  PROVE  Total(Credits(v), NOps)' = Total(Credits(v), NOps) + (Credits(v)[o]' - Credits(v)[o])
<1>1. /\ \A q \in 1..NOps : Credits(v)[q] \in Int
      /\ Credits(v)[o]' \in Int
      /\ NOps \in Nat /\ o \in 1..NOps
  <2>1. topups'[o] \in Nat /\ purchases'[o] \in Nat /\ resets'[o].amount \in Int
    BY DEF Typed, TypeOK
  <2>2. Credits(v)[o]' \in Int
    BY <2>1 DEF Credits
  <2> QED BY <2>2, ColumnTypes, Owners DEF OpIds
<1>2. \A q \in 1..NOps : q # o => Credits(v)'[q] = Credits(v)[q]
  BY DEF Credits, OpIds
<1>3. Total(Credits(v)', NOps) = Total(Credits(v), NOps) + (Credits(v)'[o] - Credits(v)[o])
  BY <1>1, <1>2, TotalUpdate
<1> QED BY <1>3

\* The totals are integers.
LEMMA TotalTypes ==
  ASSUME Typed, NEW v \in Users
  PROVE  /\ Total(Holds(v), NRes) \in Int
         /\ Total(Commits(v), NRes) \in Int
         /\ Total(WalletCharges(v), NRes) \in Int
         /\ Total(Charges(v), NRes) \in Int
         /\ Total(Credits(v), NOps) \in Int
BY ColumnTypes, Owners, TotalType

\* A column a step leaves alone keeps its total.
LEMMA TotalsKept ==
  ASSUME NEW v
  PROVE  /\ UNCHANGED res => /\ Total(Holds(v), NRes)' = Total(Holds(v), NRes)
                             /\ Total(Commits(v), NRes)' = Total(Commits(v), NRes)
         /\ UNCHANGED consumed =>
              /\ Total(WalletCharges(v), NRes)' = Total(WalletCharges(v), NRes)
              /\ Total(Charges(v), NRes)' = Total(Charges(v), NRes)
         /\ UNCHANGED <<topups, purchases, resets>> =>
              Total(Credits(v), NOps)' = Total(Credits(v), NOps)
BY DEF Holds, Commits, WalletCharges, Charges, Charge, Credits
-----------------------------------------------------------------------------
\* A key that has not been claimed has moved nothing.
ResetsSound == \A o \in OpIds : ~ resets[o].claimed => resets[o].amount = 0

\* The three balances of a wallet with its tables.
WalletAgrees(v) ==
  /\ frozen[v] = Total(Holds(v), NRes)
  /\ balance[v] + frozen[v] =
       InitBalance[v] + Total(Credits(v), NOps) - Total(WalletCharges(v), NRes)
  /\ usedAmount[v] = Total(Charges(v), NRes)
  /\ requestCount[v] = Total(Commits(v), NRes)

Agrees == ResetsSound /\ \A v \in Users : WalletAgrees(v)

LEMMA WalletNumbers ==
  ASSUME Typed, NEW v \in Users
  PROVE  /\ balance[v] \in Int /\ frozen[v] \in Int
         /\ usedAmount[v] \in Int /\ requestCount[v] \in Int
         /\ InitBalance[v] \in Int
BY MoneyAssumption DEF Typed, TypeOK

LEMMA InitAgrees == Init => Agrees
<1> SUFFICES ASSUME Init PROVE Agrees
  OBVIOUS
<1>1. ResetsSound
  BY DEF Init, ResetsSound, NoReset
<1>2. ASSUME NEW v \in Users PROVE WalletAgrees(v)
  <2>1. \A r \in 1..NRes : /\ Holds(v)[r] = 0 /\ Commits(v)[r] = 0
                           /\ WalletCharges(v)[r] = 0 /\ Charges(v)[r] = 0
    BY DEF Init, Holds, Commits, WalletCharges, Charges, Charge, NoRow, ResIds
  <2>2. \A o \in 1..NOps : Credits(v)[o] = 0
    BY DEF Init, Credits, NoReset, OpIds
  <2>3. /\ Total(Holds(v), NRes) = 0 /\ Total(Commits(v), NRes) = 0
        /\ Total(WalletCharges(v), NRes) = 0 /\ Total(Charges(v), NRes) = 0
        /\ Total(Credits(v), NOps) = 0
    BY <2>1, <2>2, Owners, TotalZero
  <2>4. /\ balance[v] = InitBalance[v] /\ frozen[v] = 0
        /\ usedAmount[v] = 0 /\ requestCount[v] = 0 /\ InitBalance[v] \in Int
    BY MoneyAssumption DEF Init
  <2> QED BY <2>3, <2>4 DEF WalletAgrees
<1> QED BY <1>1, <1>2 DEF Agrees

LEMMA ReserveAgrees ==
  ASSUME Typed, Typed', Agrees, NEW r \in ResIds, Reserve(r)
  PROVE  Agrees'
<1>1. PICK cost \in Amounts, sub \in Amounts \cup {0}, p \in Profiles :
        ReserveQuota(r, cost, sub, p.mode, p.intent)
  BY DEF Reserve
<1> DEFINE u == ResUser[r]
           held == cost - sub
<1>2. u \in Users /\ held \in Int
  BY Owners, Money
<1>3. /\ res[r].status = "none"
      /\ balance' = [balance EXCEPT ![u] = @ - held]
      /\ frozen' = [frozen EXCEPT ![u] = @ + held]
      /\ res' = [res EXCEPT ![r] =
                   [status |-> "reserved", mode |-> p.mode, intent |-> p.intent,
                    amount |-> cost, balanceAmount |-> held, actualCost |-> 0]]
      /\ UNCHANGED <<usedAmount, requestCount, consumed, topups, purchases, resets>>
  BY <1>1 DEF ReserveQuota, Vacant, ledgerVars
<1>4. ResetsSound'
  BY <1>3 DEF Agrees, ResetsSound
<1>5. ASSUME NEW v \in Users PROVE WalletAgrees(v)'
  <2>1. /\ Total(WalletCharges(v), NRes)' = Total(WalletCharges(v), NRes)
        /\ Total(Charges(v), NRes)' = Total(Charges(v), NRes)
        /\ Total(Credits(v), NOps)' = Total(Credits(v), NOps)
    BY <1>3, TotalsKept
  <2>2. \A q \in ResIds : q # r => res'[q] = res[q]
    BY <1>3 DEF Typed, TypeOK
  <2>3. /\ Total(Holds(v), NRes)' = Total(Holds(v), NRes) + (Holds(v)[r]' - Holds(v)[r])
        /\ Total(Commits(v), NRes)' = Total(Commits(v), NRes) + (Commits(v)[r]' - Commits(v)[r])
    BY <2>2, HoldsMove
  <2>4. res'[r].status = "reserved" /\ res'[r].balanceAmount = held
    BY <1>3 DEF Typed, TypeOK
  <2>5. /\ Holds(v)[r] = 0 /\ Holds(v)[r]' = IF u = v THEN held ELSE 0
        /\ Commits(v)[r] = 0 /\ Commits(v)[r]' = 0
    BY <1>3, <2>4 DEF Holds, Commits
  <2>6. /\ balance'[v] = IF u = v THEN balance[v] - held ELSE balance[v]
        /\ frozen'[v] = IF u = v THEN frozen[v] + held ELSE frozen[v]
    BY <1>2, <1>3 DEF Typed, TypeOK
  <2>7. WalletAgrees(v)
    BY DEF Agrees
  <2> HIDE DEF u, held
  <2> QED BY <1>2, <1>3, <2>1, <2>3, <2>5, <2>6, <2>7, TotalTypes, WalletNumbers
          DEF WalletAgrees
<1> QED BY <1>4, <1>5 DEF Agrees

LEMMA CommitAgrees ==
  ASSUME Typed, Typed', Agrees, NEW r \in ResIds, Commit(r)
  PROVE  Agrees'
<1>1. PICK cost \in Amounts \cup {0}, sub \in Amounts \cup {0} : CommitWon(r, cost, sub)
  BY DEF Commit
<1> DEFINE u == ResUser[r]
           held == res[r].balanceAmount
           actual == SettledCost(res[r], cost)
           bal == actual - sub
<1>2. /\ u \in Users /\ actual \in Nat /\ sub \in Nat /\ bal \in Nat
      /\ res[r] \in Row /\ res[r].status = "reserved"
  BY <1>1, CommitFacts
<1>3. held \in Int
  BY <1>2 DEF Row
<1>4. /\ balance' = [balance EXCEPT ![u] = balance[u] + held - bal]
      /\ frozen' = [frozen EXCEPT ![u] = @ - held]
      /\ consumed[r] = [sub |-> 0, bal |-> 0]
      /\ consumed' = [consumed EXCEPT ![r] = [sub |-> sub, bal |-> bal]]
      /\ res' = [res EXCEPT ![r].status = "committed", ![r].actualCost = actual]
      /\ usedAmount' = [usedAmount EXCEPT ![u] = @ + actual]
      /\ requestCount' = [requestCount EXCEPT ![u] = @ + 1]
      /\ UNCHANGED <<topups, purchases, resets>>
  BY <1>1 DEF CommitWon, BalanceAfterCommit, FrozenAfterCommit, UsedAfterCommit
<1>5. ResetsSound'
  BY <1>4 DEF Agrees, ResetsSound
<1>6. ASSUME NEW v \in Users PROVE WalletAgrees(v)'
  <2>1. Total(Credits(v), NOps)' = Total(Credits(v), NOps)
    BY <1>4, TotalsKept
  <2>2. \A q \in ResIds : q # r => res'[q] = res[q] /\ consumed'[q] = consumed[q]
    BY <1>4 DEF Typed, TypeOK
  <2>3. /\ Total(Holds(v), NRes)' = Total(Holds(v), NRes) + (Holds(v)[r]' - Holds(v)[r])
        /\ Total(Commits(v), NRes)' = Total(Commits(v), NRes) + (Commits(v)[r]' - Commits(v)[r])
    BY <2>2, HoldsMove
  <2>4. /\ Total(WalletCharges(v), NRes)'
             = Total(WalletCharges(v), NRes) + (WalletCharges(v)[r]' - WalletCharges(v)[r])
        /\ Total(Charges(v), NRes)'
             = Total(Charges(v), NRes) + (Charges(v)[r]' - Charges(v)[r])
    BY <2>2, ChargesMove
  <2>5. /\ res'[r].status = "committed"
        /\ consumed'[r] = [sub |-> sub, bal |-> bal]
    BY <1>2, <1>4 DEF Typed, TypeOK, Row
  <2>6. /\ Holds(v)[r] = (IF u = v THEN held ELSE 0) /\ Holds(v)[r]' = 0
        /\ Commits(v)[r] = 0 /\ Commits(v)[r]' = (IF u = v THEN 1 ELSE 0)
    BY <1>2, <2>5 DEF Holds, Commits
  <2>7. /\ WalletCharges(v)[r] = 0 /\ WalletCharges(v)[r]' = (IF u = v THEN bal ELSE 0)
        /\ Charges(v)[r] = 0 /\ Charges(v)[r]' = (IF u = v THEN actual ELSE 0)
    BY <1>2, <1>4, <2>5 DEF WalletCharges, Charges, Charge
  <2>8. /\ balance'[v] = IF u = v THEN balance[v] + held - bal ELSE balance[v]
        /\ frozen'[v] = IF u = v THEN frozen[v] - held ELSE frozen[v]
    BY <1>2, <1>4 DEF Typed, TypeOK
  <2>9. /\ usedAmount'[v] = IF u = v THEN usedAmount[v] + actual ELSE usedAmount[v]
        /\ requestCount'[v] = IF u = v THEN requestCount[v] + 1 ELSE requestCount[v]
    BY <1>2, <1>4 DEF Typed, TypeOK
  <2>10. WalletAgrees(v)
    BY DEF Agrees
  <2> HIDE DEF u, held, actual, bal
  <2> QED BY <1>2, <1>3, <2>1, <2>3, <2>4, <2>6, <2>7, <2>8, <2>9, <2>10,
             TotalTypes, WalletNumbers DEF WalletAgrees
<1> QED BY <1>5, <1>6 DEF Agrees

LEMMA ReleaseAgrees ==
  ASSUME Typed, Typed', Agrees, NEW r \in ResIds, NEW final \in {"released", "expired"},
         NEW answers, ReleaseReservation(r, final, answers)
  PROVE  Agrees'
<1> DEFINE u == ResUser[r]
           held == res[r].balanceAmount
<1>1. u \in Users /\ res[r] \in Row /\ held \in Int
  BY Owners DEF Typed, TypeOK, Row
<1>2. /\ res[r].status = "reserved"
      /\ balance' = [balance EXCEPT ![u] = @ + held]
      /\ frozen' = [frozen EXCEPT ![u] = @ - held]
      /\ res' = [res EXCEPT ![r].status = final]
      /\ UNCHANGED <<usedAmount, requestCount, consumed, topups, purchases, resets>>
  BY DEF ReleaseReservation, Releasable
<1>3. ResetsSound'
  BY <1>2 DEF Agrees, ResetsSound
<1>4. ASSUME NEW v \in Users PROVE WalletAgrees(v)'
  <2>1. /\ Total(WalletCharges(v), NRes)' = Total(WalletCharges(v), NRes)
        /\ Total(Charges(v), NRes)' = Total(Charges(v), NRes)
        /\ Total(Credits(v), NOps)' = Total(Credits(v), NOps)
    BY <1>2, TotalsKept
  <2>2. \A q \in ResIds : q # r => res'[q] = res[q]
    BY <1>2 DEF Typed, TypeOK
  <2>3. /\ Total(Holds(v), NRes)' = Total(Holds(v), NRes) + (Holds(v)[r]' - Holds(v)[r])
        /\ Total(Commits(v), NRes)' = Total(Commits(v), NRes) + (Commits(v)[r]' - Commits(v)[r])
    BY <2>2, HoldsMove
  <2>4. res'[r].status = final
    BY <1>1, <1>2 DEF Typed, TypeOK, Row
  <2>5. /\ Holds(v)[r] = (IF u = v THEN held ELSE 0) /\ Holds(v)[r]' = 0
        /\ Commits(v)[r] = 0 /\ Commits(v)[r]' = 0
    BY <1>2, <2>4 DEF Holds, Commits
  <2>6. /\ balance'[v] = IF u = v THEN balance[v] + held ELSE balance[v]
        /\ frozen'[v] = IF u = v THEN frozen[v] - held ELSE frozen[v]
    BY <1>1, <1>2 DEF Typed, TypeOK
  <2>7. WalletAgrees(v)
    BY DEF Agrees
  <2> HIDE DEF u, held
  <2> QED BY <1>1, <1>2, <2>1, <2>3, <2>5, <2>6, <2>7, TotalTypes, WalletNumbers
          DEF WalletAgrees
<1> QED BY <1>3, <1>4 DEF Agrees

\* An operation of its own key credits or debits the wallet by what its row says.
LEMMA OperationAgrees ==
  ASSUME Typed, Typed', Agrees, NEW o \in OpIds, NEW amount \in Int,
         \A v \in Users : balance'[v] = IF v = OpUser[o] THEN balance[v] + amount ELSE balance[v],
         topups'[o] - purchases'[o] + resets'[o].amount
           = topups[o] - purchases[o] + resets[o].amount + amount,
         \A q \in OpIds : q # o => /\ topups'[q] = topups[q]
                                   /\ purchases'[q] = purchases[q]
                                   /\ resets'[q] = resets[q],
         UNCHANGED <<frozen, usedAmount, requestCount, res, consumed>>
  PROVE  \A v \in Users : WalletAgrees(v)'
<1> SUFFICES ASSUME NEW v \in Users PROVE WalletAgrees(v)'
  OBVIOUS
<1>1. /\ Total(WalletCharges(v), NRes)' = Total(WalletCharges(v), NRes)
      /\ Total(Charges(v), NRes)' = Total(Charges(v), NRes)
      /\ Total(Holds(v), NRes)' = Total(Holds(v), NRes)
      /\ Total(Commits(v), NRes)' = Total(Commits(v), NRes)
  BY TotalsKept
<1>2. Total(Credits(v), NOps)' = Total(Credits(v), NOps) + (Credits(v)[o]' - Credits(v)[o])
  BY CreditsMove
<1>3. topups[o] \in Int /\ purchases[o] \in Int /\ resets[o].amount \in Int
  BY DEF Typed, TypeOK
<1>4. Credits(v)[o]' - Credits(v)[o] = IF v = OpUser[o] THEN amount ELSE 0
  BY <1>3 DEF Credits
<1>5. WalletAgrees(v)
  BY DEF Agrees
<1> QED BY <1>1, <1>2, <1>4, <1>5, TotalTypes, WalletNumbers DEF WalletAgrees

LEMMA TopUpAgrees ==
  ASSUME Typed, Typed', Agrees, NEW o \in OpIds, NEW amount \in Nat, TopUpQuota(o, amount)
  PROVE  Agrees'
<1>1. /\ topups[o] = 0
      /\ balance' = [balance EXCEPT ![OpUser[o]] = @ + amount]
      /\ topups' = [topups EXCEPT ![o] = amount]
      /\ UNCHANGED <<frozen, usedAmount, requestCount, res, consumed, purchases, resets>>
  BY DEF TopUpQuota
<1>2. topups'[o] = amount /\ \A q \in OpIds : q # o => topups'[q] = topups[q]
  BY <1>1 DEF Typed, TypeOK
<1>3. \A v \in Users : balance'[v] = IF v = OpUser[o] THEN balance[v] + amount ELSE balance[v]
  BY <1>1, Owners DEF Typed, TypeOK
<1>4. purchases[o] \in Int /\ resets[o].amount \in Int
  BY DEF Typed, TypeOK
<1>5. \A v \in Users : WalletAgrees(v)'
  <2>1. topups'[o] - purchases'[o] + resets'[o].amount
          = topups[o] - purchases[o] + resets[o].amount + amount
    BY <1>1, <1>2, <1>4
  <2>2. \A q \in OpIds : q # o => /\ topups'[q] = topups[q]
                                  /\ purchases'[q] = purchases[q]
                                  /\ resets'[q] = resets[q]
    BY <1>1, <1>2
  <2>3. UNCHANGED <<frozen, usedAmount, requestCount, res, consumed>>
    BY <1>1
  <2> QED BY <1>3, <2>1, <2>2, <2>3, OperationAgrees
<1>6. ResetsSound'
  BY <1>1 DEF Agrees, ResetsSound
<1> QED BY <1>5, <1>6 DEF Agrees

LEMMA PurchaseAgrees ==
  ASSUME Typed, Typed', Agrees, NEW o \in OpIds, NEW price \in Nat,
         PurchaseSubscription(o, price)
  PROVE  Agrees'
<1>1. /\ purchases[o] = 0
      /\ balance' = [balance EXCEPT ![OpUser[o]] = @ - price]
      /\ purchases' = [purchases EXCEPT ![o] = price]
      /\ UNCHANGED <<frozen, usedAmount, requestCount, res, consumed, topups, resets>>
  BY DEF PurchaseSubscription
<1>2. purchases'[o] = price /\ \A q \in OpIds : q # o => purchases'[q] = purchases[q]
  BY <1>1 DEF Typed, TypeOK
<1>3. \A v \in Users : balance'[v] = IF v = OpUser[o] THEN balance[v] + (-price) ELSE balance[v]
  BY <1>1, Owners, WalletNumbers DEF Typed, TypeOK
<1>4. topups[o] \in Int /\ resets[o].amount \in Int /\ -price \in Int
  BY DEF Typed, TypeOK
<1>5. \A v \in Users : WalletAgrees(v)'
  <2>1. topups'[o] - purchases'[o] + resets'[o].amount
          = topups[o] - purchases[o] + resets[o].amount + (-price)
    BY <1>1, <1>2, <1>4
  <2>2. \A q \in OpIds : q # o => /\ topups'[q] = topups[q]
                                  /\ purchases'[q] = purchases[q]
                                  /\ resets'[q] = resets[q]
    BY <1>1, <1>2
  <2>3. UNCHANGED <<frozen, usedAmount, requestCount, res, consumed>>
    BY <1>1
  <2> QED BY <1>3, <1>4, <2>1, <2>2, <2>3, OperationAgrees
<1>6. ResetsSound'
  BY <1>1 DEF Agrees, ResetsSound
<1> QED BY <1>5, <1>6 DEF Agrees

LEMMA ResetAgrees ==
  ASSUME Typed, Typed', Agrees, NEW o \in OpIds, NEW target \in Nat, NEW expected \in Int,
         ResetBalance(o, target, expected)
  PROVE  Agrees'
<1>1. /\ ~ resets[o].claimed
      /\ balance[OpUser[o]] = expected
      /\ balance' = [balance EXCEPT ![OpUser[o]] = target]
      /\ resets' = [resets EXCEPT ![o] = [claimed |-> TRUE, amount |-> target - expected]]
      /\ UNCHANGED <<frozen, usedAmount, requestCount, res, consumed, topups, purchases>>
  BY DEF ResetBalance
<1>2. /\ resets[o].amount = 0
      /\ resets'[o] = [claimed |-> TRUE, amount |-> target - expected]
      /\ \A q \in OpIds : q # o => resets'[q] = resets[q]
  <2>1. resets[o].amount = 0
    BY <1>1 DEF Agrees, ResetsSound
  <2>2. resets \in [OpIds -> [claimed : BOOLEAN, amount : Int]]
    BY DEF Typed, TypeOK
  <2> QED BY <1>1, <2>1, <2>2
<1>3. \A v \in Users : balance'[v] = IF v = OpUser[o] THEN balance[v] + (target - expected)
                                                      ELSE balance[v]
  <2>1. \A v \in Users : balance'[v] = IF v = OpUser[o] THEN target ELSE balance[v]
    BY <1>1 DEF Typed, TypeOK
  <2>2. target = expected + (target - expected)
    OBVIOUS
  <2> QED BY <1>1, <2>1, <2>2
<1>4. topups[o] \in Int /\ purchases[o] \in Int /\ target - expected \in Int
  BY DEF Typed, TypeOK
<1>5. \A v \in Users : WalletAgrees(v)'
  BY <1>1, <1>2, <1>3, <1>4, OperationAgrees
<1>6. ResetsSound'
  <2>1. ASSUME NEW q \in OpIds PROVE ~ resets'[q].claimed => resets'[q].amount = 0
    BY <1>2 DEF Agrees, ResetsSound
  <2> QED BY <2>1 DEF ResetsSound
<1> QED BY <1>5, <1>6 DEF Agrees

LEMMA StepAgrees ==
  ASSUME Typed, Typed', Agrees, [Next]_vars
  PROVE  Agrees'
<1>1. CASE \E r \in ResIds : Reserve(r) \/ Commit(r)
  BY <1>1, ReserveAgrees, CommitAgrees
<1>2. CASE \E r \in ResIds, final \in {"released", "expired"}, answers \in SUBSET {Dismissed} :
             ReleaseReservation(r, final, answers)
  BY <1>2, ReleaseAgrees
<1>3. CASE \E o \in OpIds, amount \in Nat :
             amount > 0 /\ (TopUpQuota(o, amount) \/ PurchaseSubscription(o, amount))
  BY <1>3, TopUpAgrees, PurchaseAgrees
<1>4. CASE \E o \in OpIds, target \in Nat, expected \in Int : ResetBalance(o, target, expected)
  BY <1>4, ResetAgrees
<1>5. CASE /\ UNCHANGED <<balance, frozen, usedAmount, requestCount, res>>
           /\ UNCHANGED <<consumed, topups, purchases, resets>>
  <2>1. ResetsSound'
    BY <1>5 DEF Agrees, ResetsSound
  <2>2. ASSUME NEW v \in Users PROVE WalletAgrees(v)'
    BY <1>5, TotalsKept DEF Agrees, WalletAgrees
  <2> QED BY <2>1, <2>2 DEF Agrees
<1>6. CASE UNCHANGED vars
  BY <1>6, <1>5 DEF vars
<1>7. CASE \E r \in ResIds : Replayed(r)
  BY <1>7, <1>5 DEF Replayed, Answer, walletVars, ledgerVars
<1> QED BY <1>1, <1>2, <1>3, <1>4, <1>6, <1>7, StepCases

LEMMA AlwaysAgrees == Spec => []Agrees
<1>1. Init => Agrees
  BY InitAgrees
<1>2. Typed /\ Typed' /\ Agrees /\ [Next]_vars => Agrees'
  BY StepAgrees
<1> QED BY <1>1, <1>2, AlwaysTyped, PTL DEF Spec

\* The frozen amount of a wallet is the sum of its open holds: no operation
\* forgets a hold or gives one back twice.
THEOREM FrozenIsHolds == Spec => []FrozenMatchesHolds
<1>1. Agrees => FrozenMatchesHolds
  BY DEF Agrees, WalletAgrees, FrozenMatchesHolds
<1> QED BY <1>1, AlwaysAgrees, PTL

\* No operation creates or destroys money: the wallet is what the ledger says.
THEOREM MoneyIsConserved == Spec => []MoneyConserved
<1>1. Agrees => MoneyConserved
  BY DEF Agrees, WalletAgrees, MoneyConserved
<1> QED BY <1>1, AlwaysAgrees, PTL

\* The usage counters are what the consume rows and the committed rows add up to.
THEOREM UsageIsLedger == Spec => []UsageMatchesLedger
<1>1. Agrees => UsageMatchesLedger
  BY DEF Agrees, WalletAgrees, UsageMatchesLedger
<1> QED BY <1>1, AlwaysAgrees, PTL

-----------------------------------------------------------------------------
(* Overdraft. *)

\* DebtIsReceivable with the other half of its maximum: the pending
\* receivables never owe less than nothing.
DebtsRecorded ==
  \A v \in Users : Total(Outstanding(v), Len(receivables)) >= Positive(-balance[v])

Owed == ReceivablePerReservation /\ DebtsRecorded

LEMMA DebtTypes ==
  ASSUME Typed, NEW v \in Users
  PROVE  /\ balance[v] \in Int
         /\ Len(receivables) \in Nat
         /\ Total(Outstanding(v), Len(receivables)) \in Int
<1>1. \A i \in 1..Len(receivables) : Outstanding(v)[i] \in Int
  BY OutstandingType
<1>2. Len(receivables) \in Nat /\ balance[v] \in Int
  BY ReceivableType DEF Typed, TypeOK
<1> QED BY <1>1, <1>2, TotalType

LEMMA InitOwed == Init => Owed
<1> SUFFICES ASSUME Init PROVE Owed
  OBVIOUS
<1>1. receivables = <<>> /\ Len(receivables) = 0
  BY DEF Init
<1>2. ReceivablePerReservation
  BY <1>1 DEF ReceivablePerReservation
<1>3. ASSUME NEW v \in Users
      PROVE  Total(Outstanding(v), Len(receivables)) >= Positive(-balance[v])
  <2>1. Total(Outstanding(v), 0) = 0
    BY TotalZero
  <2>2. balance[v] \in Nat
    BY MoneyAssumption DEF Init
  <2> QED BY <1>1, <2>1, <2>2 DEF Positive
<1> QED BY <1>2, <1>3 DEF Owed, DebtsRecorded

\* A step that records nothing and takes from no wallet below zero keeps the
\* debts recorded.
LEMMA OwedKept ==
  ASSUME Typed, Typed', Owed, UNCHANGED receivables,
         \A r \in ResIds : res[r].status = "committed" => res'[r].status = "committed",
         \A v \in Users : balance'[v] >= balance[v] \/ balance'[v] >= 0
  PROVE  Owed'
<1>1. ReceivablePerReservation'
  <2>1. \A i \in 1..Len(receivables) : receivables[i].id \in ResIds
    BY ReceivableType DEF Receivable
  <2> QED BY <2>1 DEF Owed, ReceivablePerReservation
<1>2. ASSUME NEW v \in Users
      PROVE  Total(Outstanding(v), Len(receivables))' >= Positive(-balance[v])'
  <2>1. Total(Outstanding(v), Len(receivables))' = Total(Outstanding(v), Len(receivables))
    BY DEF Outstanding
  <2>2. Total(Outstanding(v), Len(receivables)) >= Positive(-balance[v])
    BY DEF Owed, DebtsRecorded
  <2>3. balance'[v] \in Int
    BY DEF Typed, TypeOK
  <2>4. Positive(-balance'[v]) <= Positive(-balance[v])
    BY <2>3, DebtTypes DEF Positive
  <2>5. Positive(-balance[v]) \in Int /\ Positive(-balance'[v]) \in Int
    BY <2>3, DebtTypes DEF Positive
  <2> QED BY <2>1, <2>2, <2>4, <2>5, DebtTypes
<1> QED BY <1>1, <1>2 DEF Owed, DebtsRecorded

LEMMA ReserveOwed ==
  ASSUME Typed, Typed', Owed, NEW r \in ResIds, Reserve(r)
  PROVE  Owed'
<1>1. PICK cost \in Amounts, sub \in Amounts \cup {0}, p \in Profiles :
        ReserveQuota(r, cost, sub, p.mode, p.intent)
  BY DEF Reserve
<1> DEFINE u == ResUser[r]
           held == cost - sub
<1>2. u \in Users /\ held \in Int /\ balance[u] \in Int
  <2>1. u \in Users
    BY Owners
  <2>2. held \in Int
    BY Money
  <2> QED BY <2>1, <2>2 DEF Typed, TypeOK
<1>3. /\ held = 0 \/ balance[u] >= held
      /\ balance' = [balance EXCEPT ![u] = @ - held]
      /\ UNCHANGED receivables
  BY <1>1 DEF ReserveQuota, CanReserve
<1>4. \A q \in ResIds : res[q].status = "committed" => res'[q] = res[q]
  BY <1>1 DEF ReserveQuota, Vacant, Typed, TypeOK
<1>5. \A v \in Users : balance'[v] = IF v = u THEN balance[u] - held ELSE balance[v]
  BY <1>3 DEF Typed, TypeOK
<1>6. \A v \in Users : balance'[v] >= balance[v] \/ balance'[v] >= 0
  <2> HIDE DEF u, held
  <2> QED BY <1>2, <1>3, <1>5, DebtTypes
<1> QED BY <1>3, <1>4, <1>6, OwedKept

LEMMA ReleaseOwed ==
  ASSUME Typed, Typed', Owed, NEW r \in ResIds, NEW final \in {"released", "expired"},
         NEW answers, ReleaseReservation(r, final, answers)
  PROVE  Owed'
<1> DEFINE u == ResUser[r]
           held == res[r].balanceAmount
<1>1. u \in Users /\ held \in Nat /\ balance[u] \in Int
  BY Owners DEF Typed, TypeOK, Row
<1>2. /\ res[r].status = "reserved"
      /\ balance' = [balance EXCEPT ![u] = @ + held]
      /\ res' = [res EXCEPT ![r].status = final]
      /\ UNCHANGED receivables
  BY DEF ReleaseReservation, Releasable
<1>3. \A q \in ResIds : res[q].status = "committed" => res'[q] = res[q]
  BY <1>2 DEF Typed, TypeOK
<1>4. \A v \in Users : balance'[v] = IF v = u THEN balance[u] + held ELSE balance[v]
  BY <1>2 DEF Typed, TypeOK
<1>5. \A v \in Users : balance'[v] >= balance[v] \/ balance'[v] >= 0
  <2> HIDE DEF u, held
  <2> QED BY <1>1, <1>4, DebtTypes
<1> QED BY <1>2, <1>3, <1>5, OwedKept

LEMMA PurchaseOwed ==
  ASSUME Typed, Typed', Owed, NEW o \in OpIds, NEW price \in Nat,
         PurchaseSubscription(o, price)
  PROVE  Owed'
<1>1. /\ balance[OpUser[o]] >= price
      /\ balance' = [balance EXCEPT ![OpUser[o]] = @ - price]
      /\ UNCHANGED <<res, receivables>>
  BY DEF PurchaseSubscription
<1>2. \A v \in Users : balance'[v] = IF v = OpUser[o] THEN balance[v] - price ELSE balance[v]
  BY <1>1 DEF Typed, TypeOK
<1>3. \A v \in Users : balance'[v] >= balance[v] \/ balance'[v] >= 0
  BY <1>1, <1>2, DebtTypes
<1> QED BY <1>1, <1>3, OwedKept

LEMMA ResetOwed ==
  ASSUME Typed, Typed', Owed, NEW o \in OpIds, NEW target \in Nat, NEW expected \in Int,
         ResetBalance(o, target, expected)
  PROVE  Owed'
<1>1. /\ balance' = [balance EXCEPT ![OpUser[o]] = target]
      /\ UNCHANGED <<res, receivables>>
  BY DEF ResetBalance
<1>2. \A v \in Users : balance'[v] = IF v = OpUser[o] THEN target ELSE balance[v]
  BY <1>1 DEF Typed, TypeOK
<1>3. \A v \in Users : balance'[v] >= balance[v] \/ balance'[v] >= 0
  BY <1>2, DebtTypes
<1> QED BY <1>1, <1>3, OwedKept

\* A row that owes the user nothing takes nothing of a recharge.
LEMMA NothingOwed ==
  ASSUME Typed, NEW u \in Users, NEW amount \in Nat,
         NEW i \in 1..Len(receivables), Outstanding(u)[i] = 0
  PROVE  Settlement(u, amount, i) = 0
<1>1. Settlement(u, amount, i) \in Nat /\ Settlement(u, amount, i) <= 0
  BY SettlementType
<1> QED BY <1>1

LEMMA TopUpOwed ==
  ASSUME Typed, Typed', Owed, NEW o \in OpIds, NEW amount \in Nat, TopUpQuota(o, amount)
  PROVE  Owed'
<1> DEFINE u == OpUser[o]
           n == Len(receivables)
<1>1. u \in Users /\ n \in Nat
  BY Owners, ReceivableType
<1>2. /\ SettleOldest(u, amount)
      /\ balance' = [balance EXCEPT ![u] = @ + amount]
      /\ UNCHANGED res
  BY DEF TopUpQuota
<1>3. /\ Len(receivables') = n
      /\ \A i \in 1..n : /\ receivables'[i].id = receivables[i].id
                         /\ receivables'[i].user = receivables[i].user
                         /\ receivables'[i].overdue = receivables[i].overdue
                         /\ receivables'[i].settled
                              = receivables[i].settled + Settlement(u, amount, i)
  BY <1>1, <1>2, SettleOldestRows
<1>4. ReceivablePerReservation'
  BY <1>2, <1>3 DEF Owed, ReceivablePerReservation
<1>5. ASSUME NEW v \in Users
      PROVE  Total(Outstanding(v)', n) >= Positive(-balance'[v])
  <2>1. /\ Total(Outstanding(v), n) >= Positive(-balance[v])
        /\ balance[v] \in Int /\ Total(Outstanding(v), n) \in Int
    BY DebtTypes DEF Owed, DebtsRecorded
  <2>2. \A i \in 1..n : receivables[i].overdue \in Nat /\ receivables[i].settled \in Nat
    BY ReceivableType DEF Receivable
  <2>3. \A i \in 1..n : Outstanding(v)[i] \in Nat /\ Settlement(u, amount, i) \in Nat
    BY <1>1, OutstandingType, SettlementType
  <2>4. CASE v = u
    <3>1. \A i \in 1..n :
            Outstanding(u)'[i] = Outstanding(u)[i] - Settlement(u, amount, i)
      <4> SUFFICES ASSUME NEW i \in 1..n
                   PROVE  Outstanding(u)'[i] = Outstanding(u)[i] - Settlement(u, amount, i)
        OBVIOUS
      <4>1. CASE receivables[i].user = u
        <5>1. /\ Outstanding(u)[i] = receivables[i].overdue - receivables[i].settled
              /\ Outstanding(u)'[i] = receivables'[i].overdue - receivables'[i].settled
          BY <1>3, <4>1 DEF Outstanding
        <5> QED BY <1>3, <2>2, <2>3, <2>4, <5>1
      <4>2. CASE receivables[i].user # u
        <5>1. Outstanding(u)[i] = 0 /\ Outstanding(u)'[i] = 0
          BY <1>3, <4>2 DEF Outstanding
        <5>2. Settlement(u, amount, i) = 0
          BY <1>1, <5>1, NothingOwed
        <5> QED BY <5>1, <5>2
      <4> QED BY <4>1, <4>2
    <3>2. \A i \in 1..n :
            Outstanding(u)'[i] = Outstanding(u)[i]
              - MinOf(Outstanding(u)[i],
                      Positive(amount - RunningTotal(Outstanding(u), n)[i-1]))
      BY <3>1 DEF Settlement
    <3>3. Total(Outstanding(u)', n) = Positive(Total(Outstanding(u), n) - amount)
      BY <1>1, <2>3, <2>4, <3>2, TotalDrained
    <3>4. balance'[u] = balance[u] + amount
      BY <1>1, <1>2 DEF Typed, TypeOK
    <3> QED BY <2>1, <2>4, <3>3, <3>4 DEF Positive
  <2>5. CASE v # u
    <3>1. \A i \in 1..n : receivables[i].user = v => Settlement(u, amount, i) = 0
      <4> SUFFICES ASSUME NEW i \in 1..n, receivables[i].user = v
                   PROVE  Settlement(u, amount, i) = 0
        OBVIOUS
      <4>1. Outstanding(u)[i] = 0
        BY <2>5 DEF Outstanding
      <4> QED BY <1>1, <4>1, NothingOwed
    <3>2. \A i \in 1..n : Outstanding(v)'[i] = Outstanding(v)[i]
      BY <1>3, <2>2, <3>1 DEF Outstanding
    <3>3. \A i \in 1..n : Outstanding(v)[i] \in Int
      BY <2>3
    <3>4. Total(Outstanding(v)', n) = Total(Outstanding(v), n)
      BY <1>1, <3>2, <3>3, TotalEqual
    <3>5. balance'[v] = balance[v]
      BY <1>2, <2>5 DEF Typed, TypeOK
    <3> QED BY <2>1, <3>4, <3>5
  <2> QED BY <2>4, <2>5
<1>6. DebtsRecorded'
  BY <1>3, <1>5 DEF DebtsRecorded
<1> QED BY <1>4, <1>6 DEF Owed
LEMMA CommitOwed ==
  ASSUME Typed, Typed', Owed, NEW r \in ResIds, Commit(r)
  PROVE  Owed'
<1>1. PICK cost \in Amounts \cup {0}, sub \in Amounts \cup {0} : CommitWon(r, cost, sub)
  BY DEF Commit
<1> DEFINE u == ResUser[r]
           n == Len(receivables)
           actual == SettledCost(res[r], cost)
           new == BalanceAfterCommit(balance[u], res[r].balanceAmount, actual - sub)
           debt == Overdue(balance[u], new)
<1>2. /\ u \in Users /\ res[r].status = "reserved"
      /\ balance[u] \in Int /\ new \in Int /\ n \in Nat
  BY <1>1, CommitFacts, ReceivableType
<1>3. /\ res' = [res EXCEPT ![r].status = "committed", ![r].actualCost = actual]
      /\ balance' = [balance EXCEPT ![u] = new]
      /\ RecordReceivable(r, u, balance[u], new)
  BY <1>1 DEF CommitWon
<1>4. \A q \in ResIds : res'[q].status = IF q = r THEN "committed" ELSE res[q].status
  BY <1>3 DEF Typed, TypeOK, Row
<1>5. \A v \in Users : balance'[v] = IF v = u THEN new ELSE balance[v]
  BY <1>3 DEF Typed, TypeOK
<1>6. \A i \in 1..n : /\ receivables[i].id \in ResIds
                      /\ res[receivables[i].id].status = "committed"
                      /\ receivables[i].id # r
  BY <1>2, ReceivableType DEF Receivable, Owed, ReceivablePerReservation
<1>7. debt = Positive(-new) - Positive(-balance[u])
  BY DEF Overdue
<1>8. CASE debt > 0
  <2> DEFINE row == [id |-> r, user |-> u, overdue |-> debt, settled |-> 0]
  <2>1. receivables' = Append(receivables, row)
    BY <1>3, <1>6, <1>8 DEF RecordReceivable
  <2>2. /\ Len(receivables') = n + 1
        /\ \A i \in 1..n : receivables'[i] = receivables[i]
        /\ receivables'[n + 1] = row
    <3>1. receivables \in Seq(Receivable)
      BY DEF Typed, TypeOK
    <3> HIDE DEF row
    <3> QED BY <2>1, <3>1
  <2>3. ReceivablePerReservation'
    <3>1. ASSUME NEW i \in 1..(n+1)
          PROVE  res'[receivables'[i].id].status = "committed"
      BY <1>2, <1>4, <1>6, <2>2
    <3>2. ASSUME NEW i \in 1..(n+1), NEW j \in 1..(n+1), receivables'[i].id = receivables'[j].id
          PROVE  i = j
      <4>1. row.id = r
        OBVIOUS
      <4> HIDE DEF row
      <4>2. CASE i \in 1..n /\ j \in 1..n
        BY <2>2, <3>2, <4>2 DEF Owed, ReceivablePerReservation
      <4>3. CASE i = n + 1 \/ j = n + 1
        BY <1>2, <1>6, <2>2, <3>2, <4>1, <4>3
      <4> QED BY <1>2, <4>2, <4>3
    <3> QED BY <2>2, <3>1, <3>2 DEF ReceivablePerReservation
  <2>4. ASSUME NEW v \in Users
        PROVE  Total(Outstanding(v)', n + 1) >= Positive(-balance'[v])
    <3>1. \A i \in 1..n : Outstanding(v)'[i] = Outstanding(v)[i] /\ Outstanding(v)[i] \in Int
      BY <1>2, <2>2, OutstandingType DEF Outstanding
    <3>2. debt \in Nat
      BY <1>2, <1>7, <1>8 DEF Positive
    <3>3. Outstanding(v)'[n + 1] = IF v = u THEN debt ELSE 0
      <4>1. row.user = u /\ row.overdue - row.settled = debt
        BY <3>2
      <4> HIDE DEF row
      <4> QED BY <1>2, <2>2, <4>1 DEF Outstanding
    <3>4. Outstanding(v)'[n + 1] \in Int
      BY <3>2, <3>3
    <3>5. Total(Outstanding(v)', n + 1) = Total(Outstanding(v), n) + Outstanding(v)'[n + 1]
      BY <1>2, <3>1, <3>4, TotalAppend
    <3>6. /\ Total(Outstanding(v), n) >= Positive(-balance[v])
          /\ balance[v] \in Int /\ Total(Outstanding(v), n) \in Int
      BY DebtTypes DEF Owed, DebtsRecorded
    <3> HIDE DEF debt, u, new, n
    <3>7. CASE v = u
      <4>1. Total(Outstanding(v)', n + 1) = Total(Outstanding(v), n) + debt
        BY <3>3, <3>5, <3>7
      <4>2. balance'[v] = new
        BY <1>5, <3>7
      <4> QED BY <1>2, <1>7, <3>6, <3>7, <4>1, <4>2 DEF Positive
    <3>8. CASE v # u
      <4>1. Total(Outstanding(v)', n + 1) = Total(Outstanding(v), n)
        BY <3>3, <3>5, <3>6, <3>8
      <4>2. balance'[v] = balance[v]
        BY <1>5, <3>8
      <4> QED BY <3>6, <4>1, <4>2
    <3> QED BY <3>7, <3>8
  <2>5. DebtsRecorded'
    BY <2>2, <2>4 DEF DebtsRecorded
  <2> QED BY <2>3, <2>5 DEF Owed
<1>9. CASE ~ (debt > 0)
  <2>1. UNCHANGED receivables
    BY <1>3, <1>9 DEF RecordReceivable
  <2>2. Positive(-new) <= Positive(-balance[u])
    BY <1>2, <1>7, <1>9 DEF Positive
  <2>3. new >= balance[u] \/ new >= 0
    BY <1>2, <2>2 DEF Positive
  <2>4. \A v \in Users : balance'[v] >= balance[v] \/ balance'[v] >= 0
    <3> HIDE DEF u, new
    <3> QED BY <1>2, <1>5, <2>3, DebtTypes
  <2>5. \A q \in ResIds : res[q].status = "committed" => res'[q].status = "committed"
    BY <1>4
  <2> QED BY <2>1, <2>4, <2>5, OwedKept
<1> QED BY <1>8, <1>9

LEMMA StepOwed ==
  ASSUME Typed, Typed', Owed, [Next]_vars
  PROVE  Owed'
<1>1. CASE \E r \in ResIds : Reserve(r) \/ Commit(r)
  BY <1>1, ReserveOwed, CommitOwed
<1>2. CASE \E r \in ResIds, final \in {"released", "expired"}, answers \in SUBSET {Dismissed} :
             ReleaseReservation(r, final, answers)
  BY <1>2, ReleaseOwed
<1>3. CASE \E o \in OpIds, amount \in Nat :
             amount > 0 /\ (TopUpQuota(o, amount) \/ PurchaseSubscription(o, amount))
  BY <1>3, TopUpOwed, PurchaseOwed
<1>4. CASE \E o \in OpIds, target \in Nat, expected \in Int : ResetBalance(o, target, expected)
  BY <1>4, ResetOwed
<1>5. CASE UNCHANGED <<balance, res, receivables>>
  <2>1. \A v \in Users : balance'[v] >= balance[v] \/ balance'[v] >= 0
    BY <1>5, DebtTypes
  <2> QED BY <1>5, <2>1, OwedKept
<1>6. CASE UNCHANGED vars
  BY <1>6, <1>5 DEF vars
<1>7. CASE \E r \in ResIds : Replayed(r)
  BY <1>7, <1>5 DEF Replayed, Answer, walletVars
<1> QED BY <1>1, <1>2, <1>3, <1>4, <1>6, <1>7, StepCases

LEMMA AlwaysOwed == Spec => []Owed
<1>1. Init => Owed
  BY InitOwed
<1>2. Typed /\ Typed' /\ Owed /\ [Next]_vars => Owed'
  BY StepOwed
<1> QED BY <1>1, <1>2, AlwaysTyped, PTL DEF Spec

\* What a wallet is below zero is owed by pending receivables: no overdraft is
\* forgotten by the commit that makes it or by the recharges that settle it.
THEOREM DebtIsRecorded == Spec => []DebtIsReceivable
<1>1. Typed /\ Owed => DebtIsReceivable
  <2> SUFFICES ASSUME Typed, Owed, NEW v \in Users
               PROVE  Total(Outstanding(v), Len(receivables)) >= -balance[v]
    BY DEF DebtIsReceivable
  <2>1. Total(Outstanding(v), Len(receivables)) >= Positive(-balance[v])
    BY DEF Owed, DebtsRecorded
  <2> QED BY <2>1, DebtTypes DEF Positive
<1> QED BY <1>1, AlwaysTyped, AlwaysOwed, PTL

\* A reservation makes at most one receivable, and only once it is committed.
THEOREM OneReceivable == Spec => []ReceivablePerReservation
<1>1. Owed => ReceivablePerReservation
  BY DEF Owed
<1> QED BY <1>1, AlwaysOwed, PTL

-----------------------------------------------------------------------------
\* No step takes the wallet of a user who may not overdraw below zero.
LEMMA StepBlocked ==
  ASSUME Typed, BlockedNeverNegative, [Next]_vars
  PROVE  BlockedNeverNegative'
<1> SUFFICES ASSUME NEW b \in BlockOverdraft PROVE balance'[b] >= 0
  BY DEF BlockedNeverNegative
<1>1. b \in Users /\ balance[b] \in Int /\ balance[b] >= 0
  BY MoneyAssumption DEF Typed, TypeOK, BlockedNeverNegative
<1>2. ASSUME NEW r \in ResIds, Reserve(r) PROVE balance'[b] >= 0
  <2>1. PICK cost \in Amounts, sub \in Amounts \cup {0}, p \in Profiles :
          ReserveQuota(r, cost, sub, p.mode, p.intent)
    BY <1>2 DEF Reserve
  <2> DEFINE held == cost - sub
  <2>2. /\ held = 0 \/ balance[ResUser[r]] >= held
        /\ balance' = [balance EXCEPT ![ResUser[r]] = @ - held]
    BY <2>1 DEF ReserveQuota, CanReserve
  <2>3. held \in Int
    BY Money
  <2>4. balance'[b] = IF b = ResUser[r] THEN balance[b] - held ELSE balance[b]
    BY <1>1, <2>2 DEF Typed, TypeOK
  <2> HIDE DEF held
  <2> QED BY <1>1, <2>2, <2>3, <2>4
<1>3. ASSUME NEW r \in ResIds, Commit(r) PROVE balance'[b] >= 0
  <2>1. PICK cost \in Amounts \cup {0}, sub \in Amounts \cup {0} : CommitWon(r, cost, sub)
    BY <1>3 DEF Commit
  <2> DEFINE held == res[r].balanceAmount
             bal == SettledCost(res[r], cost) - sub
  <2>2. held \in Nat /\ bal \in Nat
    BY <2>1, CommitFacts DEF Row
  <2>3. /\ \/ held = 0 /\ bal = 0
           \/ ResUser[r] \notin BlockOverdraft
           \/ balance[ResUser[r]] + held - bal >= 0
        /\ balance' = [balance EXCEPT ![ResUser[r]] = balance[ResUser[r]] + held - bal]
    BY <2>1 DEF CommitWon, CommitAllowed, BalanceAfterCommit
  <2>4. balance'[b] = IF b = ResUser[r] THEN balance[b] + held - bal ELSE balance[b]
    BY <1>1, <2>3 DEF Typed, TypeOK
  <2> HIDE DEF held, bal
  <2> QED BY <1>1, <2>2, <2>3, <2>4
<1>4. ASSUME NEW r \in ResIds, NEW final \in {"released", "expired"},
             NEW answers, ReleaseReservation(r, final, answers)
      PROVE  balance'[b] >= 0
  <2> DEFINE held == res[r].balanceAmount
  <2>1. held \in Nat
    BY DEF Typed, TypeOK, Row
  <2>2. balance'[b] = IF b = ResUser[r] THEN balance[b] + held ELSE balance[b]
    BY <1>1, <1>4 DEF ReleaseReservation, Typed, TypeOK
  <2> HIDE DEF held
  <2> QED BY <1>1, <2>1, <2>2
<1>5. ASSUME NEW o \in OpIds, NEW amount \in Nat,
             TopUpQuota(o, amount) \/ PurchaseSubscription(o, amount)
      PROVE  balance'[b] >= 0
  <2>1. CASE TopUpQuota(o, amount)
    <3>1. balance'[b] = IF b = OpUser[o] THEN balance[b] + amount ELSE balance[b]
      BY <1>1, <2>1 DEF TopUpQuota, Typed, TypeOK
    <3> QED BY <1>1, <3>1
  <2>2. CASE PurchaseSubscription(o, amount)
    <3>1. /\ balance[OpUser[o]] >= amount
          /\ balance'[b] = IF b = OpUser[o] THEN balance[b] - amount ELSE balance[b]
      BY <1>1, <2>2 DEF PurchaseSubscription, Typed, TypeOK
    <3> QED BY <1>1, <3>1
  <2> QED BY <1>5, <2>1, <2>2
<1>6. ASSUME NEW o \in OpIds, NEW target \in Nat, NEW expected \in Int,
             ResetBalance(o, target, expected)
      PROVE  balance'[b] >= 0
  <2>1. balance'[b] = IF b = OpUser[o] THEN target ELSE balance[b]
    BY <1>1, <1>6 DEF ResetBalance, Typed, TypeOK
  <2> QED BY <1>1, <2>1
<1>7. CASE UNCHANGED balance
  BY <1>1, <1>7
<1>8. CASE UNCHANGED vars
  BY <1>7, <1>8 DEF vars
<1>9. CASE \E r \in ResIds : Replayed(r)
  BY <1>7, <1>9 DEF Replayed, Answer, walletVars
<1> QED BY <1>2, <1>3, <1>4, <1>5, <1>6, <1>8, <1>9, StepCases

\* A user who may not overdraw never has a negative wallet, though commits
\* charge the actual cost of a request admitted on its estimate.
THEOREM BlockedStaysPositive == Spec => []BlockedNeverNegative
<1>1. Init => BlockedNeverNegative
  BY MoneyAssumption DEF Init, BlockedNeverNegative
<1>2. Typed /\ BlockedNeverNegative /\ [Next]_vars => BlockedNeverNegative'
  BY StepBlocked
<1> QED BY <1>1, <1>2, AlwaysTyped, PTL DEF Spec
-----------------------------------------------------------------------------
\* The rows of one subscription_only request hold nothing of the wallet.
Spared(r) == res[r].mode = "subscription_only" =>
               res[r].balanceAmount = 0 /\ consumed[r].bal = 0 /\ refunded[r] = 0

LEMMA StepSpared ==
  ASSUME Typed, Settled, [Next]_vars, NEW q \in ResIds, Spared(q)
  PROVE  Spared(q)'
<1>1. CASE /\ res'[q] = res[q] /\ consumed'[q] = consumed[q] /\ refunded'[q] = refunded[q]
  BY <1>1 DEF Spared
<1>2. ASSUME NEW r \in ResIds, Reserve(r) PROVE Spared(q)'
  <2>1. PICK cost \in Amounts, sub \in Amounts \cup {0}, p \in Profiles :
          ReserveQuota(r, cost, sub, p.mode, p.intent)
    BY <1>2 DEF Reserve
  <2> DEFINE row == [status |-> "reserved", mode |-> p.mode, intent |-> p.intent,
                     amount |-> cost, balanceAmount |-> cost - sub, actualCost |-> 0]
  <2>2. /\ res[r].status = "none"
        /\ p.mode = "subscription_only" => cost - sub = 0
        /\ res' = [res EXCEPT ![r] = row]
        /\ UNCHANGED <<consumed, refunded>>
    BY <2>1 DEF ReserveQuota, Vacant, ledgerVars
  <2>3. CASE q = r
    <3>1. res'[q] = row
      BY <2>2, <2>3 DEF Typed, TypeOK
    <3>2. Charge(q) = 0 /\ refunded[q] = 0
      BY <2>2, <2>3 DEF Settled, RowSettled
    <3>3. consumed[q].bal = 0
      BY <3>2 DEF Charge, Typed, TypeOK
    <3> QED BY <2>2, <3>1, <3>2, <3>3 DEF Spared
  <2>4. CASE q # r
    BY <1>1, <2>2, <2>4
  <2> QED BY <2>3, <2>4
<1>3. ASSUME NEW r \in ResIds, Commit(r) PROVE Spared(q)'
  <2>1. PICK cost \in Amounts \cup {0}, sub \in Amounts \cup {0} : CommitWon(r, cost, sub)
    BY <1>3 DEF Commit
  <2> DEFINE actual == SettledCost(res[r], cost)
  <2>2. /\ res[r].mode = "subscription_only" => actual - sub = 0
        /\ res' = [res EXCEPT ![r].status = "committed", ![r].actualCost = actual]
        /\ consumed' = [consumed EXCEPT ![r] = [sub |-> sub, bal |-> actual - sub]]
        /\ UNCHANGED refunded
    BY <2>1 DEF CommitWon, WithinBound
  <2> HIDE DEF actual
  <2>3. CASE q = r
    <3>1. /\ res'[q].mode = res[q].mode
          /\ res'[q].balanceAmount = res[q].balanceAmount
          /\ consumed'[q].bal = actual - sub
      BY <2>2, <2>3 DEF Typed, TypeOK, Row
    <3> QED BY <2>2, <2>3, <3>1 DEF Spared
  <2>4. CASE q # r
    <3>1. /\ res'[q] = res[q] /\ consumed'[q] = consumed[q]
          /\ refunded'[q] = refunded[q]
      BY <2>2, <2>4 DEF Typed, TypeOK
    <3> QED BY <1>1, <3>1
  <2> QED BY <2>3, <2>4
<1>4. ASSUME NEW r \in ResIds, NEW final \in {"released", "expired"},
             NEW answers, ReleaseReservation(r, final, answers)
      PROVE  Spared(q)'
  <2>1. /\ res' = [res EXCEPT ![r].status = final]
        /\ refunded' = [refunded EXCEPT ![r] = res[r].balanceAmount]
        /\ UNCHANGED consumed
    BY <1>4 DEF ReleaseReservation
  <2>2. CASE q = r
    <3>1. /\ res'[q].mode = res[q].mode
          /\ res'[q].balanceAmount = res[q].balanceAmount
          /\ refunded'[q] = res[q].balanceAmount
      BY <2>1, <2>2 DEF Typed, TypeOK, Row
    <3> QED BY <2>1, <2>2, <3>1 DEF Spared
  <2>3. CASE q # r
    <3>1. res'[q] = res[q] /\ refunded'[q] = refunded[q]
      BY <2>1, <2>3 DEF Typed, TypeOK
    <3> QED BY <1>1, <2>1, <3>1
  <2> QED BY <2>2, <2>3
<1>5. CASE UNCHANGED <<res, consumed, refunded>>
  BY <1>1, <1>5
<1>6. CASE \E o \in OpIds, amount \in Nat :
             amount > 0 /\ (TopUpQuota(o, amount) \/ PurchaseSubscription(o, amount))
  BY <1>5, <1>6 DEF TopUpQuota, PurchaseSubscription
<1>7. CASE \E o \in OpIds, target \in Nat, expected \in Int : ResetBalance(o, target, expected)
  BY <1>5, <1>7 DEF ResetBalance
<1>8. CASE \E r \in ResIds : Replayed(r)
  BY <1>5, <1>8 DEF Replayed, Answer, ledgerVars
<1>9. CASE UNCHANGED vars
  BY <1>5, <1>9 DEF vars
<1> QED BY <1>2, <1>3, <1>4, <1>6, <1>7, <1>8, <1>9, StepCases

\* A request routed to a subscription_only group never touches the wallet.
THEOREM SubscriptionOnlyIsSpared == Spec => []SubscriptionOnlySparesWallet
<1>1. Init => SubscriptionOnlySparesWallet
  BY DEF Init, SubscriptionOnlySparesWallet, NoRow
<1>2. Typed /\ Settled /\ SubscriptionOnlySparesWallet /\ [Next]_vars
        => SubscriptionOnlySparesWallet'
  BY StepSpared DEF SubscriptionOnlySparesWallet, Spared
<1> QED BY <1>1, <1>2, AlwaysTyped, AlwaysSettled, PTL DEF Spec
=============================================================================
