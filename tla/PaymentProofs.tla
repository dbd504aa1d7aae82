--------------------------- MODULE PaymentProofs ---------------------------
(***************************************************************************)
(* Proofs about Payment for every finite set of orders, every set of       *)
(* callers, any batch size of the job and any number of calls and faults.  *)
(***************************************************************************)
EXTENDS Payment, SumLemmas, FiniteSetTheorems, SequenceTheorems, TLAPS

-----------------------------------------------------------------------------
(* Type correctness. *)

\* What the control state of a call says about its order, and what the job does.
CallOK(p, c) ==
  /\ c.pc = "idle" => c = Idle
  /\ c.pc # "idle" => c.order \in Orders
  /\ c.pc \in {"claim", "claiming", "prepaying"} \/ c.kind = "reuse" => c.order \in Wechat
  /\ p = Job => /\ c.pc \in {"idle", "query", "close", "requery", "apply"}
                /\ c.kind \in {"none", "job"}

Working == \A p \in Procs : CallOK(p, loc[p])

Typed == RowsOK /\ ProviderOK /\ CallsOK /\ Working

LEMMA Constants ==
  /\ Orders \subseteq Nat /\ 0 \notin Orders /\ IsFiniteSet(Orders)
  /\ Wechat \subseteq Orders
  /\ Subscription \subseteq Orders /\ Subscription \cap Wechat = {}
  /\ Job \notin Callers /\ Job \in Procs /\ Callers \subseteq Procs
  /\ Limit \in Nat /\ Limit > 0
  /\ MaxFaults \in Nat
BY PaymentAssumption DEF Procs

\* The URL of a call is a token; "" is not one.
LEMMA NoTokenIsNone == NoToken \notin Token
BY DEF NoToken, Token

LEMMA TokenOfCall ==
  ASSUME Typed, NEW p \in Callers
  PROVE  MyToken(p) \in Token
<1>1. MaxCalls[p] \in Nat /\ calls[p] \in 0..MaxCalls[p]
  BY PaymentAssumption DEF Typed, CallsOK
<1> QED BY <1>1 DEF Token, MyToken

\* A finite nonempty set of naturals has a largest element.
LEMMA LargestIn ==
  ASSUME NEW S \in SUBSET Nat, IsFiniteSet(S), S # {}
  PROVE  Largest(S) \in S
<1>1. PICK n \in Nat : ExistsSurjection(1..n, S)
  BY FS_NatSurjection
<1>2. PICK f \in Surjection(1..n, S) : TRUE
  BY <1>1 DEF ExistsSurjection
<1>3. f \in [1..n -> S] /\ \A x \in S : \E i \in 1..n : f[i] = x
  BY <1>2 DEF Surjection
<1>a. \A i \in 1..n : f[i] \in S /\ f[i] \in Nat
  BY <1>3
\* f[1], ..., f[m] have a largest
<1> DEFINE Tops(m) == \E k \in 1..m : \A i \in 1..m : f[i] <= f[k]
           Bad == {m \in 1..n : ~ Tops(m)}
<1>4. Bad = {}
  <2> SUFFICES ASSUME Bad # {} PROVE FALSE
    OBVIOUS
  <2>1. PICK m \in Bad : \A y \in Bad : m <= y
    <3>1. Bad \in SUBSET Nat
      OBVIOUS
    <3> HIDE DEF Bad
    <3> QED BY <3>1, LeastNatural
  <2>2. m \in 1..n /\ ~ Tops(m)
    BY <2>1
  <2>3. m # 1
    <3> SUFFICES ASSUME m = 1 PROVE Tops(m)
      BY <2>2
    <3>1. \A i \in 1..1 : f[i] <= f[1]
      BY <1>a, <2>2
    <3> QED BY <3>1
  <2>4. m - 1 \in 1..n /\ Tops(m - 1)
    <3>1. m - 1 \in 1..n /\ m - 1 \notin Bad
      <4> HIDE DEF Tops
      <4> QED BY <2>1, <2>2, <2>3
    <3> HIDE DEF Tops
    <3> QED BY <3>1
  <2>5. PICK k \in 1..(m-1) : \A i \in 1..(m-1) : f[i] <= f[k]
    BY <2>4
  <2> HIDE DEF Tops, Bad
  <2>6. f[k] \in Nat /\ f[m] \in Nat /\ k \in 1..m /\ m \in 1..m
    BY <1>a, <2>2, <2>5
  <2>7. \A i \in 1..m : f[i] <= f[k] \/ i = m
    <3> SUFFICES ASSUME NEW i \in 1..m, i # m PROVE f[i] <= f[k]
      OBVIOUS
    <3>1. i \in 1..(m-1)
      BY <2>2
    <3> QED BY <2>5, <3>1
  <2>8. CASE f[m] <= f[k]
    <3>1. \A i \in 1..m : f[i] <= f[k]
      BY <2>7, <2>8
    <3> QED BY <2>2, <2>6, <3>1 DEF Tops
  <2>9. CASE f[k] < f[m]
    <3>1. \A i \in 1..m : f[i] <= f[m]
      <4> SUFFICES ASSUME NEW i \in 1..m PROVE f[i] <= f[m]
        OBVIOUS
      <4>1. i \in 1..n /\ f[i] \in Nat
        BY <1>a, <2>2
      <4> QED BY <2>6, <2>7, <2>9, <4>1
    <3> QED BY <2>2, <2>6, <3>1 DEF Tops
  <2>10. \A x, y \in Nat : x <= y \/ y < x
    OBVIOUS
  <2> QED BY <2>6, <2>8, <2>9, <2>10
<1>5. Tops(n)
  <2> HIDE DEF Tops, Bad
  <2>1. PICK x \in S, i \in 1..n : f[i] = x
    BY <1>3
  <2>2. n \in 1..n
    BY <2>1
  <2> USE DEF Bad
  <2> QED BY <1>4, <2>2
<1>6. PICK k \in 1..n : \A i \in 1..n : f[i] <= f[k]
  BY <1>5
<1>7. f[k] \in S /\ \A x \in S : x <= f[k]
  BY <1>3, <1>6
<1> QED BY <1>7 DEF Largest

\* A call goes on to c, and the others stay as they are.
LEMMA CallMoves ==
  ASSUME Typed, NEW p \in Procs, NEW c \in Call, CallOK(p, c),
         loc' = [loc EXCEPT ![p] = c]
  PROVE  loc' \in [Procs -> Call] /\ Working'
<1>1. loc \in [Procs -> Call]
  BY DEF Typed, CallsOK
<1>2. loc' \in [Procs -> Call]
  BY <1>1
<1>3. ASSUME NEW q \in Procs PROVE CallOK(q, loc'[q])
  BY <1>1 DEF Typed, Working
<1> QED BY <1>2, <1>3 DEF Working, CallOK

LEMMA IdleOK ==
  /\ Idle \in Call
  /\ \A p \in Procs : CallOK(p, Idle)
BY DEF Idle, Call, CallOK, Controls, Tokens, Answers

\* A call under way has an order.
LEMMA OrderOf ==
  ASSUME Typed, NEW p \in Procs, loc[p].pc # "idle"
  PROVE  /\ Order(p) \in Orders /\ loc[p] \in Call /\ CallOK(p, loc[p])
         /\ p = Job => loc[p].pc \in {"query", "close", "requery", "apply"}
BY DEF Typed, CallsOK, Working, CallOK, Order

LEMMA CallGoesTo ==
  ASSUME Typed, NEW p \in Procs, NEW pc \in Controls \ {"idle"}, Goto(p, pc),
         loc[p].pc # "idle",
         pc \in {"claim", "claiming", "prepaying"} => Order(p) \in Wechat,
         p = Job => pc \in {"query", "close", "requery", "apply"}
  PROVE  loc' \in [Procs -> Call] /\ Working'
<1> DEFINE c == [loc[p] EXCEPT !.pc = pc]
<1>1. loc[p] \in Call /\ CallOK(p, loc[p]) /\ Order(p) \in Orders
  BY OrderOf
<1>2. c \in Call /\ CallOK(p, c)
  BY <1>1 DEF Call, CallOK, Order
<1>3. loc' = [loc EXCEPT ![p] = c]
  BY DEF Goto
<1> HIDE DEF c
<1> QED BY <1>2, <1>3, CallMoves

LEMMA GivenTyped ==
  ASSUME Typed, NEW o \in Orders, NEW url \in Tokens
  PROVE  Given(o, url) \in [Orders -> SUBSET Token]
<1>1. handed \in [Orders -> SUBSET Token]
  BY DEF Typed, ProviderOK
<1>2. url = NoToken \/ url \in Token
  BY DEF Tokens
<1> QED BY <1>1, <1>2 DEF Given

LEMMA CallReturns ==
  ASSUME Typed, NEW p \in Procs, loc[p].pc # "idle", NEW url \in Tokens, Return(p, url)
  PROVE  /\ loc' \in [Procs -> Call] /\ Working'
         /\ handed' \in [Orders -> SUBSET Token]
<1>1. loc' \in [Procs -> Call] /\ Working'
  BY IdleOK, CallMoves DEF Return
<1>2. handed' \in [Orders -> SUBSET Token]
  <2>1. handed \in [Orders -> SUBSET Token]
    BY DEF Typed, ProviderOK
  <2> QED BY <2>1, OrderOf, GivenTyped DEF Return
<1> QED BY <1>1, <1>2

\* What the tables hold of an order.
LEMMA RowOf ==
  ASSUME Typed, NEW o \in Orders
  PROVE  /\ row[o] \in [status : Statuses, url : Tokens, claim : Tokens,
                        live : BOOLEAN, sub : Nat]
         /\ row[o].status \in Statuses /\ row[o].url \in Tokens
         /\ row[o].claim \in Tokens /\ row[o].sub \in Nat
         /\ prov[o] \in {"unknown", "unpaid", "paid", "closed"}
BY DEF Typed, RowsOK, ProviderOK

LEMMA CallReuses ==
  ASSUME Typed, NEW p \in Callers, NEW o \in Orders, Reuse(p, o)
  PROVE  /\ loc' \in [Procs -> Call] /\ Working'
         /\ handed' \in [Orders -> SUBSET Token]
<1>1. p \in Procs /\ p # Job
  BY Constants
<1>2. CASE o \in Wechat /\ row[o].status = "pending" /\ row[o].url = NoToken
  <2> DEFINE c == [Idle EXCEPT !.pc = "query", !.kind = "reuse", !.order = o]
  <2>1. c \in Call /\ CallOK(p, c)
    BY <1>1, <1>2 DEF Idle, Call, CallOK, Controls, Tokens, Answers
  <2>2. loc' = [loc EXCEPT ![p] = c] /\ UNCHANGED handed
    BY <1>2 DEF Reuse
  <2> HIDE DEF c
  <2> QED BY <1>1, <2>1, <2>2, CallMoves DEF Typed, ProviderOK
<1>3. CASE ~(o \in Wechat /\ row[o].status = "pending" /\ row[o].url = NoToken)
  <2>1. loc' = [loc EXCEPT ![p] = Idle] /\ handed' = Given(o, row[o].url)
    BY <1>3 DEF Reuse
  <2> QED BY <1>1, <2>1, IdleOK, CallMoves, RowOf, GivenTyped
<1> QED BY <1>2, <1>3

\* A row is replaced by another of its type.
LEMMA RowChanges ==
  ASSUME Typed, NEW o \in Orders,
         NEW r \in [status : Statuses, url : Tokens, claim : Tokens, live : BOOLEAN, sub : Nat],
         row' = [row EXCEPT ![o] = r], UNCHANGED ledger
  PROVE  RowsOK'
<1>1. RowsOK
  BY DEF Typed
<1> QED BY <1>1 DEF RowsOK, ledger

LEMMA InsertRows ==
  ASSUME Typed, NEW p \in Callers, Insert(p)
  PROVE  RowsOK'
<1>1. Order(p) \in Orders
  BY OrderOf, Constants DEF Insert, At
<1>2. CASE Exists(Order(p))
  BY <1>2 DEF Insert, Typed, RowsOK, ledger
<1>3. CASE ~Exists(Order(p))
  <2>1. row' = [row EXCEPT ![Order(p)] = NewRow] /\ UNCHANGED ledger
    BY <1>3 DEF Insert
  <2>2. NewRow \in [status : Statuses, url : Tokens, claim : Tokens, live : BOOLEAN, sub : Nat]
    BY DEF NewRow, NoRow, Statuses, Tokens
  <2> QED BY <1>1, <2>1, <2>2, RowChanges
<1> QED BY <1>2, <1>3

LEMMA ClaimWriteRows ==
  ASSUME Typed, NEW p \in Callers, ClaimWrite(p)
  PROVE  RowsOK'
<1>1. Order(p) \in Orders /\ MyToken(p) \in Tokens
  BY OrderOf, TokenOfCall, Constants DEF ClaimWrite, At, Tokens
<1> DEFINE r == [row[Order(p)] EXCEPT !.claim = MyToken(p), !.live = TRUE]
<1>2. r \in [status : Statuses, url : Tokens, claim : Tokens, live : BOOLEAN, sub : Nat]
  BY <1>1, RowOf
<1>3. UNCHANGED ledger /\ (UNCHANGED row \/ row' = [row EXCEPT ![Order(p)] = r])
  BY DEF ClaimWrite
<1> HIDE DEF r
<1>4. CASE UNCHANGED row
  BY <1>3, <1>4 DEF Typed, RowsOK, ledger
<1> QED BY <1>1, <1>2, <1>3, <1>4, RowChanges

LEMMA PrepayRows ==
  ASSUME Typed, NEW p \in Callers, Prepay(p)
  PROVE  RowsOK'
<1>1. Order(p) \in Orders
  BY OrderOf, Constants DEF Prepay, At
<1>2. NoRow \in [status : Statuses, url : Tokens, claim : Tokens, live : BOOLEAN, sub : Nat]
  BY DEF NoRow, Statuses, Tokens
<1>3. UNCHANGED ledger /\ (UNCHANGED row \/ row' = [row EXCEPT ![Order(p)] = NoRow])
  BY DEF Prepay
<1>4. CASE UNCHANGED row
  BY <1>3, <1>4 DEF Typed, RowsOK, ledger
<1> QED BY <1>1, <1>2, <1>3, <1>4, RowChanges

LEMMA AttachRows ==
  ASSUME Typed, NEW p \in Callers, Attach(p)
  PROVE  RowsOK'
<1>1. Order(p) \in Orders /\ MyToken(p) \in Tokens
  BY OrderOf, TokenOfCall, Constants DEF Attach, At, Tokens
<1> DEFINE r == [row[Order(p)] EXCEPT !.url = MyToken(p), !.claim = NoToken, !.live = FALSE]
<1>2. r \in [status : Statuses, url : Tokens, claim : Tokens, live : BOOLEAN, sub : Nat]
  BY <1>1, RowOf DEF Tokens
<1>3. UNCHANGED ledger /\ (UNCHANGED row \/ row' = [row EXCEPT ![Order(p)] = r])
  BY DEF Attach
<1> HIDE DEF r
<1>4. CASE UNCHANGED row
  BY <1>3, <1>4 DEF Typed, RowsOK, ledger
<1> QED BY <1>1, <1>2, <1>3, <1>4, RowChanges

\* What an issue into a subscription does to the table.
LEMMA SubscriptionTypes ==
  ASSUME Typed
  PROVE  /\ subs \in Seq(SubscriptionRow) /\ Len(subs) \in Nat
         /\ DOMAIN subs = 1..Len(subs)
         /\ \A s \in DOMAIN subs :
              /\ subs[s] \in SubscriptionRow
              /\ subs[s].terms \in [Subscription -> Nat]
              /\ subs[s].status \in {"active", "expired", "revoked"}
<1>1. subs \in Seq(SubscriptionRow)
  BY DEF Typed, RowsOK
<1>2. \A s \in DOMAIN subs : subs[s] \in SubscriptionRow
  BY <1>1
<1> QED BY <1>1, <1>2 DEF SubscriptionRow

\* The three kinds of writes to the table of subscriptions.
LEMMA SubscriptionWritten ==
  ASSUME Typed, NEW s \in DOMAIN subs, NEW x \in SubscriptionRow, subs' = [subs EXCEPT ![s] = x]
  PROVE  subs' \in Seq(SubscriptionRow) /\ Len(subs') = Len(subs)
BY SubscriptionTypes

\* A subscription with a column replaced.
LEMMA TermsReplaced ==
  ASSUME NEW x \in SubscriptionRow, NEW o \in Subscription, NEW n \in Nat
  PROVE  /\ [x EXCEPT !.terms[o] = n] \in SubscriptionRow
         /\ [x EXCEPT !.terms[o] = n].status = x.status
         /\ [x EXCEPT !.terms[o] = n].terms = [x.terms EXCEPT ![o] = n]
BY DEF SubscriptionRow

LEMMA StatusReplaced ==
  ASSUME NEW x \in SubscriptionRow, NEW v \in {"active", "expired", "revoked"}
  PROVE  /\ [x EXCEPT !.status = v] \in SubscriptionRow
         /\ [x EXCEPT !.status = v].status = v
         /\ [x EXCEPT !.status = v].terms = x.terms
BY DEF SubscriptionRow

\* A row stamped with a subscription.
LEMMA RowStamped ==
  ASSUME Typed, NEW o \in Orders, NEW s \in Nat
  PROVE  [row[o] EXCEPT !.status = "paid", !.sub = s]
           \in [status : Statuses, url : Tokens, claim : Tokens, live : BOOLEAN, sub : Nat]
<1>1. row[o] \in [status : Statuses, url : Tokens, claim : Tokens, live : BOOLEAN, sub : Nat]
  BY RowOf
<1>2. "paid" \in Statuses
  BY DEF Statuses
<1> QED BY <1>1, <1>2

LEMMA AssignRows ==
  ASSUME Typed, NEW o \in Subscription, Assign(o), UNCHANGED <<topups, refunds>>
  PROVE  RowsOK'
<1>1. o \in Orders
  BY Constants
<1>2. row' \in [Orders -> [status : Statuses, url : Tokens, claim : Tokens,
                           live : BOOLEAN, sub : Nat]]
      /\ subs' \in Seq(SubscriptionRow)
  <2>1. CASE Active = {}
    <3> DEFINE x == [group |-> Group[o], status |-> "active",
                     terms |-> [NoTerms EXCEPT ![o] = 1]]
               r == [row[o] EXCEPT !.status = "paid", !.sub = Len(subs) + 1]
    <3>1. x \in SubscriptionRow
      BY DEF SubscriptionRow, NoTerms
    <3>2. r \in [status : Statuses, url : Tokens, claim : Tokens, live : BOOLEAN, sub : Nat]
      <4>1. Len(subs) + 1 \in Nat
        BY SubscriptionTypes
      <4> QED BY <1>1, <4>1, RowStamped, Zenon
    <3>3. subs' = Append(subs, x) /\ row' = [row EXCEPT ![o] = r]
      BY <2>1 DEF Assign
    <3> HIDE DEF x, r
    <3> QED BY <1>1, <3>1, <3>2, <3>3, SubscriptionTypes DEF Typed, RowsOK
  <2>2. CASE Active # {}
    <3>1. PICK s \in Active :
            /\ subs' = [subs EXCEPT ![s].terms[o] = @ + 1]
            /\ row' = [row EXCEPT ![o].status = "paid", ![o].sub = s]
      BY <2>2 DEF Assign
    <3> DEFINE x == [subs[s] EXCEPT !.terms[o] = subs[s].terms[o] + 1]
               r == [row[o] EXCEPT !.status = "paid", !.sub = s]
    <3>2. s \in DOMAIN subs /\ s \in Nat
      BY SubscriptionTypes DEF Active
    <3>3. x \in SubscriptionRow
      <4>1. subs[s] \in SubscriptionRow /\ subs[s].terms[o] + 1 \in Nat
        BY <3>2, SubscriptionTypes
      <4> QED BY <4>1, TermsReplaced, Zenon
    <3>4. r \in [status : Statuses, url : Tokens, claim : Tokens, live : BOOLEAN, sub : Nat]
      BY <1>1, <3>2, RowStamped, Zenon
    <3>5. subs' = [subs EXCEPT ![s] = x] /\ row' = [row EXCEPT ![o] = r]
      BY <3>1
    <3> HIDE DEF x, r
    <3> QED BY <1>1, <3>2, <3>3, <3>4, <3>5, SubscriptionWritten DEF Typed, RowsOK
  <2> QED BY <2>1, <2>2
<1> QED BY <1>2 DEF Typed, RowsOK

LEMMA MarkPaidRows ==
  ASSUME Typed, NEW o \in Orders, MarkPaid(o)
  PROVE  RowsOK'
<1>1. CASE ~CanBePaid(o)
  BY <1>1 DEF MarkPaid, Typed, RowsOK, ledger
<1>2. CASE CanBePaid(o) /\ o \in Subscription
  BY <1>2, AssignRows DEF MarkPaid, Issue
<1>3. CASE CanBePaid(o) /\ o \notin Subscription
  <2> DEFINE r == [row[o] EXCEPT !.status = "paid"]
  <2>1. r \in [status : Statuses, url : Tokens, claim : Tokens, live : BOOLEAN, sub : Nat]
    BY RowOf DEF Statuses
  <2>2. row' = [row EXCEPT ![o] = r] /\ topups' = topups \cup {o} /\ UNCHANGED <<subs, refunds>>
    BY <1>3 DEF MarkPaid, Issue
  <2> HIDE DEF r
  <2> QED BY <1>3, <2>1, <2>2 DEF Typed, RowsOK
<1> QED BY <1>1, <1>2, <1>3

LEMMA MarkClosedRows ==
  ASSUME Typed, NEW o \in Orders, MarkClosed(o)
  PROVE  RowsOK'
<1> DEFINE r == [row[o] EXCEPT !.status = "closed"]
<1>1. r \in [status : Statuses, url : Tokens, claim : Tokens, live : BOOLEAN, sub : Nat]
  BY RowOf DEF Statuses
<1>2. UNCHANGED ledger /\ (UNCHANGED row \/ row' = [row EXCEPT ![o] = r])
  BY DEF MarkClosed
<1> HIDE DEF r
<1>3. CASE UNCHANGED row
  BY <1>2, <1>3 DEF Typed, RowsOK, ledger
<1> QED BY <1>1, <1>2, <1>3, RowChanges

LEMMA ApplyRows ==
  ASSUME Typed, NEW p \in Procs, Apply(p)
  PROVE  RowsOK'
<1>1. Order(p) \in Orders
  BY OrderOf DEF Apply, At
<1>2. MarkPaid(Order(p)) \/ MarkClosed(Order(p)) \/ UNCHANGED <<row, ledger>>
  BY DEF Apply
<1>3. CASE UNCHANGED <<row, ledger>>
  BY <1>3 DEF Typed, RowsOK, ledger
<1> QED BY <1>1, <1>2, <1>3, MarkPaidRows, MarkClosedRows

LEMMA ClaimLapsesRows ==
  ASSUME Typed, NEW o \in Orders, ClaimLapses(o)
  PROVE  RowsOK'
<1> DEFINE r == [row[o] EXCEPT !.live = FALSE]
<1>1. r \in [status : Statuses, url : Tokens, claim : Tokens, live : BOOLEAN, sub : Nat]
  BY RowOf
<1>2. UNCHANGED ledger /\ row' = [row EXCEPT ![o] = r]
  BY DEF ClaimLapses
<1> HIDE DEF r
<1> QED BY <1>1, <1>2, RowChanges

LEMMA ExpiresRows ==
  ASSUME Typed, NEW s \in DOMAIN subs, SubscriptionExpires(s)
  PROVE  RowsOK'
<1> DEFINE x == [subs[s] EXCEPT !.status = "expired"]
<1>1. x \in SubscriptionRow
  BY SubscriptionTypes, StatusReplaced
<1>2. subs' = [subs EXCEPT ![s] = x] /\ UNCHANGED <<row, topups, refunds>>
  BY DEF SubscriptionExpires
<1> HIDE DEF x
<1> QED BY <1>1, <1>2, SubscriptionWritten DEF Typed, RowsOK

\* A refund writes one subscription, or none.
LEMMA ReverseWrites ==
  ASSUME Typed, NEW o \in Subscription, NEW policy \in Policies,
         row[o].sub \in DOMAIN subs, Reverse(o, policy)
  PROVE  \E x \in SubscriptionRow :
           /\ subs' = [subs EXCEPT ![row[o].sub] = x]
           /\ policy = "keep" => x = subs[row[o].sub]
           /\ policy = "revoke" =>
                x.status = "revoked" /\ x.terms = subs[row[o].sub].terms
           /\ policy = "shorten" =>
                /\ x.status = subs[row[o].sub].status
                /\ x.terms = [subs[row[o].sub].terms EXCEPT ![o] = IF @ > 0 THEN @ - 1 ELSE 0]
<1> DEFINE s == row[o].sub
           n == IF subs[s].terms[o] > 0 THEN subs[s].terms[o] - 1 ELSE 0
<1>1. subs[s] \in SubscriptionRow /\ subs[s].terms \in [Subscription -> Nat]
  BY SubscriptionTypes
<1>2. n \in Nat
  BY <1>1
<1>3. CASE policy = "keep"
  <2>1. subs' = [subs EXCEPT ![s] = subs[s]]
    BY <1>3, SubscriptionTypes DEF Reverse
  <2> QED BY <1>1, <1>3, <2>1
<1>4. CASE policy = "revoke"
  <2> DEFINE x == [subs[s] EXCEPT !.status = "revoked"]
  <2>1. subs' = [subs EXCEPT ![s] = x]
    BY <1>4 DEF Reverse, RefundTarget
  <2>2. x \in SubscriptionRow /\ x.status = "revoked" /\ x.terms = subs[s].terms
    BY <1>1, StatusReplaced
  <2> HIDE DEF x
  <2> QED BY <1>4, <2>1, <2>2
<1>5. CASE policy = "shorten"
  <2> DEFINE x == [subs[s] EXCEPT !.terms[o] = n]
  <2>1. subs' = [subs EXCEPT ![s] = x]
    BY <1>5 DEF Reverse, RefundTarget
  <2>2. /\ x \in SubscriptionRow /\ x.status = subs[s].status
        /\ x.terms = [subs[s].terms EXCEPT ![o] = n]
    BY <1>1, <1>2, TermsReplaced
  <2> HIDE DEF x
  <2> QED BY <1>5, <2>1, <2>2
<1> QED BY <1>3, <1>4, <1>5 DEF Policies

LEMMA CallsKept ==
  ASSUME Typed, loc' \in [Procs -> Call], UNCHANGED <<calls, todo, cursor>>,
         UNCHANGED faults \/ Fault
  PROVE  CallsOK'
<1>1. faults' \in 0..MaxFaults
  BY Constants DEF Fault, Typed, CallsOK
<1> QED BY <1>1 DEF Typed, CallsOK

LEMMA CallSpent ==
  ASSUME Typed, NEW p \in Callers, calls[p] > 0, calls' = [calls EXCEPT ![p] = @ - 1],
         loc' \in [Procs -> Call], UNCHANGED <<todo, cursor, faults>>
  PROVE  CallsOK'
<1>1. calls \in [Callers -> Nat] /\ \A q \in Callers : calls[q] <= MaxCalls[q]
  BY DEF Typed, CallsOK
<1>2. \A q \in Callers : MaxCalls[q] \in Nat
  BY PaymentAssumption
<1>3. calls' \in [Callers -> Nat] /\ \A q \in Callers : calls'[q] <= MaxCalls[q]
  BY <1>1, <1>2
<1> QED BY <1>3 DEF Typed, CallsOK

LEMMA ProviderKept ==
  ASSUME Typed, UNCHANGED provider, handed' \in [Orders -> SUBSET Token]
  PROVE  ProviderOK'
BY DEF Typed, ProviderOK, provider

\* Nobody's call is touched.
LEMMA ServiceKept ==
  ASSUME Typed, UNCHANGED service
  PROVE  CallsOK' /\ Working'
BY DEF Typed, CallsOK, Working, CallOK, service

LEMMA CreateCalls ==
  ASSUME Typed, NEW p \in Callers, NEW o \in Orders, Create(p, o)
  PROVE  ProviderOK' /\ CallsOK' /\ Working'
<1>1. p \in Procs /\ p # Job
  BY Constants
<1>2. /\ loc' \in [Procs -> Call] /\ Working'
      /\ handed' \in [Orders -> SUBSET Token]
  <2>1. CASE Exists(o)
    BY <2>1, CallReuses DEF Create
  <2>2. CASE ~Exists(o)
    <3> DEFINE c == [Idle EXCEPT !.pc = "insert", !.kind = "create", !.order = o]
    <3>1. c \in Call /\ CallOK(p, c)
      BY <1>1 DEF Idle, Call, CallOK, Controls, Tokens, Answers
    <3>2. loc' = [loc EXCEPT ![p] = c] /\ UNCHANGED handed
      BY <2>2 DEF Create
    <3> HIDE DEF c
    <3> QED BY <1>1, <3>1, <3>2, CallMoves DEF Typed, ProviderOK
  <2> QED BY <2>1, <2>2
<1> QED BY <1>2, ProviderKept, CallSpent DEF Create

LEMMA InsertCalls ==
  ASSUME Typed, NEW p \in Callers, Insert(p)
  PROVE  ProviderOK' /\ CallsOK' /\ Working'
<1>1. p \in Procs /\ p # Job /\ loc[p].pc = "insert"
  BY Constants DEF Insert, At
<1>2. \/ Goto(p, "reread") \/ Goto(p, "prepay")
      \/ Goto(p, "claim") /\ Order(p) \in Wechat
  BY DEF Insert
<1>3. loc' \in [Procs -> Call] /\ Working'
  <2>1. {"reread", "prepay", "claim"} \subseteq Controls \ {"idle"}
    BY DEF Controls
  <2> QED BY <1>1, <1>2, <2>1, CallGoesTo
<1> QED BY <1>3, ProviderKept, CallsKept DEF Insert, Typed, ProviderOK

LEMMA RereadCalls ==
  ASSUME Typed, NEW p \in Callers, Reread(p)
  PROVE  ProviderOK' /\ CallsOK' /\ Working'
<1>1. p \in Procs /\ loc[p].pc # "idle" /\ Order(p) \in Orders
  BY Constants, OrderOf DEF Reread, At
<1>2. /\ loc' \in [Procs -> Call] /\ Working'
      /\ handed' \in [Orders -> SUBSET Token]
  <2>1. NoToken \in Tokens
    BY DEF Tokens
  <2>2. Reuse(p, Order(p)) \/ Return(p, NoToken)
    BY DEF Reread
  <2> QED BY <1>1, <2>1, <2>2, CallReuses, CallReturns
<1> QED BY <1>2, ProviderKept, CallsKept DEF Reread

LEMMA ClaimReadCalls ==
  ASSUME Typed, NEW p \in Callers, ClaimRead(p)
  PROVE  ProviderOK' /\ CallsOK' /\ Working'
<1>1. /\ p \in Procs /\ p # Job /\ loc[p].pc = "claim" /\ Order(p) \in Orders
      /\ Order(p) \in Wechat /\ loc[p] \in Call /\ CallOK(p, loc[p])
  <2>1. p \in Procs /\ p # Job /\ loc[p].pc = "claim"
    BY Constants DEF ClaimRead, At
  <2> QED BY <2>1, OrderOf DEF CallOK, Order
<1>2. row[Order(p)].url \in Tokens /\ row[Order(p)].claim \in Tokens
  BY <1>1, RowOf
<1> DEFINE c == [loc[p] EXCEPT !.pc = "claiming", !.seen = row[Order(p)].claim]
<1>3. \/ Return(p, row[Order(p)].url)
      \/ loc' = [loc EXCEPT ![p] = c] /\ UNCHANGED handed
  BY DEF ClaimRead
<1>4. c \in Call /\ CallOK(p, c)
  BY <1>1, <1>2 DEF Call, CallOK, Controls, Order
<1> HIDE DEF c
<1>5. /\ loc' \in [Procs -> Call] /\ Working'
      /\ handed' \in [Orders -> SUBSET Token]
  BY <1>1, <1>2, <1>3, <1>4, CallMoves, CallReturns DEF Typed, ProviderOK
<1> QED BY <1>5, ProviderKept, CallsKept DEF ClaimRead

LEMMA ClaimWriteCalls ==
  ASSUME Typed, NEW p \in Callers, ClaimWrite(p)
  PROVE  ProviderOK' /\ CallsOK' /\ Working'
<1>1. p \in Procs /\ p # Job /\ loc[p].pc = "claiming"
  BY Constants DEF ClaimWrite, At
<1>2. Goto(p, "prepay") \/ Goto(p, "answer")
  BY DEF ClaimWrite
<1>3. loc' \in [Procs -> Call] /\ Working'
  <2>1. {"prepay", "answer"} \subseteq Controls \ {"idle"}
    BY DEF Controls
  <2> QED BY <1>1, <1>2, <2>1, CallGoesTo
<1> QED BY <1>3, ProviderKept, CallsKept DEF ClaimWrite, Typed, ProviderOK

LEMMA PrepayCalls ==
  ASSUME Typed, NEW p \in Callers, Prepay(p)
  PROVE  ProviderOK' /\ CallsOK' /\ Working'
<1>1. p \in Procs /\ p # Job /\ loc[p].pc = "prepay"
  BY Constants DEF Prepay, At
<1>2. \/ Return(p, NoToken)
      \/ Goto(p, "prepaying") /\ Order(p) \in Wechat /\ UNCHANGED handed
      \/ Goto(p, "attach") /\ UNCHANGED handed
  BY DEF Prepay
<1>3. UNCHANGED faults \/ Fault
  BY DEF Prepay
<1>4. /\ loc' \in [Procs -> Call] /\ Working'
      /\ handed' \in [Orders -> SUBSET Token]
  <2>1. {"prepaying", "attach"} \subseteq Controls \ {"idle"} /\ NoToken \in Tokens
    BY DEF Controls, Tokens
  <2>2. handed \in [Orders -> SUBSET Token]
    BY DEF Typed, ProviderOK
  <2> QED BY <1>1, <1>2, <2>1, <2>2, CallGoesTo, CallReturns
<1> QED BY <1>3, <1>4, ProviderKept, CallsKept DEF Prepay

\* What the provider holds of an order after a call or a payment.
LEMMA ProvChanges ==
  ASSUME Typed, NEW o \in Orders, NEW v \in {"unknown", "unpaid", "paid", "closed"},
         prov' = [prov EXCEPT ![o] = v], late' \subseteq Wechat, UNCHANGED expired,
         handed' \in [Orders -> SUBSET Token]
  PROVE  ProviderOK'
BY DEF Typed, ProviderOK

LEMMA PrepayAnsweredCalls ==
  ASSUME Typed, NEW p \in Callers, PrepayAnswered(p)
  PROVE  ProviderOK' /\ CallsOK' /\ Working'
<1>1. p \in Procs /\ p # Job /\ loc[p].pc = "prepaying" /\ Order(p) \in Orders
  BY Constants, OrderOf DEF PrepayAnswered, At
<1>2. \/ Return(p, NoToken) /\ UNCHANGED prov
      \/ /\ Goto(p, "attach") /\ UNCHANGED handed
         /\ prov' = [prov EXCEPT ![Order(p)] = "unpaid"]
  BY DEF PrepayAnswered
<1>3. /\ loc' \in [Procs -> Call] /\ Working'
      /\ handed' \in [Orders -> SUBSET Token]
  <2>1. {"attach"} \subseteq Controls \ {"idle"} /\ NoToken \in Tokens
    BY DEF Controls, Tokens
  <2>2. handed \in [Orders -> SUBSET Token]
    BY DEF Typed, ProviderOK
  <2> QED BY <1>1, <1>2, <2>1, <2>2, CallGoesTo, CallReturns
<1>4. UNCHANGED <<late, expired, calls, todo, cursor, faults>>
  BY DEF PrepayAnswered
<1>5. late \subseteq Wechat
  BY DEF Typed, ProviderOK
<1> QED BY <1>1, <1>2, <1>3, <1>4, <1>5, ProvChanges, ProviderKept, CallsKept DEF provider

LEMMA PrepayTimeoutCalls ==
  ASSUME Typed, NEW p \in Callers, PrepayTimeout(p)
  PROVE  ProviderOK' /\ CallsOK' /\ Working'
<1>1. p \in Procs /\ loc[p].pc = "prepaying" /\ Order(p) \in Wechat
  BY Constants, OrderOf DEF PrepayTimeout, At, CallOK, Order
<1>2. /\ loc' \in [Procs -> Call] /\ Working'
      /\ handed' \in [Orders -> SUBSET Token]
  <2>1. NoToken \in Tokens
    BY DEF Tokens
  <2> QED BY <1>1, <2>1, CallReturns DEF PrepayTimeout
<1>3. ProviderOK'
  BY <1>1, <1>2 DEF PrepayTimeout, Typed, ProviderOK
<1> QED BY <1>2, <1>3, CallsKept DEF PrepayTimeout

LEMMA AttachCalls ==
  ASSUME Typed, NEW p \in Callers, Attach(p)
  PROVE  ProviderOK' /\ CallsOK' /\ Working'
<1>1. p \in Procs /\ p # Job /\ loc[p].pc = "attach"
  BY Constants DEF Attach, At
<1>2. (Goto(p, "answer") /\ UNCHANGED handed) \/ Return(p, NoToken)
  BY DEF Attach
<1>3. /\ loc' \in [Procs -> Call] /\ Working'
      /\ handed' \in [Orders -> SUBSET Token]
  <2>1. "answer" \in Controls \ {"idle"} /\ NoToken \in Tokens
    BY DEF Controls, Tokens
  <2>2. handed \in [Orders -> SUBSET Token]
    BY DEF Typed, ProviderOK
  <2> QED BY <1>1, <1>2, <2>1, <2>2, CallGoesTo, CallReturns
<1>4. UNCHANGED faults \/ Fault
  BY DEF Attach
<1> QED BY <1>3, <1>4, ProviderKept, CallsKept DEF Attach

LEMMA AnswerCalls ==
  ASSUME Typed, NEW p \in Callers, Answer(p)
  PROVE  ProviderOK' /\ CallsOK' /\ Working'
<1>1. p \in Procs /\ loc[p].pc # "idle" /\ Order(p) \in Orders
  BY Constants, OrderOf DEF Answer, At
<1>2. row[Order(p)].url \in Tokens
  BY <1>1, RowOf
<1>3. /\ loc' \in [Procs -> Call] /\ Working'
      /\ handed' \in [Orders -> SUBSET Token]
  BY <1>1, <1>2, CallReturns DEF Answer
<1> QED BY <1>3, ProviderKept, CallsKept DEF Answer

LEMMA ReadCalls ==
  ASSUME Typed, NEW p \in Callers, NEW o \in Orders, Read(p, o)
  PROVE  ProviderOK' /\ CallsOK' /\ Working'
<1>1. p \in Procs /\ p # Job
  BY Constants
<1>2. /\ loc' \in [Procs -> Call] /\ Working'
      /\ handed' \in [Orders -> SUBSET Token]
  <2>1. CASE row[o].status = "pending"
    <3> DEFINE c == [Idle EXCEPT !.pc = "query", !.kind = "read", !.order = o,
                                 !.seen = row[o].url]
    <3>1. row[o].url \in Tokens
      BY RowOf
    <3>2. c \in Call /\ CallOK(p, c)
      BY <1>1, <3>1 DEF Idle, Call, CallOK, Controls, Answers
    <3>3. loc' = [loc EXCEPT ![p] = c] /\ UNCHANGED handed
      BY <2>1 DEF Read
    <3> HIDE DEF c
    <3> QED BY <1>1, <3>2, <3>3, CallMoves DEF Typed, ProviderOK
  <2>2. CASE row[o].status # "pending"
    <3>1. handed' = Given(o, row[o].url) /\ UNCHANGED loc
      BY <2>2 DEF Read
    <3> QED BY <3>1, RowOf, GivenTyped DEF Typed, CallsOK, Working, CallOK
  <2> QED BY <2>1, <2>2
<1> QED BY <1>2, ProviderKept, CallSpent DEF Read

\* A query that failed, or was answered.
LEMMA StatusAnswer ==
  ASSUME Typed, NEW o \in Orders
  PROVE  Status(o) \in {"missing", "unpaid", "paid", "closed"}
BY RowOf DEF Status

LEMMA CallAnswered ==
  ASSUME Typed, NEW p \in Procs, loc[p].pc # "idle",
         loc' = [loc EXCEPT ![p].pc = "apply", ![p].answer = Status(Order(p))]
  PROVE  loc' \in [Procs -> Call] /\ Working'
<1> DEFINE c == [loc[p] EXCEPT !.pc = "apply", !.answer = Status(Order(p))]
<1>1. loc[p] \in Call /\ CallOK(p, loc[p]) /\ Order(p) \in Orders
  BY OrderOf
<1>2. Status(Order(p)) \in Answers
  BY <1>1, StatusAnswer DEF Answers
<1>3. c \in Call /\ CallOK(p, c)
  BY <1>1, <1>2 DEF Call, CallOK, Order, Controls
<1>4. loc' = [loc EXCEPT ![p] = c]
  OBVIOUS
<1> HIDE DEF c
<1> QED BY <1>3, <1>4, CallMoves

LEMMA QueryFailed ==
  ASSUME Typed, NEW p \in Procs, loc[p].pc # "idle", QueryFails(p)
  PROVE  /\ loc' \in [Procs -> Call] /\ Working'
         /\ handed' \in [Orders -> SUBSET Token]
<1>1. loc[p].seen \in Tokens /\ NoToken \in Tokens
  BY OrderOf DEF Call, Tokens
<1> QED BY <1>1, CallReturns DEF QueryFails

LEMMA QueryCalls ==
  ASSUME Typed, NEW p \in Procs, Query(p)
  PROVE  ProviderOK' /\ CallsOK' /\ Working'
<1>1. loc[p].pc = "query"
  BY DEF Query, At
<1>2. \/ Goto(p, "close") /\ UNCHANGED <<handed, faults>>
      \/ /\ loc' = [loc EXCEPT ![p].pc = "apply", ![p].answer = Status(Order(p))]
         /\ UNCHANGED <<handed, faults>>
      \/ QueryFails(p)
  BY DEF Query
<1>3. /\ loc' \in [Procs -> Call] /\ Working'
      /\ handed' \in [Orders -> SUBSET Token]
  <2>1. "close" \in Controls \ {"idle"}
    BY DEF Controls
  <2>2. handed \in [Orders -> SUBSET Token]
    BY DEF Typed, ProviderOK
  <2> QED BY <1>1, <1>2, <2>1, <2>2, CallGoesTo, CallAnswered, QueryFailed
<1>4. UNCHANGED faults \/ Fault
  BY <1>2 DEF QueryFails
<1> QED BY <1>3, <1>4, ProviderKept, CallsKept DEF Query

LEMMA CloseCalls ==
  ASSUME Typed, NEW p \in Procs, CloseCall(p)
  PROVE  ProviderOK' /\ CallsOK' /\ Working'
<1>1. loc[p].pc = "close" /\ Order(p) \in Orders
  BY OrderOf DEF CloseCall, At
<1>2. loc' \in [Procs -> Call] /\ Working'
  <2>1. "requery" \in Controls \ {"idle"}
    BY DEF Controls
  <2> QED BY <1>1, <2>1, CallGoesTo DEF CloseCall
<1>3. UNCHANGED faults \/ Fault
  BY DEF CloseCall
<1> DEFINE v == IF prov[Order(p)] = "unpaid" THEN "closed" ELSE prov[Order(p)]
<1>4. UNCHANGED prov \/ prov' = [prov EXCEPT ![Order(p)] = v]
  BY DEF CloseCall
<1>5. v \in {"unknown", "unpaid", "paid", "closed"}
  BY <1>1, RowOf
<1> HIDE DEF v
<1>6. handed' \in [Orders -> SUBSET Token] /\ late' \subseteq Wechat
  BY DEF CloseCall, Typed, ProviderOK
<1> QED BY <1>1, <1>2, <1>3, <1>4, <1>5, <1>6, ProvChanges, ProviderKept, CallsKept
        DEF CloseCall, provider

LEMMA RequeryCalls ==
  ASSUME Typed, NEW p \in Procs, Requery(p)
  PROVE  ProviderOK' /\ CallsOK' /\ Working'
<1>1. loc[p].pc = "requery"
  BY DEF Requery, At
<1>2. \/ /\ loc' = [loc EXCEPT ![p].pc = "apply", ![p].answer = Status(Order(p))]
         /\ UNCHANGED <<handed, faults>>
      \/ QueryFails(p)
  BY DEF Requery
<1>3. /\ loc' \in [Procs -> Call] /\ Working'
      /\ handed' \in [Orders -> SUBSET Token]
  BY <1>1, <1>2, CallAnswered, QueryFailed DEF Typed, ProviderOK
<1>4. UNCHANGED faults \/ Fault
  BY <1>2 DEF QueryFails
<1> QED BY <1>3, <1>4, ProviderKept, CallsKept DEF Requery

LEMMA ApplyCalls ==
  ASSUME Typed, NEW p \in Procs, Apply(p)
  PROVE  ProviderOK' /\ CallsOK' /\ Working'
<1>1. loc[p].pc = "apply" /\ Order(p) \in Orders /\ loc[p] \in Call /\ CallOK(p, loc[p])
  BY OrderOf DEF Apply, At
<1>2. /\ row[Order(p)].url \in Tokens /\ loc[p].seen \in Tokens /\ NoToken \in Tokens
  BY <1>1, RowOf DEF Call, Tokens
<1>3. \/ Goto(p, "claim") /\ loc[p].kind = "reuse" /\ UNCHANGED handed
      \/ \E url \in Tokens : Return(p, url)
  <2>1. \A good : Shown(Order(p), good) \in Tokens
    BY <1>2 DEF Shown
  <2>2. \/ \E good : Return(p, Shown(Order(p), good))
        \/ Goto(p, "claim") /\ loc[p].kind = "reuse" /\ UNCHANGED handed
        \/ Return(p, loc[p].seen)
    BY DEF Apply
  <2> QED BY <1>2, <2>1, <2>2
<1>4. /\ loc' \in [Procs -> Call] /\ Working'
      /\ handed' \in [Orders -> SUBSET Token]
  <2>1. "claim" \in Controls \ {"idle"}
    BY DEF Controls
  <2>2. handed \in [Orders -> SUBSET Token]
    BY DEF Typed, ProviderOK
  <2>3. loc[p].kind = "reuse" => Order(p) \in Wechat /\ p # Job
    BY <1>1 DEF CallOK, Order
  <2> QED BY <1>1, <1>3, <2>1, <2>2, <2>3, CallGoesTo, CallReturns
<1> QED BY <1>4, ProviderKept, CallsKept DEF Apply

LEMMA JobCalls ==
  ASSUME Typed, JobList \/ JobTake
  PROVE  ProviderOK' /\ CallsOK' /\ Working'
<1>1. handed \in [Orders -> SUBSET Token] /\ todo \subseteq Orders /\ Job \in Procs
  BY Constants DEF Typed, ProviderOK, CallsOK
<1>2. CASE JobList
  <2> DEFINE batch == Smallest(Due, Limit)
  <2>1. batch \subseteq Orders
    BY DEF Smallest, Due
  <2>2. NextCursor(batch) \in Orders \cup {0}
    <3>1. IsFiniteSet(batch) /\ batch \in SUBSET Nat
      BY <2>1, Constants, FS_Subset
    <3>2. batch = {} => Cardinality(batch) < Limit
      BY Constants, FS_EmptySet
    <3>3. batch # {} => Largest(batch) \in batch
      BY <3>1, LargestIn
    <3> HIDE DEF batch
    <3> QED BY <2>1, <3>2, <3>3 DEF NextCursor
  <2>3. todo' = batch /\ cursor' = NextCursor(batch)
    BY <1>2 DEF JobList
  <2> HIDE DEF batch
  <2>4. CallsOK' /\ Working'
    BY <1>2, <2>1, <2>2, <2>3 DEF JobList, Typed, CallsOK, Working, CallOK
  <2> QED BY <1>1, <1>2, <2>4, ProviderKept DEF JobList
<1>3. CASE JobTake
  <2>1. PICK o \in Smallest(todo, 1) :
          /\ loc' = [loc EXCEPT ![Job] = [Idle EXCEPT !.pc = "query",
                                          !.kind = "job", !.order = o]]
          /\ todo' = todo \ {o}
    BY <1>3 DEF JobTake
  <2> DEFINE c == [Idle EXCEPT !.pc = "query", !.kind = "job", !.order = o]
  <2>2. o \in Orders
    BY <1>1 DEF Smallest
  <2>3. c \in Call /\ CallOK(Job, c)
    BY <2>2 DEF Idle, Call, CallOK, Controls, Tokens, Answers
  <2> HIDE DEF c
  <2>4. loc' \in [Procs -> Call] /\ Working'
    BY <1>1, <2>1, <2>3, CallMoves DEF c
  <2>5. CallsOK'
    BY <1>1, <1>3, <2>1, <2>4 DEF JobTake, Typed, CallsOK
  <2> QED BY <1>1, <1>3, <2>4, <2>5, ProviderKept DEF JobTake
<1> QED BY <1>2, <1>3

LEMMA DieCalls ==
  ASSUME Typed, NEW p \in Procs, Die(p)
  PROVE  ProviderOK' /\ CallsOK' /\ Working'
<1>1. loc' \in [Procs -> Call] /\ Working'
  BY IdleOK, CallMoves DEF Die
<1>2. late' \subseteq Wechat
  <2>1. At(p, "prepaying") => Order(p) \in Wechat
    BY DEF At, Order, Typed, Working, CallOK
  <2> QED BY <2>1 DEF Die, Typed, ProviderOK
<1>3. ProviderOK'
  BY <1>2 DEF Die, Typed, ProviderOK
<1>4. faults' \in 0..MaxFaults
  BY Constants DEF Die, Fault, Typed, CallsOK
<1>5. /\ UNCHANGED calls
      /\ todo' \in {todo, {}} /\ cursor' \in {cursor, 0}
  BY DEF Die
<1> QED BY <1>1, <1>3, <1>4, <1>5 DEF Typed, CallsOK

\* The provider, the payer and time.
LEMMA OutsideCalls ==
  ASSUME Typed, NEW o \in Orders,
         LatePrepay(o) \/ Pay(o) \/ GiveUp(o) \/ Expire(o)
  PROVE  ProviderOK' /\ CallsOK' /\ Working'
<1>1. UNCHANGED service /\ handed' \in [Orders -> SUBSET Token] /\ late' \subseteq Wechat
  BY DEF LatePrepay, Pay, GiveUp, Expire, Typed, ProviderOK
<1>2. CASE Expire(o)
  BY <1>1, <1>2, ServiceKept DEF Expire, Typed, ProviderOK
<1>3. CASE LatePrepay(o) \/ Pay(o) \/ GiveUp(o)
  <2>1. /\ UNCHANGED expired
        /\ \/ UNCHANGED prov
           \/ \E v \in {"unpaid", "paid", "closed"} : prov' = [prov EXCEPT ![o] = v]
    BY <1>3 DEF LatePrepay, Pay, GiveUp
  <2>2. CASE UNCHANGED prov
    BY <1>1, <2>1, <2>2, ServiceKept DEF Typed, ProviderOK
  <2> QED BY <1>1, <2>1, <2>2, ServiceKept, ProvChanges
<1> QED BY <1>2, <1>3

\* The steps that touch neither the provider nor a call.
LEMMA TableCalls ==
  ASSUME Typed, UNCHANGED <<provider, handed, service>>
  PROVE  ProviderOK' /\ CallsOK' /\ Working'
BY ServiceKept, ProviderKept DEF Typed, ProviderOK

\* The disjuncts of the next-state relation.
LEMMA StepCases ==
  ASSUME [Next]_vars
  PROVE  \/ \E p \in Callers, o \in Orders : Create(p, o) \/ Read(p, o)
         \/ \E p \in Callers : \/ Insert(p) \/ Reread(p) \/ ClaimRead(p) \/ ClaimWrite(p)
                               \/ Prepay(p) \/ PrepayAnswered(p) \/ PrepayTimeout(p)
                               \/ Attach(p) \/ Answer(p)
         \/ \E p \in Procs : Query(p) \/ CloseCall(p) \/ Requery(p) \/ Apply(p) \/ Die(p)
         \/ JobList \/ JobTake
         \/ \E o \in Orders : \/ Notify(o) \/ LatePrepay(o) \/ Pay(o) \/ GiveUp(o)
                              \/ Expire(o) \/ ClaimLapses(o)
         \/ \E s \in DOMAIN subs : SubscriptionExpires(s)
         \/ \E o \in Orders, policy \in Policies : Refund(o, policy)
         \/ UNCHANGED vars
BY Constants DEF Next, Creation, Refresh, JobStep

\* The steps that write no row, and those that do.
LEMMA RowCases ==
  ASSUME [Next]_vars
  PROVE  \/ UNCHANGED <<row, ledger>>
         \/ \E p \in Callers : Insert(p) \/ ClaimWrite(p) \/ Prepay(p) \/ Attach(p)
         \/ \E p \in Procs : Apply(p)
         \/ \E o \in Orders : Notify(o) \/ ClaimLapses(o)
         \/ \E s \in DOMAIN subs : SubscriptionExpires(s)
         \/ \E o \in Orders, policy \in Policies : Refund(o, policy)
<1>1. CASE \E p \in Callers, o \in Orders : Create(p, o) \/ Read(p, o)
  BY <1>1 DEF Create, Read
<1>2. CASE \E p \in Callers : \/ Insert(p) \/ Reread(p) \/ ClaimRead(p) \/ ClaimWrite(p)
                              \/ Prepay(p) \/ PrepayAnswered(p) \/ PrepayTimeout(p)
                              \/ Attach(p) \/ Answer(p)
  BY <1>2 DEF Reread, ClaimRead, PrepayAnswered, PrepayTimeout, Answer
<1>3. CASE \E p \in Procs : Query(p) \/ CloseCall(p) \/ Requery(p) \/ Apply(p) \/ Die(p)
  BY <1>3 DEF Query, CloseCall, Requery, Die
<1>4. CASE JobList \/ JobTake
  BY <1>4 DEF JobList, JobTake
<1>5. CASE \E o \in Orders : \/ Notify(o) \/ LatePrepay(o) \/ Pay(o) \/ GiveUp(o)
                             \/ Expire(o) \/ ClaimLapses(o)
  BY <1>5 DEF LatePrepay, Pay, GiveUp, Expire
<1>6. CASE UNCHANGED vars
  BY <1>6 DEF vars
<1> QED BY <1>1, <1>2, <1>3, <1>4, <1>5, <1>6, StepCases

\* An applied answer and a callback mark the order paid or closed, or neither.
LEMMA MarkCases ==
  ASSUME Typed, (\E p \in Procs : Apply(p)) \/ \E o \in Orders : Notify(o)
  PROVE  \/ UNCHANGED <<row, ledger>>
         \/ \E o \in Orders : MarkPaid(o) \/ MarkClosed(o)
<1>1. CASE \E o \in Orders : Notify(o)
  BY <1>1 DEF Notify
<1>2. CASE \E p \in Procs : Apply(p)
  <2>1. PICK p \in Procs : Apply(p)
    BY <1>2
  <2>2. Order(p) \in Orders
    BY <2>1, OrderOf DEF Apply, At
  <2> QED BY <2>1, <2>2 DEF Apply
<1> QED BY <1>1, <1>2

-----------------------------------------------------------------------------
(* An order is issued once, into the subscription it is stamped with, and a *)
(* refund takes it back from there.                                         *)

\* What the ledger holds of a subscription order, by the status of its row.
GrantOK(o) ==
  /\ Settled(o) => row[o].sub \in DOMAIN subs
  /\ ~Settled(o) => row[o].sub = 0
  /\ row[o].status # "refunded" => refunds[o] = <<>>
  /\ row[o].status = "refunded" => \E policy \in Policies : refunds[o] = <<policy>>
  /\ \A s \in DOMAIN subs :
       /\ subs[s].terms[o] = IF s = row[o].sub /\ ~Refunded(o, "shorten") THEN 1 ELSE 0
       /\ s = row[o].sub /\ Refunded(o, "revoke") => subs[s].status = "revoked"

Grants == \A o \in Subscription : GrantOK(o)

TopupsOK == \A o \in Orders \ Subscription : o \in topups <=> Settled(o)

\* Every subscription was opened by an order that is stamped with it.
Opened == \A s \in DOMAIN subs : \E o \in Subscription : row[o].sub = s

Issued == Grants /\ TopupsOK /\ Opened

\* A write to a row that settles nothing.
LEMMA RowKeepsIssued ==
  ASSUME Typed, Issued, NEW o \in Orders, UNCHANGED ledger,
         \A q \in Orders : q # o => row'[q] = row[q],
         row'[o].sub \in {row[o].sub, 0},
         \/ row'[o].status = row[o].status /\ row'[o].sub = row[o].sub
         \/ ~Settled(o) /\ ~Settled(o)'
  PROVE  Issued'
<1>1. \A q \in Subscription : q \in Orders
  BY Constants
<1>2. o \in Subscription /\ ~Settled(o) => row[o].sub = 0
  BY DEF Issued, Grants, GrantOK
<1>3. \A q \in Subscription : row'[q].sub = row[q].sub
  BY <1>1, <1>2
<1>4. \A q \in Orders : /\ Settled(q)' <=> Settled(q)
                        /\ row'[q].status = "refunded" <=> row[q].status = "refunded"
  BY DEF Settled
<1>5. UNCHANGED subs /\ UNCHANGED refunds /\ UNCHANGED topups
  BY DEF ledger
<1>6. Opened'
  BY <1>3, <1>5 DEF Issued, Opened
<1>7. TopupsOK'
  BY <1>4, <1>5 DEF Issued, TopupsOK
<1>8. ASSUME NEW q \in Subscription PROVE GrantOK(q)'
  <2>1. GrantOK(q)
    BY DEF Issued, Grants
  <2>2. /\ Settled(q)' <=> Settled(q)
        /\ row'[q].status = "refunded" <=> row[q].status = "refunded"
        /\ row'[q].sub = row[q].sub
    BY <1>1, <1>3, <1>4
  <2> QED BY <1>5, <2>1, <2>2 DEF GrantOK, Refunded
<1> QED BY <1>6, <1>7, <1>8 DEF Issued, Grants

LEMMA StampNone ==
  ASSUME Issued, NEW o \in Subscription, ~Settled(o)
  PROVE  row[o].sub = 0 /\ refunds[o] = <<>>
BY DEF Issued, Grants, GrantOK, Settled

LEMMA InsertIssued ==
  ASSUME Typed, Issued, NEW p \in Callers, Insert(p)
  PROVE  Issued'
<1>0. PICK o \in Orders : o = Order(p)
  BY OrderOf, Constants DEF Insert, At
<1>1. row \in [Orders -> [status : Statuses, url : Tokens, claim : Tokens,
                                          live : BOOLEAN, sub : Nat]]
  BY DEF Typed, RowsOK
<1>2. UNCHANGED ledger /\ (UNCHANGED row \/ (~Exists(o) /\ row' = [row EXCEPT ![o] = NewRow]))
  BY <1>0 DEF Insert
<1>3. NewRow.status = "pending" /\ NewRow.sub = 0
  BY DEF NewRow, NoRow
<1>4. CASE ~Exists(o) /\ row' = [row EXCEPT ![o] = NewRow]
  <2>1. row'[o] = NewRow /\ \A q \in Orders : q # o => row'[q] = row[q]
    BY <1>1, <1>4
  <2>2. ~Settled(o) /\ ~Settled(o)'
    BY <1>3, <1>4, <2>1 DEF Settled, Exists
  <2> QED BY <1>1, <1>2, <1>3, <2>1, <2>2, RowKeepsIssued
<1> QED BY <1>1, <1>2, <1>4, RowKeepsIssued

LEMMA PrepayIssued ==
  ASSUME Typed, Issued, NEW p \in Callers, Prepay(p)
  PROVE  Issued'
<1>0. PICK o \in Orders : o = Order(p)
  BY OrderOf, Constants DEF Prepay, At
<1>1. row \in [Orders -> [status : Statuses, url : Tokens, claim : Tokens,
                                          live : BOOLEAN, sub : Nat]]
  BY DEF Typed, RowsOK
<1>2. UNCHANGED ledger
      /\ (UNCHANGED row \/ (row[o].status = "pending" /\ row' = [row EXCEPT ![o] = NoRow]))
  BY <1>0 DEF Prepay
<1>3. NoRow.status = "none" /\ NoRow.sub = 0
  BY DEF NoRow
<1>4. CASE row[o].status = "pending" /\ row' = [row EXCEPT ![o] = NoRow]
  <2>1. row'[o] = NoRow /\ \A q \in Orders : q # o => row'[q] = row[q]
    BY <1>1, <1>4
  <2>2. ~Settled(o) /\ ~Settled(o)'
    BY <1>3, <1>4, <2>1 DEF Settled
  <2> QED BY <1>1, <1>2, <1>3, <2>1, <2>2, RowKeepsIssued
<1> QED BY <1>1, <1>2, <1>4, RowKeepsIssued

\* A claim, an attached result, a lapsed claim.
LEMMA ColumnsIssued ==
  ASSUME Typed, Issued,
         \/ \E p \in Callers : ClaimWrite(p) \/ Attach(p)
         \/ \E o \in Orders : ClaimLapses(o)
  PROVE  Issued'
<1>1. UNCHANGED ledger
  BY DEF ClaimWrite, Attach, ClaimLapses
<1>2. PICK o \in Orders :
        \/ UNCHANGED row
        \/ \E r : /\ row' = [row EXCEPT ![o] = r]
                  /\ r.status = row[o].status /\ r.sub = row[o].sub
  <2>1. CASE \E o \in Orders : ClaimLapses(o)
    <3>1. PICK o \in Orders : ClaimLapses(o)
      BY <2>1
    <3> DEFINE r == [row[o] EXCEPT !.live = FALSE]
    <3>2. row' = [row EXCEPT ![o] = r]
      BY <3>1 DEF ClaimLapses
    <3>3. r.status = row[o].status /\ r.sub = row[o].sub
      BY RowOf
    <3> HIDE DEF r
    <3> QED BY <3>2, <3>3
  <2>2. CASE \E p \in Callers : ClaimWrite(p)
    <3>1. PICK p \in Callers : ClaimWrite(p)
      BY <2>2
    <3>2. PICK o \in Orders : o = Order(p)
      BY <3>1, OrderOf, Constants DEF ClaimWrite, At
    <3> DEFINE r == [row[o] EXCEPT !.claim = MyToken(p), !.live = TRUE]
    <3>3. UNCHANGED row \/ row' = [row EXCEPT ![o] = r]
      BY <3>1, <3>2 DEF ClaimWrite
    <3>4. r.status = row[o].status /\ r.sub = row[o].sub
      BY RowOf
    <3> HIDE DEF r
    <3> QED BY <3>3, <3>4
  <2>3. CASE \E p \in Callers : Attach(p)
    <3>1. PICK p \in Callers : Attach(p)
      BY <2>3
    <3>2. PICK o \in Orders : o = Order(p)
      BY <3>1, OrderOf, Constants DEF Attach, At
    <3> DEFINE r == [row[o] EXCEPT !.url = MyToken(p), !.claim = NoToken, !.live = FALSE]
    <3>3. UNCHANGED row \/ row' = [row EXCEPT ![o] = r]
      BY <3>1, <3>2 DEF Attach
    <3>4. r.status = row[o].status /\ r.sub = row[o].sub
      BY RowOf
    <3> HIDE DEF r
    <3> QED BY <3>3, <3>4
  <2> QED BY <2>1, <2>2, <2>3
<1>3. row \in [Orders -> [status : Statuses, url : Tokens, claim : Tokens,
                          live : BOOLEAN, sub : Nat]]
  BY DEF Typed, RowsOK
<1>4. /\ \A q \in Orders : q # o => row'[q] = row[q]
      /\ row'[o].status = row[o].status /\ row'[o].sub = row[o].sub
  BY <1>2, <1>3
<1> QED BY <1>1, <1>4, RowKeepsIssued

LEMMA MarkClosedIssued ==
  ASSUME Typed, Issued, NEW o \in Orders, MarkClosed(o)
  PROVE  Issued'
<1>1. row \in [Orders -> [status : Statuses, url : Tokens, claim : Tokens,
                          live : BOOLEAN, sub : Nat]]
  BY DEF Typed, RowsOK
<1>2. UNCHANGED ledger
  BY DEF MarkClosed
<1>3. CASE row[o].status = "pending" /\ row' = [row EXCEPT ![o].status = "closed"]
  <2>1. /\ \A q \in Orders : q # o => row'[q] = row[q]
        /\ row'[o].status = "closed" /\ row'[o].sub = row[o].sub
    BY <1>1, <1>3
  <2>2. ~Settled(o) /\ ~Settled(o)'
    BY <1>3, <2>1 DEF Settled
  <2> QED BY <1>2, <2>1, <2>2, RowKeepsIssued
<1>4. CASE UNCHANGED row
  BY <1>2, <1>4, RowKeepsIssued
<1> QED BY <1>3, <1>4 DEF MarkClosed

\* A balance order: the ledger row and the status together.
LEMMA TopupIssued ==
  ASSUME Typed, Issued, NEW o \in Orders \ Subscription, MarkPaid(o)
  PROVE  Issued'
<1>1. row \in [Orders -> [status : Statuses, url : Tokens, claim : Tokens,
                          live : BOOLEAN, sub : Nat]]
  BY DEF Typed, RowsOK
<1>2. CASE UNCHANGED <<row, ledger>>
  BY <1>2, RowKeepsIssued DEF ledger
<1>3. CASE /\ topups' = topups \cup {o}
           /\ row' = [row EXCEPT ![o].status = "paid"]
           /\ UNCHANGED <<subs, refunds>>
  <2>1. /\ \A q \in Orders : q # o => row'[q] = row[q]
        /\ row'[o].status = "paid" /\ Settled(o)'
    BY <1>1, <1>3 DEF Settled
  <2>2. \A q \in Subscription : row'[q] = row[q]
    BY <2>1, Constants
  <2>3. TopupsOK'
    BY <1>3, <2>1 DEF Issued, TopupsOK, Settled
  <2>4. Opened'
    BY <1>3, <2>2 DEF Issued, Opened
  <2>5. ASSUME NEW q \in Subscription PROVE GrantOK(q)'
    <3>1. GrantOK(q) /\ row'[q] = row[q]
      BY <2>2 DEF Issued, Grants
    <3> QED BY <1>3, <3>1 DEF GrantOK, Refunded, Settled
  <2> QED BY <2>3, <2>4, <2>5 DEF Issued, Grants
<1> QED BY <1>2, <1>3 DEF MarkPaid, Issue

\* What an issue into a new subscription, or into the active one, leaves.
LEMMA Granted ==
  ASSUME Typed, NEW o \in Subscription, Assign(o)
  PROVE  \E s \in DOMAIN subs' :
           /\ row' = [row EXCEPT ![o].status = "paid", ![o].sub = s]
           /\ DOMAIN subs' = DOMAIN subs \cup {s}
           /\ subs'[s].status = "active"
           /\ \A t \in DOMAIN subs : t # s => subs'[t] = subs[t]
           /\ \/ /\ s \notin DOMAIN subs /\ s = Len(subs) + 1
                 /\ subs'[s].terms = [NoTerms EXCEPT ![o] = 1]
              \/ /\ s \in Active
                 /\ subs'[s].terms = [subs[s].terms EXCEPT ![o] = @ + 1]
<1>1. CASE Active = {}
  <2> DEFINE x == [group |-> Group[o], status |-> "active",
                   terms |-> [NoTerms EXCEPT ![o] = 1]]
             s == Len(subs) + 1
  <2>1. subs' = Append(subs, x) /\ row' = [row EXCEPT ![o].status = "paid", ![o].sub = s]
    BY <1>1 DEF Assign
  <2>2. x.status = "active" /\ x.terms = [NoTerms EXCEPT ![o] = 1]
    OBVIOUS
  <2>3. x \in SubscriptionRow
    BY DEF SubscriptionRow, NoTerms
  <2> HIDE DEF x
  <2>4. /\ subs \in Seq(SubscriptionRow) /\ Len(subs) \in Nat
        /\ DOMAIN subs = 1..Len(subs)
    BY SubscriptionTypes
  <2>5. /\ DOMAIN subs' = 1..(Len(subs) + 1) /\ subs'[s] = x
        /\ \A t \in 1..Len(subs) : subs'[t] = subs[t]
    BY <2>1, <2>3, <2>4, AppendProperties
  <2>6. s \in DOMAIN subs' /\ s \notin DOMAIN subs /\ DOMAIN subs' = DOMAIN subs \cup {s}
    BY <2>4, <2>5
  <2>7. \A t \in DOMAIN subs : t # s => subs'[t] = subs[t]
    BY <2>4, <2>5
  <2>8. s = Len(subs) + 1
    OBVIOUS
  <2> HIDE DEF s
  <2>9. /\ subs'[s].status = "active"
        /\ subs'[s].terms = [NoTerms EXCEPT ![o] = 1]
    BY <2>2, <2>5
  <2> QED BY <2>1, <2>6, <2>7, <2>8, <2>9
<1>2. CASE Active # {}
  <2>1. PICK s \in Active :
          /\ subs' = [subs EXCEPT ![s].terms[o] = @ + 1]
          /\ row' = [row EXCEPT ![o].status = "paid", ![o].sub = s]
    BY <1>2 DEF Assign
  <2>2. s \in DOMAIN subs /\ subs[s].status = "active" /\ subs[s] \in SubscriptionRow
        /\ subs[s].terms \in [Subscription -> Nat]
    BY SubscriptionTypes DEF Active
  <2> DEFINE n == subs[s].terms[o] + 1
             x == [subs[s] EXCEPT !.terms[o] = n]
  <2>3. subs' = [subs EXCEPT ![s] = x]
    BY <2>1
  <2>4. x.status = "active" /\ x.terms = [subs[s].terms EXCEPT ![o] = n]
    <3>1. n \in Nat
      BY <2>2
    <3> HIDE DEF n
    <3> QED BY <2>2, <3>1, TermsReplaced
  <2> HIDE DEF x
  <2>5. DOMAIN subs' = DOMAIN subs /\ subs'[s] = x
        /\ \A t \in DOMAIN subs : t # s => subs'[t] = subs[t]
    BY <2>2, <2>3, SubscriptionTypes
  <2>6. subs'[s].terms = [subs[s].terms EXCEPT ![o] = @ + 1]
    BY <2>4, <2>5
  <2>7. s \in DOMAIN subs' /\ DOMAIN subs' = DOMAIN subs \cup {s} /\ subs'[s].status = "active"
    BY <2>2, <2>4, <2>5
  <2> QED BY <2>1, <2>5, <2>6, <2>7
<1> QED BY <1>1, <1>2

LEMMA AssignIssued ==
  ASSUME Typed, Issued, NEW o \in Subscription, row[o].status = "pending",
         Assign(o), UNCHANGED <<topups, refunds>>
  PROVE  Issued'
<1>1. PICK s \in DOMAIN subs' :
        /\ row' = [row EXCEPT ![o].status = "paid", ![o].sub = s]
        /\ DOMAIN subs' = DOMAIN subs \cup {s}
        /\ subs'[s].status = "active"
        /\ \A t \in DOMAIN subs : t # s => subs'[t] = subs[t]
        /\ \/ /\ s \notin DOMAIN subs /\ s = Len(subs) + 1
              /\ subs'[s].terms = [NoTerms EXCEPT ![o] = 1]
           \/ /\ s \in Active
              /\ subs'[s].terms = [subs[s].terms EXCEPT ![o] = @ + 1]
  BY Granted
<1>2. o \in Orders
  BY Constants
<1>3. row \in [Orders -> [status : Statuses, url : Tokens, claim : Tokens,
                          live : BOOLEAN, sub : Nat]]
  BY DEF Typed, RowsOK
<1>4. /\ \A q \in Orders : q # o => row'[q] = row[q]
      /\ row'[o].status = "paid" /\ row'[o].sub = s
  BY <1>1, <1>2, <1>3
<1>5. ~Settled(o) /\ row[o].sub = 0 /\ refunds[o] = <<>>
  BY StampNone DEF Settled
<1>6. /\ s \in Nat /\ s # 0
      /\ \A t \in DOMAIN subs : t \in Nat /\ t # 0
      /\ \A t \in DOMAIN subs : subs[t].terms \in [Subscription -> Nat]
  BY <1>1, SubscriptionTypes DEF Active
<1>7. \A t \in DOMAIN subs : subs[t].terms[o] = 0
  BY <1>5, <1>6 DEF Issued, Grants, GrantOK
<1>8. /\ subs'[s].terms[o] = 1
      /\ \A t \in DOMAIN subs' : t # s => subs'[t].terms[o] = 0
  BY <1>1, <1>6, <1>7 DEF Active, NoTerms
<1>9. GrantOK(o)'
  <2>1. refunds'[o] = <<>> /\ ~Refunded(o, "shorten")' /\ ~Refunded(o, "revoke")'
    BY <1>5 DEF Refunded
  <2> QED BY <1>1, <1>4, <1>8, <2>1 DEF GrantOK, Settled
<1>10. ASSUME NEW q \in Subscription, q # o PROVE GrantOK(q)'
  <2>1. GrantOK(q) /\ row'[q] = row[q] /\ q \in Orders
    BY <1>4, <1>10, Constants DEF Issued, Grants
  <2>2. row[q].sub \in Nat /\ row[q].sub # Len(subs) + 1
    BY <2>1, SubscriptionTypes DEF GrantOK
  <2>3. subs'[s].terms[q] = IF s \in DOMAIN subs THEN subs[s].terms[q] ELSE 0
    BY <1>1, <1>6, <1>10 DEF Active, NoTerms
  <2>4. ASSUME NEW t \in DOMAIN subs'
        PROVE  /\ subs'[t].terms[q] = IF t = row[q].sub /\ ~Refunded(q, "shorten") THEN 1 ELSE 0
               /\ t = row[q].sub /\ Refunded(q, "revoke") => subs'[t].status = "revoked"
    <3>1. CASE t # s
      BY <1>1, <2>1, <3>1 DEF GrantOK
    <3>2. CASE t = s /\ s \in Active
      <4>1. s \in DOMAIN subs /\ subs[s].status = "active"
        BY <3>2 DEF Active
      <4> QED BY <2>1, <2>3, <3>2, <4>1 DEF GrantOK
    <3>3. CASE t = s /\ s \notin DOMAIN subs /\ s = Len(subs) + 1
      BY <2>2, <2>3, <3>3
    <3> QED BY <1>1, <3>1, <3>2, <3>3
  <2> QED BY <1>1, <2>1, <2>4 DEF GrantOK, Settled, Refunded
<1>11. TopupsOK'
  <2>1. \A q \in Orders \ Subscription : row'[q] = row[q]
    BY <1>4
  <2> QED BY <2>1 DEF Issued, TopupsOK, Settled
<1>12. Opened'
  <2> SUFFICES ASSUME NEW t \in DOMAIN subs' PROVE \E q \in Subscription : row'[q].sub = t
    BY DEF Opened
  <2>1. CASE t = s
    BY <1>4, <2>1
  <2>2. CASE t # s
    <3>1. PICK q \in Subscription : row[q].sub = t
      BY <1>1, <2>2 DEF Issued, Opened
    <3>2. q # o /\ q \in Orders
      BY <1>1, <1>5, <1>6, <2>2, <3>1, Constants
    <3> QED BY <1>4, <3>1, <3>2
  <2> QED BY <2>1, <2>2
<1> QED BY <1>9, <1>10, <1>11, <1>12 DEF Issued, Grants

LEMMA MarkPaidIssued ==
  ASSUME Typed, Issued, NEW o \in Orders, MarkPaid(o)
  PROVE  Issued'
<1>1. CASE ~CanBePaid(o)
  BY <1>1, RowKeepsIssued DEF MarkPaid
<1>2. CASE CanBePaid(o) /\ o \in Subscription
  BY <1>2, AssignIssued DEF MarkPaid, Issue, CanBePaid
<1> QED BY <1>1, <1>2, TopupIssued

LEMMA ExpiresIssued ==
  ASSUME Typed, Issued, NEW s \in DOMAIN subs, SubscriptionExpires(s)
  PROVE  Issued'
<1>1. /\ subs[s].status = "active" /\ subs[s] \in SubscriptionRow
      /\ subs' = [subs EXCEPT ![s].status = "expired"]
      /\ UNCHANGED <<row, topups, refunds>>
  BY SubscriptionTypes DEF SubscriptionExpires
<1>2. DOMAIN subs' = DOMAIN subs
  BY <1>1, SubscriptionTypes
<1>3. \A t \in DOMAIN subs :
        /\ subs'[t].terms = subs[t].terms
        /\ t # s => subs'[t].status = subs[t].status
  BY <1>1, SubscriptionTypes DEF SubscriptionRow
<1>4. ASSUME NEW q \in Subscription PROVE GrantOK(q)'
  <2>1. GrantOK(q)
    BY DEF Issued, Grants
  <2> QED BY <1>1, <1>2, <1>3, <2>1 DEF GrantOK, Settled, Refunded
<1>5. TopupsOK' /\ Opened'
  BY <1>1, <1>2 DEF Issued, TopupsOK, Opened, Settled
<1> QED BY <1>4, <1>5 DEF Issued, Grants

LEMMA RefundIssued ==
  ASSUME Typed, Issued, NEW o \in Orders, NEW policy \in Policies, Refund(o, policy)
  PROVE  Issued' /\ RowsOK'
<1>1. /\ o \in Subscription /\ row[o].status = "paid" /\ Reverse(o, policy)
      /\ refunds' = [refunds EXCEPT ![o] = Append(@, policy)]
      /\ row' = [row EXCEPT ![o].status = "refunded"]
      /\ UNCHANGED topups
  BY DEF Refund
<1> DEFINE s == row[o].sub
<1>2. s \in DOMAIN subs /\ refunds[o] = <<>> /\ GrantOK(o) /\ Settled(o)
  BY <1>1 DEF Issued, Grants, GrantOK, Settled
<1>3. PICK x \in SubscriptionRow :
        /\ subs' = [subs EXCEPT ![s] = x]
        /\ policy = "keep" => x = subs[s]
        /\ policy = "revoke" => x.status = "revoked" /\ x.terms = subs[s].terms
        /\ policy = "shorten" =>
             /\ x.status = subs[s].status
             /\ x.terms = [subs[s].terms EXCEPT ![o] = IF @ > 0 THEN @ - 1 ELSE 0]
  BY <1>1, <1>2, ReverseWrites
<1>4. /\ row \in [Orders -> [status : Statuses, url : Tokens, claim : Tokens,
                             live : BOOLEAN, sub : Nat]]
      /\ refunds \in [Subscription -> Seq(Policies)]
      /\ topups \subseteq Orders \ Subscription
  BY DEF Typed, RowsOK
<1>5. /\ \A q \in Orders : q # o => row'[q] = row[q]
      /\ row'[o].status = "refunded" /\ row'[o].sub = s
      /\ row' \in [Orders -> [status : Statuses, url : Tokens, claim : Tokens,
                              live : BOOLEAN, sub : Nat]]
  BY <1>1, <1>4 DEF Statuses
<1>6. /\ refunds'[o] = <<policy>>
      /\ \A q \in Subscription : q # o => refunds'[q] = refunds[q]
      /\ refunds' \in [Subscription -> Seq(Policies)]
  <2>1. Append(refunds[o], policy) = <<policy>> /\ <<policy>> \in Seq(Policies)
    BY <1>2
  <2> QED BY <1>1, <1>4, <2>1
<1>7. /\ DOMAIN subs' = DOMAIN subs /\ subs'[s] = x
      /\ \A t \in DOMAIN subs : t # s => subs'[t] = subs[t]
      /\ subs' \in Seq(SubscriptionRow)
  BY <1>2, <1>3, SubscriptionTypes, SubscriptionWritten
<1>8. RowsOK'
  BY <1>1, <1>4, <1>5, <1>6, <1>7 DEF RowsOK
<1>9. subs[s].terms \in [Subscription -> Nat] /\ subs[s].terms[o] = 1
  <2>1. ~Refunded(o, "shorten")
    BY <1>2 DEF Refunded
  <2> QED BY <1>2, <2>1, SubscriptionTypes DEF GrantOK
<1>10. /\ policy = "shorten" => x.terms[o] = 0
       /\ policy # "shorten" => x.terms[o] = 1
       /\ \A q \in Subscription : q # o => x.terms[q] = subs[s].terms[q]
       /\ x.status = subs[s].status \/ x.status = "revoked"
       /\ policy = "revoke" => x.status = "revoked"
  BY <1>1, <1>3, <1>9 DEF Policies
<1> HIDE DEF s
<1>11. GrantOK(o)'
  <2>1. /\ Refunded(o, "shorten")' <=> policy = "shorten"
        /\ Refunded(o, "revoke")' <=> policy = "revoke"
    BY <1>1, <1>6 DEF Refunded
  <2>2. \A t \in DOMAIN subs : t # s => subs[t].terms[o] = 0
    BY <1>2 DEF GrantOK, s
  <2>3. ASSUME NEW t \in DOMAIN subs'
        PROVE  /\ subs'[t].terms[o] = IF t = s /\ policy # "shorten" THEN 1 ELSE 0
               /\ t = s /\ policy = "revoke" => subs'[t].status = "revoked"
    BY <1>7, <1>10, <2>2
  <2> QED BY <1>2, <1>5, <1>6, <1>7, <2>1, <2>3 DEF GrantOK, Settled
<1>12. ASSUME NEW q \in Subscription, q # o PROVE GrantOK(q)'
  <2>1. GrantOK(q) /\ row'[q] = row[q] /\ refunds'[q] = refunds[q]
    BY <1>5, <1>6, <1>12, Constants DEF Issued, Grants
  <2>2. \A t \in DOMAIN subs :
          /\ subs'[t].terms[q] = subs[t].terms[q]
          /\ subs[t].status = "revoked" => subs'[t].status = "revoked"
    BY <1>7, <1>10, <1>12
  <2> QED BY <1>7, <2>1, <2>2 DEF GrantOK, Settled, Refunded
<1>13. TopupsOK'
  <2>1. \A q \in Orders \ Subscription : row'[q] = row[q]
    BY <1>1, <1>5
  <2> QED BY <1>1, <2>1 DEF Issued, TopupsOK, Settled
<1>14. Opened'
  <2>1. \A q \in Subscription : row'[q].sub = row[q].sub
    BY <1>5, Constants DEF s
  <2> QED BY <1>7, <2>1 DEF Issued, Opened
<1> QED BY <1>8, <1>11, <1>12, <1>13, <1>14 DEF Issued, Grants

LEMMA InitIssued == Init => Typed /\ Issued
<1> SUFFICES ASSUME Init PROVE Typed /\ Issued
  OBVIOUS
<1>1. RowsOK
  <2>1. NoRow \in [status : Statuses, url : Tokens, claim : Tokens, live : BOOLEAN, sub : Nat]
    BY DEF NoRow, Statuses, Tokens
  <2> QED BY <2>1 DEF Init, RowsOK
<1>2. ProviderOK
  BY DEF Init, ProviderOK
<1>3. CallsOK
  BY PaymentAssumption, IdleOK DEF Init, CallsOK
<1>4. Working
  BY IdleOK DEF Init, Working
<1>5. subs = <<>> /\ \A o \in Orders : row[o].status = "none" /\ row[o].sub = 0
  BY DEF Init, NoRow
<1>6. Grants
  BY <1>5, Constants DEF Init, Grants, GrantOK, Settled
<1>7. TopupsOK /\ Opened
  BY <1>5 DEF Init, TopupsOK, Opened, Settled
<1> QED BY <1>1, <1>2, <1>3, <1>4, <1>6, <1>7 DEF Typed, Issued

LEMMA StepRows ==
  ASSUME Typed, Issued, [Next]_vars
  PROVE  RowsOK' /\ Issued'
<1>1. CASE UNCHANGED <<row, ledger>>
  <2>1. RowsOK'
    BY <1>1 DEF Typed, RowsOK, ledger
  <2>2. Issued'
    BY <1>1 DEF Issued, Grants, GrantOK, TopupsOK, Opened, Settled, Refunded, ledger
  <2> QED BY <2>1, <2>2
<1>2. CASE \E p \in Callers : Insert(p) \/ ClaimWrite(p) \/ Prepay(p) \/ Attach(p)
  BY <1>2, InsertRows, ClaimWriteRows, PrepayRows, AttachRows,
     InsertIssued, PrepayIssued, ColumnsIssued
<1>3. CASE (\E p \in Procs : Apply(p)) \/ \E o \in Orders : Notify(o)
  <2>1. CASE UNCHANGED <<row, ledger>>
    BY <1>1, <2>1
  <2>2. CASE \E o \in Orders : MarkPaid(o) \/ MarkClosed(o)
    BY <2>2, MarkPaidRows, MarkClosedRows, MarkPaidIssued, MarkClosedIssued
  <2> QED BY <1>3, <2>1, <2>2, MarkCases
<1>4. CASE \E o \in Orders : ClaimLapses(o)
  BY <1>4, ClaimLapsesRows, ColumnsIssued
<1>5. CASE \E s \in DOMAIN subs : SubscriptionExpires(s)
  BY <1>5, ExpiresRows, ExpiresIssued
<1>6. CASE \E o \in Orders, policy \in Policies : Refund(o, policy)
  BY <1>6, RefundIssued
<1> QED BY <1>1, <1>2, <1>3, <1>4, <1>5, <1>6, RowCases

LEMMA StepCalls ==
  ASSUME Typed, [Next]_vars
  PROVE  ProviderOK' /\ CallsOK' /\ Working'
<1>1. CASE \E p \in Callers, o \in Orders : Create(p, o) \/ Read(p, o)
  BY <1>1, CreateCalls, ReadCalls
<1>2. CASE \E p \in Callers : \/ Insert(p) \/ Reread(p) \/ ClaimRead(p) \/ ClaimWrite(p)
                              \/ Prepay(p) \/ PrepayAnswered(p) \/ PrepayTimeout(p)
                              \/ Attach(p) \/ Answer(p)
  BY <1>2, InsertCalls, RereadCalls, ClaimReadCalls, ClaimWriteCalls, PrepayCalls,
     PrepayAnsweredCalls, PrepayTimeoutCalls, AttachCalls, AnswerCalls
<1>3. CASE \E p \in Procs : Query(p) \/ CloseCall(p) \/ Requery(p) \/ Apply(p) \/ Die(p)
  BY <1>3, QueryCalls, CloseCalls, RequeryCalls, ApplyCalls, DieCalls
<1>4. CASE JobList \/ JobTake
  BY <1>4, JobCalls
<1>5. CASE \E o \in Orders : \/ Notify(o) \/ LatePrepay(o) \/ Pay(o) \/ GiveUp(o)
                             \/ Expire(o) \/ ClaimLapses(o)
  BY <1>5, OutsideCalls, TableCalls DEF Notify, ClaimLapses
<1>6. CASE \E s \in DOMAIN subs : SubscriptionExpires(s)
  BY <1>6, TableCalls DEF SubscriptionExpires
<1>7. CASE \E o \in Orders, policy \in Policies : Refund(o, policy)
  BY <1>7, TableCalls DEF Refund
<1>8. CASE UNCHANGED vars
  BY <1>8, TableCalls DEF vars
<1> QED BY <1>1, <1>2, <1>3, <1>4, <1>5, <1>6, <1>7, <1>8, StepCases

LEMMA AlwaysIssued == Spec => [](Typed /\ Issued)
<1>1. Init => Typed /\ Issued
  BY InitIssued
<1>2. Typed /\ Issued /\ [Next]_vars => (Typed /\ Issued)'
  BY StepRows, StepCalls DEF Typed
<1> QED BY <1>1, <1>2, PTL DEF Spec

\* An order opens at most one subscription: the stamps map the orders onto the
\* subscriptions.
LEMMA SubscriptionsBounded ==
  ASSUME Typed, Issued
  PROVE  Len(subs) <= Cardinality(Subscription)
<1> DEFINE T == {o \in Subscription : row[o].sub \in DOMAIN subs}
           f == [o \in T |-> row[o].sub]
<1>1. IsFiniteSet(Subscription)
  BY Constants, FS_Subset
<1>2. IsFiniteSet(T) /\ Cardinality(T) <= Cardinality(Subscription)
      /\ Cardinality(T) \in Nat /\ Cardinality(Subscription) \in Nat
  <2>1. T \in SUBSET Subscription
    OBVIOUS
  <2> HIDE DEF T
  <2> QED BY <1>1, <2>1, FS_Subset, FS_CardinalityType
<1>3. DOMAIN subs = 1..Len(subs) /\ Len(subs) \in Nat
  BY SubscriptionTypes
<1>4. f \in Surjection(T, 1..Len(subs))
  <2>1. f \in [T -> 1..Len(subs)]
    BY <1>3
  <2>2. \A s \in 1..Len(subs) : \E o \in T : f[o] = s
    BY <1>3 DEF Issued, Opened
  <2> QED BY <2>1, <2>2 DEF Surjection
<1>5. Cardinality(1..Len(subs)) = Len(subs)
  <2>1. \A n \in Nat : Cardinality(1..n) = n
    <3> TAKE n \in Nat
    <3>1. 1 \in Int /\ n \in Int
      OBVIOUS
    <3>2. Cardinality(1..n) = IF 1 > n THEN 0 ELSE n - 1 + 1
      BY <3>1, FS_Interval
    <3> QED BY <3>2
  <2> QED BY <1>3, <2>1
<1>6. Cardinality(1..Len(subs)) <= Cardinality(T)
  <2> HIDE DEF T, f
  <2> QED BY <1>2, <1>4, FS_Surjection
<1> HIDE DEF T
<1> QED BY <1>2, <1>3, <1>5, <1>6

\* Every row, call and ledger entry has its type, and there are no more
\* subscriptions than orders that bought one: a replayed callback, or an answer
\* of the provider applied twice, opens no second one.
THEOREM TypeCorrect == Spec => []TypeOK
<1>1. Typed /\ Issued => TypeOK
  BY SubscriptionsBounded DEF Typed, TypeOK
<1> QED BY <1>1, AlwaysIssued, PTL

\* A refund is credited once, and takes back the time of the order it refunds:
\* the subscription it is stamped with, whatever the user bought since.
THEOREM RefundsTakeOwnTime == Spec => []RefundTakesOwnTime
<1>1. ASSUME Typed, Issued PROVE RefundTakesOwnTime
  <2> SUFFICES ASSUME NEW o \in Subscription
               PROVE  /\ Len(refunds[o]) = IF row[o].status = "refunded" THEN 1 ELSE 0
                      /\ Refunded(o, "revoke") => \A s \in DOMAIN subs :
                            subs[s].terms[o] > 0 => subs[s].status = "revoked"
    BY DEF RefundTakesOwnTime
  <2>1. GrantOK(o)
    BY <1>1 DEF Issued, Grants
  <2>2. Len(refunds[o]) = IF row[o].status = "refunded" THEN 1 ELSE 0
    BY <2>1 DEF GrantOK
  <2>3. ASSUME Refunded(o, "revoke"), NEW s \in DOMAIN subs, subs[s].terms[o] > 0
        PROVE  subs[s].status = "revoked"
    BY <2>1, <2>3 DEF GrantOK
  <2> QED BY <2>2, <2>3
<1> QED BY <1>1, AlwaysIssued, PTL

-----------------------------------------------------------------------------
(* What was decided on the provider's word: its "paid" and "closed" are final. *)

\* The provider will never take money for the order: it closed it, or it never
\* heard of it and takes no prepay request any more.
Never(o) ==
  prov[o] = "closed" \/ (o \in Wechat /\ o \in expired /\ prov[o] = "unknown")

AnswerOK(p) ==
  /\ loc[p].answer = "paid" => prov[Order(p)] = "paid"
  /\ loc[p].answer = "closed" => Never(Order(p))

StatusOK(o) ==
  /\ Settled(o) => prov[o] = "paid"
  /\ row[o].status = "closed" => Never(o)

Verdicts == (\A p \in Procs : AnswerOK(p)) /\ \A o \in Orders : StatusOK(o)

\* No step takes a verdict of the provider back.
LEMMA VerdictsFinal ==
  ASSUME Typed, [Next]_vars, NEW o \in Orders
  PROVE  /\ prov[o] = "paid" => prov'[o] = "paid"
         /\ Never(o) => Never(o)'
<1>1. prov \in [Orders -> {"unknown", "unpaid", "paid", "closed"}]
  BY DEF Typed, ProviderOK
<1>2. CASE UNCHANGED prov /\ (UNCHANGED expired \/ \E q \in Orders : Expire(q))
  BY <1>2 DEF Never, Expire
<1>3. CASE \E p \in Callers : PrepayAnswered(p)
  BY <1>1, <1>3 DEF PrepayAnswered, TakesPrepay, Never
<1>4. CASE \E p \in Procs : CloseCall(p)
  BY <1>1, <1>4 DEF CloseCall, Never
<1>5. CASE \E q \in Orders : LatePrepay(q)
  BY <1>1, <1>5 DEF LatePrepay, TakesPrepay, Never
<1>6. CASE \E q \in Orders : Pay(q) \/ GiveUp(q)
  BY <1>1, <1>6 DEF Pay, GiveUp, Payable, Never
<1>7. CASE \E p \in Callers, q \in Orders : Create(p, q) \/ Read(p, q)
  BY <1>2, <1>7 DEF Create, Read, provider
<1>8. CASE \E p \in Callers : \/ Insert(p) \/ Reread(p) \/ ClaimRead(p) \/ ClaimWrite(p)
                              \/ Prepay(p) \/ PrepayTimeout(p) \/ Attach(p) \/ Answer(p)
  BY <1>2, <1>8 DEF Insert, Reread, ClaimRead, ClaimWrite, Prepay, PrepayTimeout, Attach,
                    Answer, provider
<1>9. CASE \E p \in Procs : Query(p) \/ Requery(p) \/ Apply(p) \/ Die(p)
  BY <1>2, <1>9 DEF Query, Requery, Apply, Die, provider
<1>10. CASE JobList \/ JobTake
  BY <1>2, <1>10 DEF JobList, JobTake, provider
<1>11. CASE \E q \in Orders : Notify(q) \/ Expire(q) \/ ClaimLapses(q)
  BY <1>2, <1>11 DEF Notify, Expire, ClaimLapses, provider
<1>12. CASE \E s \in DOMAIN subs : SubscriptionExpires(s)
  BY <1>2, <1>12 DEF SubscriptionExpires, provider
<1>13. CASE \E q \in Orders, policy \in Policies : Refund(q, policy)
  BY <1>2, <1>13 DEF Refund, provider
<1>14. CASE UNCHANGED vars
  BY <1>2, <1>14 DEF vars, provider
<1> QED BY <1>3, <1>4, <1>5, <1>6, <1>7, <1>8, <1>9, <1>10, <1>11, <1>12, <1>13, <1>14,
           StepCases

\* How the answer of a call comes about.
LEMMA AnswerMoves ==
  ASSUME Typed, [Next]_vars, NEW p \in Procs
  PROVE  \/ loc'[p].answer = loc[p].answer /\ loc'[p].order = loc[p].order
         \/ loc'[p].answer = "none"
         \/ /\ loc'[p].answer = Status(Order(p)) /\ loc'[p].order = Order(p)
            /\ Order(p) \in Orders
<1>1. loc \in [Procs -> Call] /\ Idle.answer = "none" /\ Callers \subseteq Procs
  BY Constants DEF Typed, CallsOK, Idle
<1>2. ASSUME NEW q \in Procs, NEW url, Return(q, url)
      PROVE  loc'[p] = loc[p] \/ loc'[p].answer = "none"
  BY <1>1, <1>2 DEF Return
<1>3. ASSUME NEW q \in Procs, NEW pc, Goto(q, pc)
      PROVE  loc'[p].answer = loc[p].answer /\ loc'[p].order = loc[p].order
  BY <1>1, <1>3 DEF Goto, Call
<1>4. ASSUME NEW q \in Procs, NEW o, Reuse(q, o)
      PROVE  loc'[p] = loc[p] \/ loc'[p].answer = "none"
  BY <1>1, <1>4 DEF Reuse, Idle
<1>5. ASSUME NEW q \in Procs, At(q, "query") \/ At(q, "requery"),
             loc' = [loc EXCEPT ![q].pc = "apply", ![q].answer = Status(Order(q))]
      PROVE  \/ loc'[p] = loc[p]
             \/ /\ loc'[p].answer = Status(Order(p)) /\ loc'[p].order = Order(p)
                /\ Order(p) \in Orders
  <2>1. Order(q) \in Orders
    BY <1>5, OrderOf DEF At
  <2> QED BY <1>1, <1>5, <2>1 DEF Call, Order
<1>6. CASE UNCHANGED loc
  BY <1>6
<1>7. CASE \E q \in Callers, o \in Orders : Create(q, o)
  <2>1. PICK q \in Callers, o \in Orders : Create(q, o)
    BY <1>7
  <2>2. \/ Reuse(q, o)
        \/ loc' = [loc EXCEPT ![q] = [Idle EXCEPT !.pc = "insert",
                                      !.kind = "create", !.order = o]]
    BY <2>1 DEF Create
  <2> QED BY <1>1, <1>4, <2>2 DEF Idle
<1>8. CASE \E q \in Callers, o \in Orders : Read(q, o)
  BY <1>1, <1>8 DEF Read, Idle
<1>9. CASE \E q \in Callers : \/ Insert(q) \/ Reread(q) \/ ClaimRead(q) \/ ClaimWrite(q)
                              \/ Prepay(q) \/ PrepayAnswered(q) \/ PrepayTimeout(q)
                              \/ Attach(q) \/ Answer(q)
  <2>1. PICK q \in Callers : \/ Insert(q) \/ Reread(q) \/ ClaimRead(q) \/ ClaimWrite(q)
                             \/ Prepay(q) \/ PrepayAnswered(q) \/ PrepayTimeout(q)
                             \/ Attach(q) \/ Answer(q)
    BY <1>9
  <2>2. CASE ClaimRead(q)
    <3>1. \/ Return(q, row[Order(q)].url)
          \/ loc' = [loc EXCEPT ![q].pc = "claiming", ![q].seen = row[Order(q)].claim]
      BY <2>2 DEF ClaimRead
    <3> QED BY <1>1, <1>2, <3>1 DEF Call
  <2>3. CASE ~ClaimRead(q)
    <3>1. (\E url : Return(q, url)) \/ (\E pc : Goto(q, pc)) \/ (\E o : Reuse(q, o))
      BY <2>1, <2>3 DEF Insert, Reread, ClaimWrite, Prepay, PrepayAnswered, PrepayTimeout,
                        Attach, Answer
    <3> QED BY <1>1, <1>2, <1>3, <1>4, <3>1
  <2> QED BY <2>2, <2>3
<1>10. CASE \E q \in Procs : Query(q) \/ CloseCall(q) \/ Requery(q) \/ Apply(q) \/ Die(q)
  <2>1. PICK q \in Procs : Query(q) \/ CloseCall(q) \/ Requery(q) \/ Apply(q) \/ Die(q)
    BY <1>10
  <2>2. CASE Query(q) \/ Requery(q)
    <3>1. \/ Goto(q, "close")
          \/ \E url : Return(q, url)
          \/ /\ At(q, "query") \/ At(q, "requery")
             /\ loc' = [loc EXCEPT ![q].pc = "apply", ![q].answer = Status(Order(q))]
      BY <2>2 DEF Query, Requery, QueryFails
    <3> QED BY <1>2, <1>3, <1>5, <3>1
  <2>3. CASE CloseCall(q) \/ Apply(q)
    <3>1. (\E url : Return(q, url)) \/ (\E pc : Goto(q, pc))
      BY <2>3 DEF CloseCall, Apply
    <3> QED BY <1>2, <1>3, <3>1
  <2>4. CASE Die(q)
    BY <1>1, <2>4 DEF Die
  <2> QED BY <2>1, <2>2, <2>3, <2>4
<1>11. CASE JobList \/ JobTake
  BY <1>1, <1>11, Constants DEF JobList, JobTake, Idle
<1>12. CASE \E o \in Orders : \/ Notify(o) \/ LatePrepay(o) \/ Pay(o) \/ GiveUp(o)
                              \/ Expire(o) \/ ClaimLapses(o)
  BY <1>6, <1>12 DEF Notify, LatePrepay, Pay, GiveUp, Expire, ClaimLapses, service
<1>13. CASE \/ \E s \in DOMAIN subs : SubscriptionExpires(s)
            \/ \E o \in Orders, policy \in Policies : Refund(o, policy)
            \/ UNCHANGED vars
  BY <1>6, <1>13 DEF SubscriptionExpires, Refund, vars, service
<1> QED BY <1>7, <1>8, <1>9, <1>10, <1>11, <1>12, <1>13, StepCases

\* An order is settled, or closed, only on the provider's word.
LEMMA StatusMoves ==
  ASSUME Typed, Verdicts, [Next]_vars, NEW o \in Orders
  PROVE  /\ Settled(o)' => Settled(o) \/ prov[o] = "paid"
         /\ row'[o].status = "closed" => row[o].status = "closed" \/ Never(o)
<1>1. row \in [Orders -> [status : Statuses, url : Tokens, claim : Tokens,
                          live : BOOLEAN, sub : Nat]]
  BY DEF Typed, RowsOK
<1>2. CASE UNCHANGED row
  BY <1>2 DEF Settled
<1>3. ASSUME NEW q \in Orders, MarkPaid(q), prov[q] = "paid"
      PROVE  /\ Settled(o)' => Settled(o) \/ prov[o] = "paid"
             /\ row'[o].status = "closed" => row[o].status = "closed" \/ Never(o)
  BY <1>1, <1>3 DEF MarkPaid, Issue, Assign, Settled
<1>4. ASSUME NEW q \in Orders, MarkClosed(q), Never(q)
      PROVE  /\ Settled(o)' => Settled(o) \/ prov[o] = "paid"
             /\ row'[o].status = "closed" => row[o].status = "closed" \/ Never(o)
  BY <1>1, <1>4 DEF MarkClosed, Settled
<1>5. CASE \E p \in Callers : Insert(p) \/ ClaimWrite(p) \/ Prepay(p) \/ Attach(p)
  BY <1>1, <1>5 DEF Insert, NewRow, NoRow, ClaimWrite, Prepay, Attach, Settled
<1>6. CASE \E p \in Procs : Apply(p)
  <2>1. PICK p \in Procs : Apply(p)
    BY <1>6
  <2>2. Order(p) \in Orders
    BY <2>1, OrderOf DEF Apply, At
  <2>3. \/ MarkPaid(Order(p)) /\ loc[p].answer = "paid"
        \/ MarkClosed(Order(p)) /\ loc[p].answer = "closed"
        \/ UNCHANGED row
    BY <2>1 DEF Apply
  <2>4. AnswerOK(p)
    BY DEF Verdicts
  <2> QED BY <1>2, <1>3, <1>4, <2>2, <2>3, <2>4 DEF AnswerOK
<1>7. CASE \E q \in Orders : Notify(q)
  BY <1>3, <1>7 DEF Notify
<1>8. CASE \E q \in Orders : ClaimLapses(q)
  BY <1>1, <1>8 DEF ClaimLapses, Settled
<1>9. CASE \E s \in DOMAIN subs : SubscriptionExpires(s)
  BY <1>2, <1>9 DEF SubscriptionExpires
<1>10. CASE \E q \in Orders, policy \in Policies : Refund(q, policy)
  BY <1>1, <1>10 DEF Refund, Settled
<1> QED BY <1>2, <1>5, <1>6, <1>7, <1>8, <1>9, <1>10, RowCases

LEMMA StepVerdicts ==
  ASSUME Typed, Verdicts, [Next]_vars
  PROVE  Verdicts'
<1>1. ASSUME NEW o \in Orders PROVE StatusOK(o)'
  <2>1. StatusOK(o)
    BY DEF Verdicts
  <2>2. /\ prov[o] = "paid" => prov'[o] = "paid"
        /\ Never(o) => Never(o)'
    BY VerdictsFinal
  <2>3. /\ Settled(o)' => Settled(o) \/ prov[o] = "paid"
        /\ row'[o].status = "closed" => row[o].status = "closed" \/ Never(o)
    BY StatusMoves
  <2> QED BY <2>1, <2>2, <2>3 DEF StatusOK
<1>2. ASSUME NEW p \in Procs PROVE AnswerOK(p)'
  <2>1. AnswerOK(p)
    BY DEF Verdicts
  <2>2. CASE loc'[p].answer = loc[p].answer /\ loc'[p].order = loc[p].order
    <3>1. loc[p].answer # "none" => loc[p].order \in Orders
      BY DEF Typed, Working, CallOK, Idle
    <3>2. PICK o : o = loc[p].order
      OBVIOUS
    <3>3. o \in Orders => /\ prov[o] = "paid" => prov'[o] = "paid"
                          /\ Never(o) => Never(o)'
      BY VerdictsFinal
    <3> QED BY <2>1, <2>2, <3>1, <3>2, <3>3 DEF AnswerOK, Order, Never
  <2>3. CASE loc'[p].answer = "none"
    BY <2>3 DEF AnswerOK
  <2>4. CASE /\ loc'[p].answer = Status(Order(p)) /\ loc'[p].order = Order(p)
             /\ Order(p) \in Orders
    <3>1. PICK o \in Orders : o = Order(p)
      BY <2>4
    <3>2. /\ Status(o) = "paid" => prov[o] = "paid"
          /\ Status(o) = "closed" => Never(o)
      BY RowOf DEF Status, Never
    <3>3. /\ prov[o] = "paid" => prov'[o] = "paid"
          /\ Never(o) => Never(o)'
      BY VerdictsFinal
    <3> QED BY <2>4, <3>1, <3>2, <3>3 DEF AnswerOK, Order, Never
  <2> QED BY <2>2, <2>3, <2>4, AnswerMoves
<1> QED BY <1>1, <1>2 DEF Verdicts

LEMMA AlwaysVerdicts == Spec => []Verdicts
<1>1. Init => Verdicts
  BY DEF Init, Verdicts, AnswerOK, StatusOK, Settled, Idle, NoRow
<1>2. Typed /\ Verdicts /\ [Next]_vars => Verdicts'
  BY StepVerdicts
<1>3. Spec => []Typed
  BY AlwaysIssued, PTL
<1> QED BY <1>1, <1>2, <1>3, PTL DEF Spec

\* However callbacks, reads, repeated creations and the job interleave, an
\* order's asset is issued exactly when its row is paid, once, into the
\* subscription the row is stamped with, and only for money the provider has.
THEOREM IssuedOnce == Spec => []IssuedOnceForPayment
<1>1. ASSUME Typed, Issued, Verdicts PROVE IssuedOnceForPayment
  <2> SUFFICES ASSUME NEW o \in Orders
               PROVE  /\ Settled(o) => prov[o] = "paid"
                      /\ o \notin Subscription => (o \in topups <=> Settled(o))
                      /\ o \in Subscription => \A s \in DOMAIN subs :
                            subs[s].terms[o] =
                               IF s = row[o].sub /\ ~Refunded(o, "shorten") THEN 1 ELSE 0
    BY DEF IssuedOnceForPayment
  <2>1. StatusOK(o)
    BY <1>1 DEF Verdicts
  <2>2. o \notin Subscription => (o \in topups <=> Settled(o))
    BY <1>1 DEF Issued, TopupsOK
  <2>3. o \in Subscription => GrantOK(o)
    BY <1>1 DEF Issued, Grants
  <2> QED BY <2>1, <2>2, <2>3 DEF StatusOK, GrantOK
<1> QED BY <1>1, AlwaysIssued, AlwaysVerdicts, PTL

\* An order that the service closed is never paid at the provider.
THEOREM ClosedStaysUnpaid == Spec => []ClosedIsNeverPaid
<1>1. Verdicts => ClosedIsNeverPaid
  BY DEF Verdicts, StatusOK, Never, ClosedIsNeverPaid
<1> QED BY <1>1, AlwaysVerdicts, PTL

-----------------------------------------------------------------------------
(* A pay URL that was handed out stays the order's pay URL.                  *)

\* The row's URL is the one that was handed out; there is none while the row
\* is claimed, and none on a row that was removed.
UrlOK(o) ==
  /\ handed[o] \subseteq {row[o].url}
  /\ ~Exists(o) => row[o].url = NoToken
  /\ row[o].claim # NoToken => row[o].url = NoToken

\* The call that inserted an alipay row, before it attaches its result, is the
\* only one there is.
Creates(p, o) == loc[p].pc \in {"prepay", "attach"} /\ Order(p) = o /\ o \notin Wechat

CreatorOK(o) ==
  \A p \in Procs : Creates(p, o) =>
    /\ Exists(o) /\ row[o].url = NoToken
    /\ \A q \in Procs : Creates(q, o) => q = p

\* A call that asks the provider answers with no URL, or with the row's.
Asking == {"query", "close", "requery", "apply"}

SeenOK(p) == loc[p].pc \in Asking => loc[p].seen \in {NoToken, row[Order(p)].url}

Urls ==
  /\ \A o \in Orders : UrlOK(o) /\ CreatorOK(o)
  /\ \A p \in Procs : SeenOK(p)

\* What a step does to the URL of a row.
UrlMove(o) ==
  /\ row'[o].url = row[o].url \/ row[o].url = NoToken
  /\ ~Exists(o)' => row'[o].url = NoToken
  /\ row'[o].claim # NoToken => row'[o].url = NoToken
  /\ Exists(o) /\ ~Exists(o)' /\ o \notin Wechat =>
       \E p \in Procs : Creates(p, o) /\ loc'[p] = Idle
  /\ row[o].url = NoToken /\ row'[o].url # NoToken /\ o \notin Wechat =>
       \E p \in Procs : Creates(p, o) /\ loc'[p].pc = "answer"

\* A step that leaves the columns alone.
LEMMA UrlKept ==
  ASSUME Urls, NEW o \in Orders,
         row'[o].url = row[o].url, row'[o].claim \in {row[o].claim, NoToken},
         Exists(o)' <=> Exists(o)
  PROVE  UrlMove(o)
BY DEF UrlMove, Urls, UrlOK

LEMMA InsertUrls ==
  ASSUME Typed, Urls, NEW p \in Callers, Insert(p), NEW o \in Orders
  PROVE  UrlMove(o)
<1>1. row \in [Orders -> [status : Statuses, url : Tokens, claim : Tokens,
                          live : BOOLEAN, sub : Nat]]
  BY DEF Typed, RowsOK
<1>2. PICK q \in Orders : q = Order(p)
  BY OrderOf, Constants DEF Insert, At
<1>3. UNCHANGED row \/ (~Exists(q) /\ row' = [row EXCEPT ![q] = NewRow])
  BY <1>2 DEF Insert
<1>4. CASE ~Exists(q) /\ row' = [row EXCEPT ![q] = NewRow] /\ o = q
  <2>1. row[o].url = NoToken
    BY <1>4 DEF Urls, UrlOK
  <2>2. row'[o] = NewRow /\ NewRow.status = "pending" /\ NewRow.url = NoToken
        /\ NewRow.claim = NoToken
    BY <1>1, <1>4 DEF NewRow, NoRow
  <2> QED BY <1>4, <2>1, <2>2 DEF UrlMove, Exists
<1>5. CASE row'[o] = row[o]
  BY <1>5, UrlKept DEF Exists
<1> QED BY <1>1, <1>3, <1>4, <1>5

LEMMA ClaimWriteUrls ==
  ASSUME Typed, Urls, NEW p \in Callers, ClaimWrite(p), NEW o \in Orders
  PROVE  UrlMove(o)
<1>1. row \in [Orders -> [status : Statuses, url : Tokens, claim : Tokens,
                          live : BOOLEAN, sub : Nat]]
  BY DEF Typed, RowsOK
<1>2. PICK q \in Orders : q = Order(p)
  BY OrderOf, Constants DEF ClaimWrite, At
<1>3. \/ UNCHANGED row
      \/ /\ row[q].url = NoToken
         /\ row' = [row EXCEPT ![q].claim = MyToken(p), ![q].live = TRUE]
  BY <1>2 DEF ClaimWrite
<1>4. CASE /\ row[q].url = NoToken /\ o = q
           /\ row' = [row EXCEPT ![q].claim = MyToken(p), ![q].live = TRUE]
  <2>1. row'[o].url = NoToken /\ row[o].url = NoToken /\ row'[o].status = row[o].status
    BY <1>1, <1>4
  <2> QED BY <2>1 DEF UrlMove, Exists
<1>5. CASE row'[o] = row[o]
  BY <1>5, UrlKept DEF Exists
<1> QED BY <1>1, <1>3, <1>4, <1>5

LEMMA PrepayUrls ==
  ASSUME Typed, Urls, NEW p \in Callers, Prepay(p), NEW o \in Orders
  PROVE  UrlMove(o)
<1>1. /\ row \in [Orders -> [status : Statuses, url : Tokens, claim : Tokens,
                             live : BOOLEAN, sub : Nat]]
      /\ loc \in [Procs -> Call] /\ p \in Procs
  BY Constants DEF Typed, RowsOK, CallsOK
<1>2. PICK q \in Orders : q = Order(p)
  BY OrderOf, Constants DEF Prepay, At
<1>3. \/ UNCHANGED row
      \/ /\ q \notin Wechat /\ Return(p, NoToken)
         /\ row' = [row EXCEPT ![q] = NoRow]
  BY <1>2 DEF Prepay
<1>4. CASE /\ q \notin Wechat /\ Return(p, NoToken) /\ o = q
           /\ row' = [row EXCEPT ![q] = NoRow]
  <2>1. Creates(p, o) /\ loc'[p] = Idle
    BY <1>1, <1>2, <1>4 DEF Creates, Prepay, At, Return
  <2>2. row'[o] = NoRow /\ NoRow.url = NoToken /\ NoRow.claim = NoToken
        /\ NoRow.status = "none"
    BY <1>1, <1>4 DEF NoRow
  <2>3. row[o].url = NoToken
    BY <1>1, <2>1 DEF Urls, CreatorOK
  <2> QED BY <1>1, <2>1, <2>2, <2>3 DEF UrlMove, Exists
<1>5. CASE row'[o] = row[o]
  BY <1>5, UrlKept DEF Exists
<1> QED BY <1>1, <1>3, <1>4, <1>5

LEMMA AttachUrls ==
  ASSUME Typed, Urls, NEW p \in Callers, Attach(p), NEW o \in Orders
  PROVE  UrlMove(o)
<1>1. /\ row \in [Orders -> [status : Statuses, url : Tokens, claim : Tokens,
                             live : BOOLEAN, sub : Nat]]
      /\ loc \in [Procs -> Call] /\ p \in Procs /\ loc[p].pc = "attach"
  BY Constants DEF Typed, RowsOK, CallsOK, Attach, At
<1>2. PICK q \in Orders : q = Order(p)
  BY <1>1, OrderOf
<1>3. \/ UNCHANGED row
      \/ /\ CanAttach(p) /\ Goto(p, "answer")
         /\ row' = [row EXCEPT ![q].url = MyToken(p), ![q].claim = NoToken, ![q].live = FALSE]
  BY <1>2 DEF Attach
<1>4. CASE /\ CanAttach(p) /\ Goto(p, "answer") /\ o = q
           /\ row' = [row EXCEPT ![q].url = MyToken(p), ![q].claim = NoToken, ![q].live = FALSE]
  <2>1. loc'[p].pc = "answer"
    BY <1>1, <1>4 DEF Goto, Call
  <2>2. /\ row'[o].claim = NoToken /\ row'[o].status = row[o].status
        /\ row[o].status = "pending"
    BY <1>1, <1>2, <1>4 DEF CanAttach
  <2>3. o \notin Wechat => Creates(p, o)
    BY <1>1, <1>2, <1>4 DEF Creates
  <2>4. row[o].url = NoToken
    <3>1. CASE o \notin Wechat
      BY <1>1, <2>3, <3>1 DEF Urls, CreatorOK
    <3>2. CASE o \in Wechat
      <4>1. row[o].claim = MyToken(p)
        BY <1>2, <1>4, <3>2 DEF CanAttach
      <4>2. MyToken(p) # NoToken
        BY TokenOfCall, NoTokenIsNone
      <4> QED BY <4>1, <4>2 DEF Urls, UrlOK
    <3> QED BY <3>1, <3>2
  <2> QED BY <1>1, <2>1, <2>2, <2>3, <2>4 DEF UrlMove, Exists
<1>5. CASE row'[o] = row[o]
  BY <1>5, UrlKept DEF Exists
<1> QED BY <1>1, <1>3, <1>4, <1>5

LEMMA StepUrlMoves ==
  ASSUME Typed, Urls, [Next]_vars, NEW o \in Orders
  PROVE  UrlMove(o)
<1>1. row \in [Orders -> [status : Statuses, url : Tokens, claim : Tokens,
                          live : BOOLEAN, sub : Nat]]
  BY DEF Typed, RowsOK
<1>2. CASE UNCHANGED row
  BY <1>2, UrlKept DEF Exists
<1>3. ASSUME NEW q \in Orders, MarkPaid(q) \/ MarkClosed(q)
      PROVE  UrlMove(o)
  <2>1. /\ row'[o].url = row[o].url /\ row'[o].claim = row[o].claim
        /\ Exists(o)' <=> Exists(o)
    BY <1>1, <1>3 DEF MarkPaid, CanBePaid, Issue, Assign, MarkClosed, Exists
  <2> QED BY <2>1, UrlKept
<1>4. CASE (\E p \in Procs : Apply(p)) \/ \E q \in Orders : Notify(q)
  BY <1>2, <1>3, <1>4, MarkCases
<1>5. CASE \E q \in Orders : ClaimLapses(q)
  <2>1. /\ row'[o].url = row[o].url /\ row'[o].claim = row[o].claim
        /\ Exists(o)' <=> Exists(o)
    BY <1>1, <1>5 DEF ClaimLapses, Exists
  <2> QED BY <2>1, UrlKept
<1>6. CASE \E q \in Orders, policy \in Policies : Refund(q, policy)
  <2>1. /\ row'[o].url = row[o].url /\ row'[o].claim = row[o].claim
        /\ Exists(o)' <=> Exists(o)
    BY <1>1, <1>6 DEF Refund, Exists
  <2> QED BY <2>1, UrlKept
<1>7. CASE \E s \in DOMAIN subs : SubscriptionExpires(s)
  BY <1>2, <1>7 DEF SubscriptionExpires
<1>8. CASE \E p \in Callers : Insert(p) \/ ClaimWrite(p) \/ Prepay(p) \/ Attach(p)
  BY <1>8, InsertUrls, ClaimWriteUrls, PrepayUrls, AttachUrls
<1> QED BY <1>2, <1>4, <1>5, <1>6, <1>7, <1>8, RowCases

\* What a step hands out, and where it takes a call.
HandedMove(o) == handed'[o] \subseteq handed[o] \cup {row[o].url}

\* p has just inserted the row, and nobody else has moved
Inserts(p, o) ==
  /\ loc[p].pc = "insert" /\ ~Exists(o) /\ row'[o] = NewRow
  /\ \A q \in Procs : q # p => loc'[q] = loc[q]

CallMove(p) ==
  /\ \A o \in Orders : Creates(p, o)' => Creates(p, o) \/ Inserts(p, o)
  /\ loc'[p].pc \in Asking => loc'[p].seen \in {NoToken, row[loc'[p].order].url}

Moves == (\A o \in Orders : HandedMove(o)) /\ \A p \in Procs : CallMove(p)

LEMMA MoveKept ==
  ASSUME Urls, NEW p \in Procs, loc'[p] = loc[p] \/ loc'[p] = Idle
  PROVE  CallMove(p)
<1>1. CASE loc'[p] = loc[p]
  BY <1>1 DEF CallMove, Creates, Urls, SeenOK, Order
<1>2. CASE loc'[p] = Idle
  BY <1>2 DEF CallMove, Creates, Asking, Idle
<1> QED BY <1>1, <1>2

LEMMA HandedGiven ==
  ASSUME Typed, NEW q \in Orders, NEW url, url \in {NoToken, row[q].url},
         handed' = Given(q, url) \/ UNCHANGED handed
  PROVE  \A o \in Orders : HandedMove(o)
<1>1. handed \in [Orders -> SUBSET Token]
  BY DEF Typed, ProviderOK
<1> QED BY <1>1 DEF HandedMove, Given

LEMMA ReturnMoves ==
  ASSUME Typed, Urls, NEW p \in Procs, loc[p].pc # "idle", NEW url, Return(p, url),
         url \in {NoToken, row[Order(p)].url}
  PROVE  Moves
<1>1. loc \in [Procs -> Call] /\ Order(p) \in Orders
  BY OrderOf DEF Typed, CallsOK
<1>2. \A q \in Procs : loc'[q] = loc[q] \/ loc'[q] = Idle
  BY <1>1 DEF Return
<1>3. \A o \in Orders : HandedMove(o)
  <2>1. PICK q \in Orders : q = Order(p)
    BY <1>1
  <2> QED BY <2>1, HandedGiven DEF Return
<1> QED BY <1>2, <1>3, MoveKept DEF Moves

LEMMA GotoMoves ==
  ASSUME Typed, Urls, NEW p \in Procs, NEW pc, Goto(p, pc), UNCHANGED handed,
         loc[p].pc # "idle",
         pc \in {"prepay", "attach"} =>
           Order(p) \in Wechat \/ Creates(p, Order(p)) \/ Inserts(p, Order(p)),
         pc \in Asking => loc[p].pc \in Asking
  PROVE  Moves
<1>1. loc \in [Procs -> Call] /\ Order(p) \in Orders /\ loc[p] \in Call
  BY OrderOf DEF Typed, CallsOK
<1>2. /\ loc'[p].pc = pc /\ loc'[p].order = loc[p].order /\ loc'[p].seen = loc[p].seen
      /\ \A q \in Procs : q # p => loc'[q] = loc[q]
  BY <1>1 DEF Goto, Call
<1>3. CallMove(p)
  <2>1. ASSUME NEW o \in Orders, Creates(p, o)' PROVE Creates(p, o) \/ Inserts(p, o)
    <3>1. pc \in {"prepay", "attach"} /\ o = Order(p) /\ o \notin Wechat
      BY <1>2, <2>1 DEF Creates, Order
    <3> QED BY <3>1
  <2>2. pc \in Asking => loc'[p].seen \in {NoToken, row[loc'[p].order].url}
    BY <1>2 DEF Urls, SeenOK, Order
  <2> QED BY <1>2, <2>1, <2>2 DEF CallMove
<1>4. \A q \in Procs : CallMove(q)
  BY <1>2, <1>3, MoveKept
<1>5. \A o \in Orders : HandedMove(o)
  BY DEF HandedMove
<1> QED BY <1>4, <1>5 DEF Moves

\* A call that starts, or goes on, as c.
LEMMA BecomesMoves ==
  ASSUME Typed, Urls, NEW p \in Procs, NEW c, loc' = [loc EXCEPT ![p] = c],
         UNCHANGED handed, c.pc \notin {"prepay", "attach"},
         c.pc \in Asking => c.seen \in {NoToken, row[c.order].url}
  PROVE  Moves
<1>1. loc \in [Procs -> Call]
  BY DEF Typed, CallsOK
<1>2. loc'[p] = c /\ \A q \in Procs : q # p => loc'[q] = loc[q]
  BY <1>1
<1>3. CallMove(p)
  BY <1>2 DEF CallMove, Creates
<1>4. \A q \in Procs : CallMove(q)
  BY <1>2, <1>3, MoveKept
<1> QED BY <1>4 DEF Moves, HandedMove

LEMMA ReuseMoves ==
  ASSUME Typed, Urls, NEW p \in Callers, NEW o \in Orders, Reuse(p, o)
  PROVE  Moves
<1>1. p \in Procs /\ loc \in [Procs -> Call]
  BY Constants DEF Typed, CallsOK
<1>2. CASE loc' = [loc EXCEPT ![p] = [Idle EXCEPT !.pc = "query",
                                      !.kind = "reuse", !.order = o]]
           /\ UNCHANGED handed
  <2> DEFINE c == [Idle EXCEPT !.pc = "query", !.kind = "reuse", !.order = o]
  <2>1. c.pc = "query" /\ c.seen = NoToken
    BY DEF Idle
  <2>2. loc' = [loc EXCEPT ![p] = c]
    BY <1>2
  <2> HIDE DEF c
  <2> QED BY <1>1, <1>2, <2>1, <2>2, BecomesMoves
<1>3. CASE loc' = [loc EXCEPT ![p] = Idle] /\ handed' = Given(o, row[o].url)
  <2>1. \A q \in Procs : loc'[q] = loc[q] \/ loc'[q] = Idle
    BY <1>1, <1>3
  <2>2. \A q \in Orders : HandedMove(q)
    BY <1>3, HandedGiven
  <2> QED BY <2>1, <2>2, MoveKept DEF Moves
<1> QED BY <1>2, <1>3 DEF Reuse

LEMMA CreateMoves ==
  ASSUME Typed, Urls, NEW p \in Callers, NEW o \in Orders, Create(p, o)
  PROVE  Moves
<1> DEFINE c == [Idle EXCEPT !.pc = "insert", !.kind = "create", !.order = o]
<1>1. p \in Procs
  BY Constants
<1>2. c.pc = "insert"
  BY DEF Idle
<1>3. Reuse(p, o) \/ (loc' = [loc EXCEPT ![p] = c] /\ UNCHANGED handed)
  BY DEF Create
<1> HIDE DEF c
<1> QED BY <1>1, <1>2, <1>3, ReuseMoves, BecomesMoves DEF Asking

LEMMA ReadMoves ==
  ASSUME Typed, Urls, NEW p \in Callers, NEW o \in Orders, Read(p, o)
  PROVE  Moves
<1> DEFINE c == [Idle EXCEPT !.pc = "query", !.kind = "read", !.order = o,
                             !.seen = row[o].url]
<1>1. p \in Procs
  BY Constants
<1>2. c.pc = "query" /\ c.order = o /\ c.seen = row[o].url
  BY DEF Idle
<1>3. \/ loc' = [loc EXCEPT ![p] = c] /\ UNCHANGED handed
      \/ handed' = Given(o, row[o].url) /\ UNCHANGED loc
  BY DEF Read
<1> HIDE DEF c
<1>4. CASE handed' = Given(o, row[o].url) /\ UNCHANGED loc
  BY <1>4, HandedGiven, MoveKept DEF Moves
<1> QED BY <1>1, <1>2, <1>3, <1>4, BecomesMoves

LEMMA InsertMoves ==
  ASSUME Typed, Urls, NEW p \in Callers, Insert(p)
  PROVE  Moves
<1>1. p \in Procs /\ loc[p].pc = "insert" /\ loc \in [Procs -> Call] /\ UNCHANGED handed
  BY Constants DEF Insert, At, Typed, CallsOK
<1>2. PICK o \in Orders : o = Order(p)
  BY <1>1, OrderOf
<1>3. CASE Exists(o)
  BY <1>1, <1>2, <1>3, GotoMoves DEF Insert, Asking
<1>4. CASE ~Exists(o)
  <2>1. /\ row' = [row EXCEPT ![o] = NewRow]
        /\ \/ o \in Wechat /\ Goto(p, "claim")
           \/ o \notin Wechat /\ Goto(p, "prepay")
    BY <1>2, <1>4 DEF Insert
  <2>2. Inserts(p, o)
    BY <1>1, <1>4, <2>1 DEF Inserts, Goto, Typed, RowsOK
  <2> QED BY <1>1, <1>2, <2>1, <2>2, GotoMoves DEF Asking
<1> QED BY <1>3, <1>4

LEMMA ClaimReadMoves ==
  ASSUME Typed, Urls, NEW p \in Callers, ClaimRead(p)
  PROVE  Moves
<1> DEFINE c == [loc[p] EXCEPT !.pc = "claiming", !.seen = row[Order(p)].claim]
<1>1. p \in Procs /\ loc[p].pc = "claim" /\ loc[p] \in Call
  BY Constants DEF ClaimRead, At, Typed, CallsOK
<1>2. c.pc = "claiming"
  BY <1>1 DEF Call
<1>3. \/ Return(p, row[Order(p)].url)
      \/ loc' = [loc EXCEPT ![p] = c] /\ UNCHANGED handed
  BY DEF ClaimRead
<1> HIDE DEF c
<1> QED BY <1>1, <1>2, <1>3, ReturnMoves, BecomesMoves DEF Asking

LEMMA CreationMoves ==
  ASSUME Typed, Urls, NEW p \in Callers,
         \/ Reread(p) \/ ClaimWrite(p) \/ Prepay(p) \/ PrepayAnswered(p)
         \/ PrepayTimeout(p) \/ Attach(p) \/ Answer(p)
  PROVE  Moves
<1>1. p \in Procs
  BY Constants
<1>2. CASE Reread(p)
  BY <1>1, <1>2, OrderOf, ReuseMoves, ReturnMoves DEF Reread, At
<1>3. CASE ClaimWrite(p)
  <2>1. loc[p].pc = "claiming" /\ Order(p) \in Wechat
    BY <1>1, <1>3, OrderOf DEF ClaimWrite, At, CallOK, Order
  <2> QED BY <1>1, <1>3, <2>1, GotoMoves DEF ClaimWrite, Asking
<1>4. CASE Prepay(p)
  <2>1. loc[p].pc = "prepay" /\ (Order(p) \notin Wechat => Creates(p, Order(p)))
    BY <1>4 DEF Prepay, At, Creates
  <2>2. \/ Return(p, NoToken)
        \/ Goto(p, "prepaying") /\ UNCHANGED handed
        \/ Goto(p, "attach") /\ UNCHANGED handed
    BY <1>4 DEF Prepay
  <2> QED BY <1>1, <2>1, <2>2, ReturnMoves, GotoMoves DEF Asking
<1>5. CASE PrepayAnswered(p)
  <2>1. loc[p].pc = "prepaying" /\ Order(p) \in Wechat
    BY <1>1, <1>5, OrderOf DEF PrepayAnswered, At, CallOK, Order
  <2>2. Return(p, NoToken) \/ (Goto(p, "attach") /\ UNCHANGED handed)
    BY <1>5 DEF PrepayAnswered
  <2> QED BY <1>1, <2>1, <2>2, ReturnMoves, GotoMoves DEF Asking
<1>6. CASE PrepayTimeout(p)
  BY <1>1, <1>6, ReturnMoves DEF PrepayTimeout, At
<1>7. CASE Attach(p)
  <2>1. loc[p].pc = "attach"
    BY <1>7 DEF Attach, At
  <2>2. Return(p, NoToken) \/ (Goto(p, "answer") /\ UNCHANGED handed)
    BY <1>7 DEF Attach
  <2> QED BY <1>1, <2>1, <2>2, ReturnMoves, GotoMoves DEF Asking
<1>8. CASE Answer(p)
  BY <1>1, <1>8, ReturnMoves DEF Answer, At
<1> QED BY <1>2, <1>3, <1>4, <1>5, <1>6, <1>7, <1>8

\* A query that fails, and a query that succeeds.
LEMMA QueryMoves ==
  ASSUME Typed, Urls, NEW p \in Procs, loc[p].pc \in {"query", "requery"},
         \/ QueryFails(p)
         \/ (\E answer : loc' = [loc EXCEPT ![p].pc = "apply", ![p].answer = answer])
              /\ UNCHANGED handed
         \/ Goto(p, "close") /\ UNCHANGED handed
  PROVE  Moves
<1>1. loc[p] \in Call /\ Order(p) \in Orders /\ loc[p].pc \in Asking /\ loc[p].pc # "idle"
  BY OrderOf DEF Typed, CallsOK, Asking
<1>2. loc[p].seen \in {NoToken, row[Order(p)].url}
  BY <1>1 DEF Urls, SeenOK
<1>3. CASE QueryFails(p)
  <2>1. PICK url \in {NoToken, row[Order(p)].url} : Return(p, url)
    BY <1>2, <1>3 DEF QueryFails
  <2> QED BY <1>1, <2>1, ReturnMoves
<1>4. ASSUME NEW answer, loc' = [loc EXCEPT ![p].pc = "apply", ![p].answer = answer],
             UNCHANGED handed
      PROVE  Moves
  <2> DEFINE c == [loc[p] EXCEPT !.pc = "apply", !.answer = answer]
  <2>1. c.pc = "apply" /\ c.seen = loc[p].seen /\ c.order = Order(p)
    BY <1>1 DEF Call, Order
  <2>2. loc' = [loc EXCEPT ![p] = c]
    BY <1>4
  <2> HIDE DEF c
  <2> QED BY <1>2, <1>4, <2>1, <2>2, BecomesMoves
<1>5. CASE Goto(p, "close") /\ UNCHANGED handed
  BY <1>1, <1>5, GotoMoves
<1> QED BY <1>3, <1>4, <1>5

LEMMA ApplyMoves ==
  ASSUME Typed, Urls, NEW p \in Procs, Apply(p)
  PROVE  Moves
<1>1. loc[p].pc = "apply" /\ Order(p) \in Orders /\ loc[p].pc \in Asking
  BY OrderOf DEF Apply, At, Asking
<1>2. loc[p].seen \in {NoToken, row[Order(p)].url}
  BY <1>1 DEF Urls, SeenOK
<1>3. CASE Goto(p, "claim") /\ UNCHANGED handed
  BY <1>1, <1>3, GotoMoves DEF Asking
<1>4. CASE Return(p, loc[p].seen)
  BY <1>1, <1>2, <1>4, ReturnMoves
<1>5. ASSUME NEW good, Return(p, Shown(Order(p), good))
      PROVE  Moves
  <2>1. PICK url \in {NoToken, row[Order(p)].url} : url = Shown(Order(p), good)
    BY DEF Shown
  <2> QED BY <1>1, <1>5, <2>1, ReturnMoves
<1> QED BY <1>3, <1>4, <1>5 DEF Apply

LEMMA RefreshMoves ==
  ASSUME Typed, Urls, NEW p \in Procs, Refresh(p)
  PROVE  Moves
<1>1. CASE Query(p)
  BY <1>1, QueryMoves DEF Query, At
<1>2. CASE Requery(p)
  BY <1>2, QueryMoves DEF Requery, At
<1>3. CASE CloseCall(p)
  BY <1>3, GotoMoves DEF CloseCall, At, Asking
<1>4. CASE Apply(p)
  BY <1>4, ApplyMoves
<1> QED BY <1>1, <1>2, <1>3, <1>4 DEF Refresh

LEMMA StepMoves ==
  ASSUME Typed, Urls, [Next]_vars
  PROVE  Moves
<1>1. loc \in [Procs -> Call]
  BY DEF Typed, CallsOK
<1>2. CASE UNCHANGED <<loc, handed>>
  BY <1>2, MoveKept DEF Moves, HandedMove
<1>3. CASE \E p \in Callers, o \in Orders : Create(p, o) \/ Read(p, o)
  BY <1>3, CreateMoves, ReadMoves
<1>4. CASE \E p \in Callers : \/ Insert(p) \/ Reread(p) \/ ClaimRead(p) \/ ClaimWrite(p)
                              \/ Prepay(p) \/ PrepayAnswered(p) \/ PrepayTimeout(p)
                              \/ Attach(p) \/ Answer(p)
  BY <1>4, InsertMoves, ClaimReadMoves, CreationMoves
<1>5. CASE \E p \in Procs : Query(p) \/ CloseCall(p) \/ Requery(p) \/ Apply(p)
  BY <1>5, RefreshMoves DEF Refresh
<1>6. CASE \E p \in Procs : Die(p)
  <2>1. UNCHANGED handed /\ \A q \in Procs : loc'[q] = loc[q] \/ loc'[q] = Idle
    BY <1>1, <1>6 DEF Die
  <2> QED BY <2>1, MoveKept DEF Moves, HandedMove
<1>7. CASE JobTake
  <2>1. PICK o \in Orders : /\ UNCHANGED handed
                            /\ loc' = [loc EXCEPT ![Job] = [Idle EXCEPT !.pc = "query",
                                                  !.kind = "job", !.order = o]]
    BY <1>7 DEF JobTake, Smallest, Typed, CallsOK
  <2> DEFINE c == [Idle EXCEPT !.pc = "query", !.kind = "job", !.order = o]
  <2>2. c.pc = "query" /\ c.seen = NoToken
    BY DEF Idle
  <2>3. loc' = [loc EXCEPT ![Job] = c]
    BY <2>1
  <2> HIDE DEF c
  <2> QED BY <2>1, <2>2, <2>3, Constants, BecomesMoves
<1>8. CASE \/ JobList
           \/ \E o \in Orders : \/ Notify(o) \/ LatePrepay(o) \/ Pay(o) \/ GiveUp(o)
                                \/ Expire(o) \/ ClaimLapses(o)
           \/ \E s \in DOMAIN subs : SubscriptionExpires(s)
           \/ \E o \in Orders, policy \in Policies : Refund(o, policy)
           \/ UNCHANGED vars
  BY <1>2, <1>8 DEF JobList, Notify, LatePrepay, Pay, GiveUp, Expire, ClaimLapses,
     SubscriptionExpires, Refund, vars, service
<1> QED BY <1>3, <1>4, <1>5, <1>6, <1>7, <1>8, StepCases

LEMMA StepUrls ==
  ASSUME Typed, Typed', Urls, [Next]_vars
  PROVE  Urls'
<1>1. Moves /\ \A o \in Orders : UrlMove(o)
  BY StepMoves, StepUrlMoves
<1>2. ASSUME NEW o \in Orders PROVE UrlOK(o)'
  <2>1. UrlMove(o) /\ HandedMove(o) /\ UrlOK(o)
    BY <1>1 DEF Moves, Urls
  <2>2. handed[o] \subseteq Token /\ handed'[o] \subseteq Token
    BY DEF Typed, ProviderOK
  <2>3. handed'[o] \subseteq {row'[o].url}
    BY <2>1, <2>2, NoTokenIsNone DEF UrlMove, HandedMove, UrlOK
  <2> QED BY <2>1, <2>3 DEF UrlMove, UrlOK
<1>3. ASSUME NEW o \in Orders PROVE CreatorOK(o)'
  <2>1. UrlMove(o) /\ UrlOK(o) /\ CreatorOK(o)
    BY <1>1 DEF Urls
  <2> SUFFICES ASSUME NEW p \in Procs, Creates(p, o)'
               PROVE  /\ Exists(o)' /\ row'[o].url = NoToken
                      /\ \A q \in Procs : Creates(q, o)' => q = p
    BY DEF CreatorOK
  <2>2. \A q \in Procs : Creates(q, o)' => Creates(q, o) \/ Inserts(q, o)
    BY <1>1 DEF Moves, CallMove
  <2>3. o \notin Wechat /\ loc'[p].pc \in {"prepay", "attach"}
    BY DEF Creates
  <2>4. \A q \in Procs : Creates(q, o) => Exists(o) /\ row[o].url = NoToken
    BY <2>1 DEF CreatorOK
  <2>5. CASE Creates(p, o)
    <3>1. \A q \in Procs : Creates(q, o) => q = p
      BY <2>1, <2>5 DEF CreatorOK
    <3>2. \A q \in Procs : Creates(q, o)' => q = p
      BY <2>2, <2>4, <2>5, <3>1 DEF Inserts
    <3>3. Exists(o)' /\ row'[o].url = NoToken
      BY <2>1, <2>3, <2>4, <2>5, <3>1 DEF UrlMove, Idle
    <3> QED BY <3>2, <3>3
  <2>6. CASE Inserts(p, o)
    <3>1. row'[o] = NewRow /\ NewRow.status = "pending" /\ NewRow.url = NoToken
      BY <2>6 DEF Inserts, NewRow, NoRow
    <3>2. \A q \in Procs : Creates(q, o)' /\ q # p => Creates(q, o)
      BY <2>6 DEF Inserts, Creates, Order
    <3>3. \A q \in Procs : ~Creates(q, o)
      BY <2>4, <2>6 DEF Inserts
    <3> QED BY <3>1, <3>2, <3>3 DEF Exists
  <2> QED BY <2>2, <2>5, <2>6
<1>4. ASSUME NEW p \in Procs PROVE SeenOK(p)'
  <2> SUFFICES ASSUME loc'[p].pc \in Asking
               PROVE  loc'[p].seen \in {NoToken, row'[loc'[p].order].url}
    BY DEF SeenOK, Order
  <2>1. loc'[p].seen \in {NoToken, row[loc'[p].order].url}
    BY <1>1 DEF Moves, CallMove
  <2>2. PICK o \in Orders : o = loc'[p].order
    BY DEF Typed, Working, CallOK, Asking
  <2>3. UrlMove(o)
    BY <1>1
  <2> QED BY <2>1, <2>2, <2>3 DEF UrlMove
<1> QED BY <1>2, <1>3, <1>4 DEF Urls

LEMMA AlwaysUrls == Spec => []Urls
<1>1. Init => Urls
  BY DEF Init, Urls, UrlOK, CreatorOK, SeenOK, Creates, Asking, Idle, NoRow
<1>2. Typed /\ Typed' /\ Urls /\ [Next]_vars => Urls'
  BY StepUrls
<1>3. Spec => []Typed
  BY AlwaysIssued, PTL
<1> QED BY <1>1, <1>2, <1>3, PTL DEF Spec

\* Every user who was given a pay URL for an order was given the one its row
\* holds, for good: no creation that was overtaken replaces it.
THEOREM HandedUrlsStand == Spec => []HandedUrlStands
<1>1. Urls => HandedUrlStands
  BY DEF Urls, UrlOK, HandedUrlStands
<1> QED BY <1>1, AlwaysUrls, PTL
=============================================================================
