------------------------- MODULE SubscriptionProofs -------------------------
(***************************************************************************)
(* Proofs about SubscriptionWindow for any number of requests, any writers *)
(* and windows, all lengths and limits of the windows, and any bound on    *)
(* time and on edits.                                                      *)
(***************************************************************************)
EXTENDS SubscriptionWindow, SumLemmas, TLAPS

-----------------------------------------------------------------------------
(* Windows. *)

LEMMA DivIs ==
  ASSUME NEW x \in Nat, NEW p \in Nat \ {0}
  PROVE  /\ x \div p \in Nat
         /\ p * (x \div p) <= x /\ x < p * (x \div p) + p
OBVIOUS

LEMMA DivUnique ==
  ASSUME NEW x \in Nat, NEW p \in Nat \ {0}, NEW q \in Nat,
         p * q <= x, x < p * q + p
  PROVE  x \div p = q
OBVIOUS

LEMMA TimesMonotone ==
  ASSUME NEW p \in Nat, NEW a \in Nat, NEW b \in Nat, a <= b
  PROVE  p * a <= p * b
OBVIOUS

LEMMA AlignedIs ==
  ASSUME NEW s \in Scopes, NEW t \in Nat, StartsAt <= t
  PROVE  Aligned(s, t) \in Nat /\ StartsAt <= Aligned(s, t) /\ Aligned(s, t) <= t
<1>1. StartsAt \in Nat /\ Period[s] \in Nat \ {0} /\ t - StartsAt \in Nat
  BY WindowAssumption
<1> DEFINE q == (t - StartsAt) \div Period[s]
<1>2. q \in Nat /\ Period[s] * q <= t - StartsAt
  BY <1>1, DivIs
<1>3. Period[s] * q \in Nat /\ q * Period[s] = Period[s] * q
  BY <1>1, <1>2
<1>4. Aligned(s, t) = StartsAt + q * Period[s]
  BY DEF Aligned
<1> HIDE DEF q
<1> QED BY <1>1, <1>2, <1>3, <1>4

LEMMA AlignedMonotone ==
  ASSUME NEW s \in Scopes, NEW t \in Nat, NEW u \in Nat, StartsAt <= t, t <= u
  PROVE  Aligned(s, t) <= Aligned(s, u)
<1> DEFINE p == Period[s]
           a == (t - StartsAt) \div p
           b == (u - StartsAt) \div p
<1>1. StartsAt \in Nat /\ p \in Nat \ {0} /\ t - StartsAt \in Nat /\ u - StartsAt \in Nat
  BY WindowAssumption
<1>2. /\ a \in Nat /\ p * a <= t - StartsAt
      /\ b \in Nat /\ u - StartsAt < p * b + p
  BY <1>1, DivIs
<1>3. /\ Aligned(s, t) = StartsAt + a * p
      /\ Aligned(s, u) = StartsAt + b * p
  BY DEF Aligned
<1> HIDE DEF p, a, b
<1>4. a <= b
  <2> SUFFICES ASSUME b + 1 <= a PROVE FALSE
    BY <1>2
  <2>1. p * (b + 1) <= p * a
    BY <1>1, <1>2, TimesMonotone
  <2>2. p * (b + 1) = p * b + p
    BY <1>1, <1>2
  <2> QED BY <1>1, <1>2, <2>1, <2>2
<1>5. p * a <= p * b /\ p * a = a * p /\ p * b = b * p /\ a * p \in Nat /\ b * p \in Nat
  BY <1>1, <1>2, <1>4, TimesMonotone
<1> QED BY <1>1, <1>3, <1>5

LEMMA AlignedAgain ==
  ASSUME NEW s \in Scopes, NEW t \in Nat, StartsAt <= t
  PROVE  Aligned(s, Aligned(s, t)) = Aligned(s, t)
<1> DEFINE p == Period[s]
           a == (t - StartsAt) \div p
<1>1. StartsAt \in Nat /\ p \in Nat \ {0} /\ t - StartsAt \in Nat
  BY WindowAssumption
<1>2. a \in Nat
  BY <1>1, DivIs
<1>3. Aligned(s, t) = StartsAt + a * p
  BY DEF Aligned
<1>4. Aligned(s, Aligned(s, t)) = StartsAt + ((Aligned(s, t) - StartsAt) \div p) * p
  BY DEF Aligned
<1> HIDE DEF p, a
<1>5. a * p \in Nat /\ a * p = p * a /\ Aligned(s, t) - StartsAt = p * a
  BY <1>1, <1>2, <1>3
<1>6. (p * a) \div p = a
  BY <1>1, <1>2, <1>5, DivUnique
<1> QED BY <1>3, <1>4, <1>5, <1>6

\* A window that started by time t is no later than the window of t.
LEMMA AlignedBetween ==
  ASSUME NEW s \in Scopes, NEW t \in Nat, NEW u \in Nat, StartsAt <= t, StartsAt <= u,
         Aligned(s, u) <= t
  PROVE  Aligned(s, u) <= Aligned(s, t)
<1>1. Aligned(s, u) \in Nat /\ StartsAt <= Aligned(s, u)
  BY AlignedIs
<1>2. Aligned(s, Aligned(s, u)) <= Aligned(s, t)
  BY <1>1, AlignedMonotone
<1> QED BY <1>2, AlignedAgain

-----------------------------------------------------------------------------
(* Rows and their usage at a time. *)

UsageAt(x, s, t) == IF x.start[s] < Aligned(s, t) THEN 0 ELSE x.usage[s]

LEMMA ScopeFacts ==
  /\ StartsAt \in Nat /\ StartsAt > 0 /\ Term \in Nat /\ Scopes # {} /\ NRequests \in Nat
  /\ Costs \subseteq Nat /\ MaxEdits \in Nat /\ MaxTime \in Nat
  /\ \A s \in Scopes : Limit[s] \in Nat
BY WindowAssumption

LEMMA WindowsType ==
  ASSUME NEW t \in Nat, StartsAt <= t
  PROVE  /\ Windows(t) \in [Scopes -> Nat]
         /\ \A s \in Scopes : Windows(t)[s] = Aligned(s, t)
BY AlignedIs DEF Windows

LEMMA RollIs ==
  ASSUME NEW x \in Row, NEW t \in Nat, StartsAt <= t
  PROVE  /\ Roll(x, t) \in Row
         /\ Roll(x, t).start = Windows(t)
         /\ \A s \in Scopes : Roll(x, t).usage[s] = UsageAt(x, s, t)
         /\ Roll(x, t).status = x.status /\ Roll(x, t).expires = x.expires
         /\ Roll(x, t).rev = x.rev
<1>1. Windows(t) \in [Scopes -> Nat]
  BY WindowsType
<1>2. [s \in Scopes |-> IF x.start[s] < Aligned(s, t) THEN 0 ELSE x.usage[s]]
        \in [Scopes -> Nat]
  BY DEF Row
<1> QED BY <1>1, <1>2 DEF Roll, Row, UsageAt

LEMMA UsageNat ==
  ASSUME NEW x \in Row, NEW s \in Scopes, NEW t
  PROVE  UsageAt(x, s, t) \in Nat
BY DEF UsageAt, Row

-----------------------------------------------------------------------------
(* What open reservations hold in a window, and what it was charged. *)

ReservationRow ==
  [status : {"none", "reserved", "committed", "released"},
   amount : Nat, snapshot : BOOLEAN, win : [Scopes -> Nat], charge : Nat, at : Nat]

FrozenCell(q, s, t) ==
  IF q.status = "reserved" /\ q.win[s] = Aligned(s, t) THEN q.amount ELSE 0

ChargeCell(q, s, t) ==
  IF q.status = "committed" /\ Aligned(s, q.at) = Aligned(s, t) THEN q.charge ELSE 0

EarlierCell(q, s, t) ==
  IF q.win[s] # Aligned(s, t) THEN ChargeCell(q, s, t) ELSE 0

FrozenSum(rows, s, t) == Total([r \in Requests |-> FrozenCell(rows[r], s, t)], NRequests)
ChargeSum(rows, s, t) == Total([r \in Requests |-> ChargeCell(rows[r], s, t)], NRequests)
EarlierSum(rows, s, t) == Total([r \in Requests |-> EarlierCell(rows[r], s, t)], NRequests)

\* The sums of the model are the totals of these cells.
LEMMA SumsAre ==
  ASSUME NEW s \in Scopes
  PROVE  /\ Frozen(s, now, Requests) = FrozenSum(res, s, now)
         /\ Charged(s, Requests) = ChargeSum(res, s, now)
         /\ Charged(s, Earlier(s)) = EarlierSum(res, s, now)
<1>1. [r \in Requests |->
         IF r \in {x \in Requests : Reserved(x) /\ res[x].win[s] = Aligned(s, now)}
         THEN res[r].amount ELSE 0]
      = [r \in Requests |-> FrozenCell(res[r], s, now)]
  BY DEF FrozenCell, Reserved
<1>2. [r \in Requests |->
         IF r \in {x \in Requests : /\ res[x].status = "committed"
                                    /\ Aligned(s, res[x].at) = Aligned(s, now)}
         THEN res[r].charge ELSE 0]
      = [r \in Requests |-> ChargeCell(res[r], s, now)]
  BY DEF ChargeCell
<1>3. [r \in Requests |->
         IF r \in {x \in Earlier(s) : /\ res[x].status = "committed"
                                      /\ Aligned(s, res[x].at) = Aligned(s, now)}
         THEN res[r].charge ELSE 0]
      = [r \in Requests |-> EarlierCell(res[r], s, now)]
  BY DEF ChargeCell, EarlierCell, Earlier
<1> QED BY <1>1, <1>2, <1>3 DEF Frozen, Charged, FrozenSum, ChargeSum, EarlierSum

LEMMA CellTypes ==
  ASSUME NEW q \in ReservationRow, NEW s, NEW t
  PROVE  /\ FrozenCell(q, s, t) \in Nat /\ ChargeCell(q, s, t) \in Nat
         /\ EarlierCell(q, s, t) \in Nat
BY DEF FrozenCell, ChargeCell, EarlierCell, ReservationRow

LEMMA SumTypes ==
  ASSUME NEW rows \in [Requests -> ReservationRow], NEW s, NEW t
  PROVE  /\ FrozenSum(rows, s, t) \in Nat /\ ChargeSum(rows, s, t) \in Nat
         /\ EarlierSum(rows, s, t) \in Nat
<1>1. \A r \in 1..NRequests : rows[r] \in ReservationRow
  BY DEF Requests
<1>2. \A r \in 1..NRequests : /\ FrozenCell(rows[r], s, t) \in Nat
                              /\ ChargeCell(rows[r], s, t) \in Nat
                              /\ EarlierCell(rows[r], s, t) \in Nat
  BY <1>1, CellTypes
<1> QED BY <1>2, TotalNatural, ScopeFacts DEF FrozenSum, ChargeSum, EarlierSum, Requests

\* One reservation changes.
LEMMA SumsMove ==
  ASSUME NEW rows \in [Requests -> ReservationRow],
         NEW rows2 \in [Requests -> ReservationRow], NEW r \in Requests,
         \A i \in Requests : i # r => rows2[i] = rows[i],
         NEW s, NEW t
  PROVE  /\ FrozenSum(rows2, s, t) =
              FrozenSum(rows, s, t) + (FrozenCell(rows2[r], s, t) - FrozenCell(rows[r], s, t))
         /\ ChargeSum(rows2, s, t) =
              ChargeSum(rows, s, t) + (ChargeCell(rows2[r], s, t) - ChargeCell(rows[r], s, t))
         /\ EarlierSum(rows2, s, t) =
              EarlierSum(rows, s, t) + (EarlierCell(rows2[r], s, t) - EarlierCell(rows[r], s, t))
<1>1. /\ \A i \in Requests : rows[i] \in ReservationRow /\ rows2[i] \in ReservationRow
      /\ Requests = 1..NRequests /\ NRequests \in Nat
  BY ScopeFacts DEF Requests
<1>2. FrozenSum(rows2, s, t) =
        FrozenSum(rows, s, t) + (FrozenCell(rows2[r], s, t) - FrozenCell(rows[r], s, t))
  <2> DEFINE g == [i \in Requests |-> FrozenCell(rows[i], s, t)]
             h == [i \in Requests |-> FrozenCell(rows2[i], s, t)]
  <2>1. \A x \in ReservationRow : FrozenCell(x, s, t) \in Nat
    BY CellTypes
  <2>2. /\ \A i \in 1..NRequests : g[i] \in Int
        /\ h[r] = FrozenCell(rows2[r], s, t) /\ g[r] = FrozenCell(rows[r], s, t) /\ h[r] \in Int
        /\ \A i \in 1..NRequests : i # r => h[i] = g[i]
    BY <1>1, <2>1
  <2>3. Total(g, NRequests) = FrozenSum(rows, s, t) /\ Total(h, NRequests) = FrozenSum(rows2, s, t)
    BY DEF FrozenSum
  <2> HIDE DEF g, h
  <2>4. Total(h, NRequests) = Total(g, NRequests) + (h[r] - g[r])
    BY <1>1, <2>2, TotalUpdate
  <2> QED BY <2>2, <2>3, <2>4
<1>3. ChargeSum(rows2, s, t) =
        ChargeSum(rows, s, t) + (ChargeCell(rows2[r], s, t) - ChargeCell(rows[r], s, t))
  <2> DEFINE g == [i \in Requests |-> ChargeCell(rows[i], s, t)]
             h == [i \in Requests |-> ChargeCell(rows2[i], s, t)]
  <2>1. \A x \in ReservationRow : ChargeCell(x, s, t) \in Nat
    BY CellTypes
  <2>2. /\ \A i \in 1..NRequests : g[i] \in Int
        /\ h[r] = ChargeCell(rows2[r], s, t) /\ g[r] = ChargeCell(rows[r], s, t) /\ h[r] \in Int
        /\ \A i \in 1..NRequests : i # r => h[i] = g[i]
    BY <1>1, <2>1
  <2>3. Total(g, NRequests) = ChargeSum(rows, s, t) /\ Total(h, NRequests) = ChargeSum(rows2, s, t)
    BY DEF ChargeSum
  <2> HIDE DEF g, h
  <2>4. Total(h, NRequests) = Total(g, NRequests) + (h[r] - g[r])
    BY <1>1, <2>2, TotalUpdate
  <2> QED BY <2>2, <2>3, <2>4
<1>4. EarlierSum(rows2, s, t) =
        EarlierSum(rows, s, t) + (EarlierCell(rows2[r], s, t) - EarlierCell(rows[r], s, t))
  <2> DEFINE g == [i \in Requests |-> EarlierCell(rows[i], s, t)]
             h == [i \in Requests |-> EarlierCell(rows2[i], s, t)]
  <2>1. \A x \in ReservationRow : EarlierCell(x, s, t) \in Nat
    BY CellTypes
  <2>2. /\ \A i \in 1..NRequests : g[i] \in Int
        /\ h[r] = EarlierCell(rows2[r], s, t) /\ g[r] = EarlierCell(rows[r], s, t) /\ h[r] \in Int
        /\ \A i \in 1..NRequests : i # r => h[i] = g[i]
    BY <1>1, <2>1
  <2>3. Total(g, NRequests) = EarlierSum(rows, s, t) /\ Total(h, NRequests) = EarlierSum(rows2, s, t)
    BY DEF EarlierSum
  <2> HIDE DEF g, h
  <2>4. Total(h, NRequests) = Total(g, NRequests) + (h[r] - g[r])
    BY <1>1, <2>2, TotalUpdate
  <2> QED BY <2>2, <2>3, <2>4
<1> QED BY <1>2, <1>3, <1>4

-----------------------------------------------------------------------------
(* Type correctness, with what the recorded times say about the present.     *)

RowOK(x, t) == x \in Row /\ \A s \in Scopes : x.start[s] <= t

\* A reservation was admitted in the past; a commit took its time after that.
RequestOK(q, c, t) ==
  /\ c # 0 => /\ q.status = "reserved" /\ c \in StartsAt..t
              /\ \A s \in Scopes : q.win[s] <= Aligned(s, c)
  /\ \A s \in Scopes : q.win[s] <= Aligned(s, t)
  /\ q.status = "committed" => q.at \in StartsAt..t

Job == [op : {"extend", "revoke", "reset", "expire"}, row : Row,
        at : Nat, what : SUBSET Scopes]

\* What a writer has read was a row it may act on.
JobOK(j, t) ==
  /\ j \in Job /\ j.at <= t /\ RowOK(j.row, t)
  /\ j.op \in {"extend", "revoke"} => j.row.status # "revoked"
  /\ j.op = "expire" => j.row.status = "active" /\ j.row.expires <= t

WriterOK(w) == held[w] = [op |-> "none"] \/ JobOK(held[w], now)

Typed ==
  /\ now \in StartsAt..Larger(MaxTime, StartsAt)
  /\ RowOK(sub, now)
  /\ res \in [Requests -> ReservationRow] /\ called \in [Requests -> Nat]
  /\ \A r \in Requests : RequestOK(res[r], called[r], now)
  /\ DOMAIN held = Writers /\ held = [w \in Writers |-> held[w]]
  /\ \A w \in Writers : WriterOK(w)
  /\ edits \in 0..MaxEdits /\ disturbed \subseteq Scopes

LEMMA TypedNow ==
  ASSUME Typed
  PROVE  /\ now \in Nat /\ StartsAt <= now /\ sub \in Row
         /\ \A r \in Requests : res[r] \in ReservationRow /\ called[r] \in Nat
BY ScopeFacts DEF Typed, RowOK

\* Less headroom than any window has.
LEMMA HeadroomIs ==
  ASSUME Typed, NEW R \in SUBSET Requests
  PROVE  /\ Absorbable(R) \in Nat
         /\ \A s \in Scopes : Remaining(s, R) \in Nat /\ Absorbable(R) <= Remaining(s, R)
<1>1. ASSUME NEW s \in Scopes PROVE Remaining(s, R) \in Nat
  <2>1. Roll(sub, now).usage[s] \in Nat
    BY TypedNow, RollIs, UsageNat
  <2>2. Frozen(s, now, R) \in Nat
    <3> DEFINE g == [r \in Requests |->
                       IF r \in {x \in R : Reserved(x) /\ res[x].win[s] = Aligned(s, now)}
                       THEN res[r].amount ELSE 0]
    <3>1. \A r \in 1..NRequests : g[r] \in Nat
      BY TypedNow DEF Requests, ReservationRow
    <3>2. Frozen(s, now, R) = Total(g, NRequests)
      BY DEF Frozen
    <3> HIDE DEF g
    <3> QED BY <3>1, <3>2, TotalNatural, ScopeFacts
  <2> QED BY <2>1, <2>2, ScopeFacts DEF Remaining
<1> DEFINE S == {Remaining(s, R) : s \in Scopes}
<1>2. S \in SUBSET Nat /\ S # {}
  BY <1>1, ScopeFacts
<1>3. Min(S) \in S /\ \A x \in S : Min(S) <= x
  <2> HIDE DEF S
  <2> QED BY <1>2, LeastNatural DEF Min
<1>4. Absorbable(R) = Min(S)
  BY DEF Absorbable
<1>5. \A s \in Scopes : Remaining(s, R) \in S
  OBVIOUS
<1> HIDE DEF S
<1> QED BY <1>1, <1>2, <1>3, <1>4, <1>5

\* A charge is natural, and more than the reserved part only by the headroom.
LEMMA AbsorbsIs ==
  ASSUME Typed, NEW r \in Requests, NEW cost \in Costs
  PROVE  /\ Absorbs(r, cost) \in Nat
         /\ Absorbs(r, cost) <= res[r].amount \/ Absorbs(r, cost) <= Absorbable(Requests \ {r})
<1>1. cost \in Nat /\ res[r].amount \in Nat /\ Absorbable(Requests \ {r}) \in Nat
  BY TypedNow, ScopeFacts, HeadroomIs DEF ReservationRow
<1> QED BY <1>1 DEF Absorbs, MinOf, Larger

LEMMA InitTyped == Init => Typed
<1> SUFFICES ASSUME Init PROVE Typed
  OBVIOUS
<1>1. RowOK(sub, now)
  BY ScopeFacts DEF Init, RowOK, Row, Statuses
<1>2. NoRow \in ReservationRow /\ NoRow.status = "none" /\ \A s \in Scopes : NoRow.win[s] = 0
  BY DEF NoRow, ReservationRow
<1>3. ASSUME NEW r \in Requests PROVE RequestOK(res[r], called[r], now)
  <2>1. res[r] = NoRow /\ called[r] = 0 /\ now = StartsAt
    BY DEF Init
  <2>2. \A s \in Scopes : 0 <= Aligned(s, StartsAt)
    BY AlignedIs, ScopeFacts
  <2> QED BY <1>2, <2>1, <2>2 DEF RequestOK
<1>4. /\ now \in StartsAt..Larger(MaxTime, StartsAt)
      /\ res \in [Requests -> ReservationRow] /\ called \in [Requests -> Nat]
      /\ edits \in 0..MaxEdits /\ disturbed \subseteq Scopes
  <2>1. now = StartsAt /\ now \in StartsAt..Larger(MaxTime, StartsAt)
    BY ScopeFacts DEF Init, Larger
  <2>2. res \in [Requests -> ReservationRow] /\ called \in [Requests -> Nat]
    <3>1. res = [r \in Requests |-> NoRow] /\ called = [r \in Requests |-> 0]
      BY DEF Init
    <3> QED BY <1>2, <3>1
  <2>3. edits \in 0..MaxEdits
    BY ScopeFacts DEF Init
  <2>4. disturbed \subseteq Scopes
    BY DEF Init
  <2> QED BY <2>1, <2>2, <2>3, <2>4
<1>5. /\ DOMAIN held = Writers /\ held = [w \in Writers |-> held[w]]
      /\ \A w \in Writers : WriterOK(w)
  BY DEF Init, WriterOK
<1> QED BY <1>1, <1>3, <1>4, <1>5 DEF Typed

\* One reservation and the time its commit took change, and perhaps the row.
LEMMA RequestTyped ==
  ASSUME Typed, NEW r \in Requests, NEW q \in ReservationRow, NEW c \in Nat,
         RequestOK(q, c, now), RowOK(sub', now),
         res' = [res EXCEPT ![r] = q], called' = [called EXCEPT ![r] = c],
         disturbed' \subseteq Scopes, UNCHANGED <<now, held, edits>>
  PROVE  Typed'
<1>1. res' \in [Requests -> ReservationRow] /\ called' \in [Requests -> Nat]
  BY DEF Typed
<1>2. \A x \in Requests : RequestOK(res'[x], called'[x], now')
  BY DEF Typed
<1>3. \A w \in Writers : WriterOK(w)'
  BY DEF Typed, WriterOK
<1> QED BY <1>1, <1>2, <1>3 DEF Typed

LEMMA ReserveTyped ==
  ASSUME Typed, NEW r \in Requests, NEW cost \in Costs, NEW snapshot \in BOOLEAN,
         Reserve(r, cost, snapshot)
  PROVE  Typed'
<1> DEFINE q == [NoRow EXCEPT !.status = "reserved", !.snapshot = snapshot,
                              !.amount = MinOf(cost, Absorbable(Requests)),
                              !.win = Windows(now)]
<1>1. MinOf(cost, Absorbable(Requests)) \in Nat
  BY HeadroomIs, ScopeFacts DEF MinOf
<1>2. Windows(now) \in [Scopes -> Nat] /\ \A s \in Scopes : Windows(now)[s] = Aligned(s, now)
  BY TypedNow, WindowsType
<1>3. q \in ReservationRow /\ q.status = "reserved" /\ q.win = Windows(now)
  BY <1>1, <1>2 DEF NoRow, ReservationRow
<1>4. called[r] = 0
  BY TypedNow DEF Typed, RequestOK, Reserve
<1>5. called' = [called EXCEPT ![r] = 0]
  BY <1>4 DEF Reserve, Typed
<1>6. res' = [res EXCEPT ![r] = q] /\ UNCHANGED <<now, sub, held, edits, disturbed>>
  BY DEF Reserve
<1> HIDE DEF q
<1>7. RequestOK(q, 0, now)
  <2>1. \A s \in Scopes : Aligned(s, now) \in Nat
    BY AlignedIs, TypedNow
  <2> QED BY <1>2, <1>3, <2>1 DEF RequestOK
<1>8. RowOK(sub', now) /\ disturbed' \subseteq Scopes
  BY <1>6 DEF Typed, RowOK
<1> QED BY <1>3, <1>5, <1>6, <1>7, <1>8, RequestTyped

LEMMA CallCommitTyped ==
  ASSUME Typed, NEW r \in Requests, CallCommit(r)
  PROVE  Typed'
<1>1. res' = [res EXCEPT ![r] = res[r]] /\ res[r] \in ReservationRow
  BY TypedNow DEF CallCommit, Typed
<1>2. RequestOK(res[r], now, now)
  BY TypedNow DEF CallCommit, Reserved, Typed, RequestOK
<1>3. RowOK(sub', now) /\ disturbed' \subseteq Scopes
  BY DEF Typed, RowOK, CallCommit
<1> QED BY <1>1, <1>2, <1>3, TypedNow, RequestTyped DEF CallCommit

LEMMA ReleaseTyped ==
  ASSUME Typed, NEW r \in Requests, Release(r)
  PROVE  Typed'
<1> DEFINE q == [res[r] EXCEPT !.status = "released"]
<1>1. q \in ReservationRow /\ q.status = "released" /\ q.win = res[r].win
  BY TypedNow DEF ReservationRow
<1>2. res' = [res EXCEPT ![r] = q]
  BY DEF Release
<1> HIDE DEF q
<1>3. RequestOK(q, 0, now)
  BY <1>1 DEF Typed, RequestOK
<1>4. RowOK(sub', now) /\ disturbed' \subseteq Scopes
  BY DEF Typed, RowOK, Release
<1> QED BY <1>1, <1>2, <1>3, <1>4, RequestTyped DEF Release

\* The row a charge leaves behind.
LEMMA ChargedRow ==
  ASSUME Typed, NEW r \in Requests, NEW cost \in Costs, Commit(r, cost)
  PROVE  /\ called[r] \in StartsAt..now
         /\ sub' \in Row /\ sub'.start = Windows(called[r])
         /\ \A s \in Scopes :
              sub'.usage[s] = UsageAt(sub, s, called[r]) + Absorbs(r, cost)
         /\ sub'.status = sub.status /\ sub'.expires = sub.expires /\ sub'.rev = sub.rev
<1> DEFINE at == called[r]
           charge == Absorbs(r, cost)
           x == Roll(sub, at)
<1>1. /\ at \in Nat /\ at \in StartsAt..now /\ StartsAt <= at /\ at # 0
      /\ \A s \in Scopes : res[r].win[s] <= Aligned(s, at)
  BY TypedNow DEF Typed, RequestOK, Commit
<1>2. charge \in Nat
  BY AbsorbsIs
<1>3. /\ x \in Row /\ x.start = Windows(at) /\ \A s \in Scopes : x.usage[s] = UsageAt(sub, s, at)
      /\ x.status = sub.status /\ x.expires = sub.expires /\ x.rev = sub.rev
  BY <1>1, TypedNow, RollIs
<1>4. \A s \in Scopes : res[r].win[s] <= x.start[s]
  BY <1>1, <1>3, WindowsType
<1>5. AddFrozenUsage(sub, res[r].win, charge, at) =
        [x EXCEPT !.usage = [s \in Scopes |-> x.usage[s] +
                               (IF res[r].win[s] <= x.start[s] THEN charge ELSE 0)]]
  BY DEF AddFrozenUsage
<1>6. AddUsageByID(sub, charge, at) =
        [x EXCEPT !.usage = [s \in Scopes |-> x.usage[s] + charge]]
  BY DEF AddUsageByID
<1>7. sub' \in {AddFrozenUsage(sub, res[r].win, charge, at), AddUsageByID(sub, charge, at)}
  BY DEF Commit
<1> HIDE DEF at, charge, x
<1>8. [s \in Scopes |-> x.usage[s] + (IF res[r].win[s] <= x.start[s] THEN charge ELSE 0)]
        = [s \in Scopes |-> x.usage[s] + charge]
  BY <1>4
<1>9. sub' = [x EXCEPT !.usage = [s \in Scopes |-> x.usage[s] + charge]]
  BY <1>5, <1>6, <1>7, <1>8
<1>10. /\ sub' \in Row /\ sub'.start = x.start
       /\ \A s \in Scopes : sub'.usage[s] = x.usage[s] + charge
       /\ sub'.status = x.status /\ sub'.expires = x.expires /\ sub'.rev = x.rev
  <2>1. [s \in Scopes |-> x.usage[s] + charge] \in [Scopes -> Nat]
    BY <1>2, <1>3 DEF Row
  <2> QED BY <1>3, <1>9, <2>1 DEF Row
<1> QED BY <1>1, <1>3, <1>10 DEF at, charge

LEMMA CommitTyped ==
  ASSUME Typed, NEW r \in Requests, NEW cost \in Costs, Commit(r, cost)
  PROVE  Typed'
<1> DEFINE q == [res[r] EXCEPT !.status = "committed", !.charge = Absorbs(r, cost),
                               !.at = called[r]]
<1>1. called[r] \in StartsAt..now /\ sub' \in Row /\ sub'.start = Windows(called[r])
  BY ChargedRow
<1>2. q \in ReservationRow /\ q.status = "committed" /\ q.win = res[r].win /\ q.at = called[r]
  BY TypedNow, AbsorbsIs DEF ReservationRow
<1>3. res' = [res EXCEPT ![r] = q]
  BY DEF Commit
<1> HIDE DEF q
<1>4. RequestOK(q, 0, now)
  BY <1>1, <1>2 DEF Typed, RequestOK
<1>5. RowOK(sub', now)
  <2>1. called[r] \in Nat /\ StartsAt <= called[r] /\ called[r] <= now /\ now \in Nat
    BY <1>1, TypedNow
  <2>2. \A s \in Scopes : /\ Windows(called[r])[s] = Aligned(s, called[r])
                          /\ Aligned(s, called[r]) \in Nat
                          /\ Aligned(s, called[r]) <= called[r]
    BY <2>1, WindowsType, AlignedIs
  <2> QED BY <1>1, <2>1, <2>2 DEF RowOK
<1>6. disturbed' \subseteq Scopes
  BY DEF Commit, Typed
<1> QED BY <1>2, <1>3, <1>4, <1>5, <1>6, RequestTyped DEF Commit

LEMMA ReadTyped ==
  ASSUME Typed, NEW w \in Writers, NEW op, NEW what, ReadRow(w, op, what),
         \/ op \in {"extend", "revoke"} /\ sub.status # "revoked"
         \/ op = "reset"
         \/ op = "expire" /\ sub.status = "active" /\ sub.expires <= now,
         what \in SUBSET Scopes, edits' \in 0..MaxEdits
  PROVE  Typed'
<1> DEFINE j == [op |-> op, row |-> sub, at |-> now, what |-> what]
<1>1. JobOK(j, now)
  BY TypedNow DEF JobOK, Job, Typed, RowOK
<1>2. held' = [held EXCEPT ![w] = j] /\ UNCHANGED <<now, sub, res, called, disturbed>>
  BY DEF ReadRow
<1> HIDE DEF j
<1>3. \A v \in Writers : WriterOK(v)'
  BY <1>1, <1>2 DEF Typed, WriterOK
<1> QED BY <1>2, <1>3 DEF Typed

\* Only the row, the edits and what one writer holds change.
LEMMA RowTyped ==
  ASSUME Typed, RowOK(sub', now), edits' \in 0..MaxEdits, disturbed' \subseteq Scopes,
         UNCHANGED held \/ \E w \in Writers : held' = [held EXCEPT ![w] = [op |-> "none"]],
         UNCHANGED <<now, res, called>>
  PROVE  Typed'
<1>1. DOMAIN held' = Writers /\ held' = [w \in Writers |-> held'[w]]
  BY DEF Typed
<1>2. \A w \in Writers : WriterOK(w)'
  BY DEF Typed, WriterOK
<1> QED BY <1>1, <1>2 DEF Typed

\* The row a writer leaves behind.
LEMMA WrittenRow ==
  ASSUME Typed, NEW w \in Writers, held[w].op # "none"
  PROVE  /\ JobOK(held[w], now)
         /\ Written(held[w]) \in Row /\ Written(held[w]).rev = sub.rev
         /\ \A s \in Scopes : Written(held[w]).start[s] <= now
<1> DEFINE j == held[w]
<1>1. JobOK(j, now)
  BY DEF Typed, WriterOK
<1> HIDE DEF j
<1>2. /\ sub \in Row /\ (\A s \in Scopes : sub.start[s] <= now) /\ now \in Nat
      /\ j \in Job /\ j.row \in Row /\ (\A s \in Scopes : j.row.start[s] <= now)
      /\ j.at \in Nat /\ j.at <= now
  BY <1>1, TypedNow DEF Typed, JobOK, RowOK, Job
<1>3. ASSUME j.op = "extend"
      PROVE  /\ Written(j) \in Row /\ Written(j).rev = sub.rev
             /\ \A s \in Scopes : Written(j).start[s] <= now
  <2>1. Written(j) = [sub EXCEPT !.expires = j.at + Term,
                       !.status = IF j.row.status = "expired" THEN "active" ELSE @]
    BY <1>3 DEF Written
  <2>2. j.at + Term \in Nat
    BY <1>2, ScopeFacts
  <2> QED BY <1>2, <2>1, <2>2 DEF Row, Statuses
<1>4. ASSUME j.op \in {"revoke", "expire"}
      PROVE  /\ Written(j) \in Row /\ Written(j).rev = sub.rev
             /\ \A s \in Scopes : Written(j).start[s] <= now
  <2>1. \/ Written(j) = [sub EXCEPT !.status = "revoked"]
        \/ Written(j) = [sub EXCEPT !.status = "expired"]
    BY <1>4 DEF Written
  <2> QED BY <1>2, <2>1 DEF Row, Statuses
<1>5. ASSUME j.op = "reset"
      PROVE  /\ Written(j) \in Row /\ Written(j).rev = sub.rev
             /\ \A s \in Scopes : Written(j).start[s] <= now
  <2> DEFINE u == [s \in Scopes |-> IF s \in j.what THEN 0 ELSE j.row.usage[s]]
             a == [s \in Scopes |-> IF s \in j.what THEN j.at ELSE j.row.start[s]]
  <2>1. Written(j) = [sub EXCEPT !.usage = u, !.start = a]
    BY <1>5 DEF Written
  <2>2. u \in [Scopes -> Nat] /\ a \in [Scopes -> Nat] /\ \A s \in Scopes : a[s] <= now
    BY <1>2 DEF Row
  <2> HIDE DEF u, a
  <2> QED BY <1>2, <2>1, <2>2 DEF Row
<1>6. j.op \in {"extend", "revoke", "reset", "expire"}
  BY <1>2 DEF Job
<1>7. /\ Written(j) \in Row /\ Written(j).rev = sub.rev
      /\ \A s \in Scopes : Written(j).start[s] <= now
  BY <1>3, <1>4, <1>5, <1>6
<1> QED BY <1>1, <1>7 DEF j

LEMMA WriteTyped ==
  ASSUME Typed, NEW w \in Writers, WriteRow(w)
  PROVE  Typed'
<1>1. held[w].op # "none"
  BY DEF WriteRow
<1>2. RowOK(sub', now) /\ disturbed' \subseteq Scopes
  <2>1. CASE UNCHANGED <<sub, disturbed>>
    BY <2>1 DEF Typed, RowOK
  <2>2. CASE /\ sub' = Bump(Written(held[w]))
             /\ disturbed' = IF held[w].op = "reset" THEN Scopes ELSE disturbed
    <3> DEFINE x == Written(held[w])
    <3>1. x \in Row /\ \A s \in Scopes : x.start[s] <= now
      BY <1>1, WrittenRow
    <3>2. sub' = Bump(x)
      BY <2>2
    <3> HIDE DEF x
    <3> QED BY <2>2, <3>1, <3>2 DEF Bump, Row, RowOK, Typed
  <2> QED BY <2>1, <2>2 DEF WriteRow
<1> QED BY <1>2, RowTyped DEF WriteRow, Typed

LEMMA EditTyped ==
  ASSUME Typed, Renew \/ RevokeInTx \/ ShortenInTx
  PROVE  Typed'
<1>1. sub \in Row /\ now \in Nat /\ \A s \in Scopes : sub.start[s] <= now
  BY TypedNow DEF Typed, RowOK
<1>2. edits' \in 0..MaxEdits
  BY ScopeFacts DEF Typed, Renew, RevokeInTx, ShortenInTx, Edit
<1>3. PICK x : /\ sub' = Bump(x)
               /\ \/ x = [sub EXCEPT !.expires = Larger(@, now) + Term]
                  \/ x = [sub EXCEPT !.status = "revoked"]
                  \/ x = [sub EXCEPT !.expires = IF @ < now + Term THEN now ELSE @ - Term]
  BY DEF Renew, RevokeInTx, ShortenInTx
<1>4. x \in Row /\ x.start = sub.start
  <2>1. sub.expires \in Nat /\ Term \in Nat
    BY <1>1, ScopeFacts DEF Row
  <2>2. /\ Larger(sub.expires, now) + Term \in Nat
        /\ (IF sub.expires < now + Term THEN now ELSE sub.expires - Term) \in Nat
    BY <1>1, <2>1 DEF Larger
  <2> QED BY <1>1, <1>3, <2>2 DEF Row, Statuses
<1>5. RowOK(sub', now)
  BY <1>1, <1>3, <1>4 DEF Bump, Row, RowOK
<1> QED BY <1>2, <1>5, RowTyped DEF Typed, Renew, RevokeInTx, ShortenInTx

LEMMA TickTyped ==
  ASSUME Typed, Tick
  PROVE  Typed'
<1>1. now \in Nat /\ StartsAt <= now /\ now' = now + 1 /\ now < MaxTime /\ StartsAt \in Nat
      /\ MaxTime \in Nat
  BY TypedNow, ScopeFacts DEF Tick
<1>2. now' \in StartsAt..Larger(MaxTime, StartsAt)
  BY <1>1 DEF Larger
<1>3. \A s \in Scopes : /\ Aligned(s, now) <= Aligned(s, now')
                        /\ Aligned(s, now) \in Nat /\ Aligned(s, now') \in Nat
  BY <1>1, AlignedMonotone, AlignedIs
<1>4. RowOK(sub', now')
  BY <1>1 DEF Typed, RowOK, Row, Tick
<1>5. ASSUME NEW r \in Requests PROVE RequestOK(res'[r], called'[r], now')
  <2>1. RequestOK(res[r], called[r], now) /\ res[r] \in ReservationRow /\ called[r] \in Nat
    BY TypedNow DEF Typed
  <2>2. \A s \in Scopes : res[r].win[s] \in Nat
    BY <2>1 DEF ReservationRow
  <2>3. UNCHANGED <<res, called>>
    BY DEF Tick
  <2> QED BY <1>1, <1>3, <2>1, <2>2, <2>3 DEF RequestOK, ReservationRow
<1>6. ASSUME NEW w \in Writers PROVE WriterOK(w)'
  <2>1. ASSUME NEW j, JobOK(j, now) PROVE JobOK(j, now')
    BY <1>1, <2>1 DEF JobOK, Job, RowOK, Row
  <2>2. held' = held
    BY DEF Tick
  <2> QED BY <2>1, <2>2 DEF Typed, WriterOK
<1>7. disturbed' \subseteq Scopes
  BY DEF Typed, Tick
<1> QED BY <1>2, <1>4, <1>5, <1>6, <1>7 DEF Typed, Tick

LEMMA StepCases ==
  ASSUME [Next]_vars
  PROVE  \/ \E r \in Requests, cost \in Costs, snapshot \in BOOLEAN : Reserve(r, cost, snapshot)
         \/ \E r \in Requests : CallCommit(r) \/ Release(r)
         \/ \E r \in Requests, cost \in Costs : Commit(r, cost)
         \/ \E w \in Writers, op \in {"extend", "revoke", "reset", "expire"},
               what \in SUBSET Scopes :
              /\ ReadRow(w, op, what)
              /\ Edit \/ UNCHANGED edits
              /\ op \in {"extend", "revoke"} => sub.status # "revoked"
              /\ op = "expire" => sub.status = "active" /\ sub.expires <= now
         \/ \E w \in Writers : WriteRow(w)
         \/ Renew \/ RevokeInTx \/ ShortenInTx
         \/ Tick
         \/ UNCHANGED vars
<1>1. CASE \E w \in Writers : ReadToExtend(w) \/ ReadToRevoke(w)
  BY <1>1 DEF ReadToExtend, ReadToRevoke
<1>2. CASE \E w \in Writers : ReadToReset(w)
  BY <1>2 DEF ReadToReset
<1>3. CASE \E w \in Writers : ReadToExpire(w)
  BY <1>3 DEF ReadToExpire
<1> QED BY <1>1, <1>2, <1>3 DEF Next

LEMMA StepTyped ==
  ASSUME Typed, [Next]_vars
  PROVE  Typed'
<1>1. ASSUME NEW w \in Writers, NEW op \in {"extend", "revoke", "reset", "expire"},
             NEW what \in SUBSET Scopes, ReadRow(w, op, what), Edit \/ UNCHANGED edits,
             op \in {"extend", "revoke"} => sub.status # "revoked",
             op = "expire" => sub.status = "active" /\ sub.expires <= now
      PROVE  Typed'
  <2>1. edits' \in 0..MaxEdits
    BY <1>1, ScopeFacts DEF Edit, Typed
  <2> QED BY <1>1, <2>1, ReadTyped
<1>2. CASE UNCHANGED vars
  BY <1>2 DEF vars, Typed, RowOK, WriterOK
<1> QED BY <1>1, <1>2, StepCases, ReserveTyped, CallCommitTyped, ReleaseTyped, CommitTyped,
           WriteTyped, EditTyped, TickTyped

LEMMA AlwaysTyped == Spec => []Typed
<1>1. Init => Typed
  BY InitTyped
<1>2. Typed /\ [Next]_vars => Typed'
  BY StepTyped
<1> QED BY <1>1, <1>2, PTL DEF Spec

\* Clock, row, reservations and what the writers hold have their types.
THEOREM TypeCorrect == Spec => []TypeOK
<1>1. Typed => TypeOK
  BY DEF Typed, TypeOK, RowOK, ReservationRow, WriterOK, JobOK, Job
<1> QED BY <1>1, AlwaysTyped, PTL

-----------------------------------------------------------------------------
(* Writers that check the revision leave newer decisions on status standing. *)

\* While the revision a writer read is the row's, status and expiry are too.
Fence(w) ==
  held[w].op # "none" =>
    /\ held[w].row.rev <= sub.rev
    /\ held[w].row.rev = sub.rev => /\ held[w].row.status = sub.status
                                    /\ held[w].row.expires = sub.expires

ExpiryOK == sub.status = "expired" => sub.expires <= now

Fences == (\A w \in Writers : Fence(w)) /\ ExpiryOK

\* A step that leaves these columns alone and hands no writer a row.
LEMMA FenceKept ==
  ASSUME Typed, Fences,
         sub'.status = sub.status, sub'.expires = sub.expires, sub'.rev = sub.rev,
         now' = now \/ now' = now + 1,
         \A w \in Writers : held'[w] = held[w] \/ held'[w].op = "none"
  PROVE  Fences'
<1>1. \A w \in Writers : Fence(w)'
  BY DEF Fences, Fence
<1>2. ExpiryOK'
  BY TypedNow DEF Fences, ExpiryOK, Row
<1> QED BY <1>1, <1>2 DEF Fences

\* The row becomes x, under the next revision.
LEMMA FenceBumped ==
  ASSUME Fenced, Typed, Fences, NEW x, sub' = Bump(x), x \in Row, x.rev = sub.rev,
         x.status = "expired" => x.expires <= now, UNCHANGED now,
         \A w \in Writers : held'[w] = held[w] \/ held'[w].op = "none"
  PROVE  Fences'
<1>1. sub'.rev = sub.rev + 1 /\ sub'.status = x.status /\ sub'.expires = x.expires
      /\ sub.rev \in Nat
  BY TypedNow DEF Bump, Row
<1>2. ASSUME NEW w \in Writers PROVE Fence(w)'
  <2>1. CASE held'[w] = held[w] /\ held[w].op # "none"
    <3>1. held[w].row.rev \in Nat /\ held[w].row.rev <= sub.rev
      BY <2>1 DEF Typed, WriterOK, JobOK, RowOK, Row, Fences, Fence
    <3> QED BY <1>1, <2>1, <3>1 DEF Fence
  <2>2. CASE held'[w].op = "none"
    BY <2>2 DEF Fence
  <2> QED BY <2>1, <2>2 DEF Fence
<1>3. ExpiryOK'
  BY <1>1 DEF ExpiryOK
<1> QED BY <1>2, <1>3 DEF Fences

\* What an unhindered writer makes of the status and the expiry.
LEMMA WrittenStatus ==
  ASSUME Typed, Fences, NEW w \in Writers, held[w].op # "none",
         held[w].row.rev = sub.rev
  PROVE  /\ sub.status = "revoked" => Written(held[w]).status = "revoked"
         /\ Written(held[w]).status = "expired" => Written(held[w]).expires <= now
<1> DEFINE j == held[w]
<1>1. /\ JobOK(j, now) /\ j.row.status = sub.status /\ j.row.expires = sub.expires
      /\ sub \in Row
  BY TypedNow DEF Typed, WriterOK, Fences, Fence
<1>2. ExpiryOK
  BY DEF Fences
<1> HIDE DEF j
<1>3. ASSUME j.op = "extend"
      PROVE  /\ sub.status # "revoked" /\ Written(j).status # "expired"
  <2>1. Written(j) = [sub EXCEPT !.expires = j.at + Term,
                       !.status = IF j.row.status = "expired" THEN "active" ELSE @]
    BY <1>3 DEF Written
  <2> QED BY <1>1, <1>3, <2>1 DEF Row, JobOK
<1>4. ASSUME j.op = "revoke"
      PROVE  Written(j).status = "revoked"
  BY <1>1, <1>4 DEF Written, Row
<1>5. ASSUME j.op = "expire"
      PROVE  sub.status # "revoked" /\ Written(j).expires <= now
  <2>1. Written(j) = [sub EXCEPT !.status = "expired"]
    BY <1>5 DEF Written
  <2> QED BY <1>1, <1>5, <2>1 DEF Row, JobOK
<1>6. ASSUME j.op = "reset"
      PROVE  Written(j).status = sub.status /\ Written(j).expires = sub.expires
  BY <1>1, <1>6 DEF Written, Row
<1>7. j.op \in {"extend", "revoke", "reset", "expire"}
  BY <1>1 DEF JobOK, Job
<1> QED BY <1>2, <1>3, <1>4, <1>5, <1>6, <1>7 DEF ExpiryOK, j

\* A revoked row stays revoked, and an expired one has ended.
StatusMove ==
  /\ sub.status = "revoked" => sub'.status = "revoked"
  /\ sub'.status = "expired" => sub'.expires <= now'

LEMMA StepFences ==
  ASSUME Fenced, Typed, Fences, [Next]_vars
  PROVE  Fences' /\ StatusMove
<1>1. /\ sub \in Row /\ now \in Nat
  BY TypedNow
<1>2. CASE \/ \E r \in Requests, cost \in Costs, snapshot \in BOOLEAN :
                Reserve(r, cost, snapshot)
           \/ \E r \in Requests : CallCommit(r) \/ Release(r)
           \/ Tick \/ UNCHANGED vars
  <2>1. UNCHANGED <<sub, held>> /\ (now' = now \/ now' = now + 1)
    BY <1>2 DEF Reserve, CallCommit, Release, Tick, vars
  <2> QED BY <1>1, <2>1, FenceKept DEF Fences, ExpiryOK, StatusMove
<1>3. CASE \E r \in Requests, cost \in Costs : Commit(r, cost)
  <2>1. /\ sub'.status = sub.status /\ sub'.expires = sub.expires /\ sub'.rev = sub.rev
        /\ UNCHANGED <<now, held>>
    BY <1>3, ChargedRow DEF Commit
  <2> QED BY <2>1, FenceKept DEF Fences, ExpiryOK, StatusMove
<1>4. ASSUME NEW w \in Writers, NEW op, NEW what, ReadRow(w, op, what)
      PROVE  Fences' /\ StatusMove
  <2>1. UNCHANGED <<sub, now>>
    BY <1>4 DEF ReadRow
  <2>2. held'[w].row = sub /\ \A v \in Writers : v # w => held'[v] = held[v]
    BY <1>4 DEF ReadRow, Typed
  <2>3. \A v \in Writers : Fence(v)'
    BY <1>1, <2>1, <2>2 DEF Fences, Fence, Row
  <2> QED BY <2>1, <2>3 DEF Fences, ExpiryOK, StatusMove
<1>5. ASSUME NEW w \in Writers, WriteRow(w)
      PROVE  Fences' /\ StatusMove
  <2>1. /\ held[w].op # "none" /\ UNCHANGED now
        /\ \A v \in Writers : held'[v] = held[v] \/ held'[v].op = "none"
    BY <1>5 DEF WriteRow, Typed
  <2>2. CASE UNCHANGED sub
    BY <2>1, <2>2, FenceKept DEF Fences, ExpiryOK, StatusMove
  <2>3. CASE ~Conflicts(held[w]) /\ sub' = Bump(Written(held[w]))
    <3> DEFINE x == Written(held[w])
    <3>1. held[w].row.rev = sub.rev
      BY <2>3 DEF Conflicts
    <3>2. x \in Row /\ x.rev = sub.rev
      BY <2>1, WrittenRow
    <3>3. /\ sub.status = "revoked" => x.status = "revoked"
          /\ x.status = "expired" => x.expires <= now
      BY <2>1, <3>1, WrittenStatus
    <3>4. sub' = Bump(x)
      BY <2>3
    <3> HIDE DEF x
    <3>5. Fences'
      BY <2>1, <3>2, <3>3, <3>4, FenceBumped
    <3>6. sub'.status = x.status /\ sub'.expires = x.expires
      BY <3>2, <3>4 DEF Bump, Row
    <3> QED BY <2>1, <3>3, <3>5, <3>6 DEF StatusMove
  <2> QED BY <1>5, <2>2, <2>3 DEF WriteRow
<1>6. CASE Renew \/ RevokeInTx \/ ShortenInTx
  <2>1. PICK x : /\ sub' = Bump(x)
                 /\ \/ /\ x = [sub EXCEPT !.expires = Larger(@, now) + Term]
                       /\ sub.status = "active"
                    \/ x = [sub EXCEPT !.status = "revoked"]
                    \/ /\ x = [sub EXCEPT !.expires = IF @ < now + Term THEN now ELSE @ - Term]
                       /\ sub.status # "revoked"
    BY <1>6 DEF Renew, RevokeInTx, ShortenInTx, Active
  <2>2. sub.expires \in Nat /\ Term \in Nat /\ UNCHANGED <<now, held>>
    BY <1>1, <1>6, ScopeFacts DEF Row, Renew, RevokeInTx, ShortenInTx
  <2>3. /\ Larger(sub.expires, now) + Term \in Nat
        /\ (IF sub.expires < now + Term THEN now ELSE sub.expires - Term) \in Nat
        /\ sub.expires <= now =>
             (IF sub.expires < now + Term THEN now ELSE sub.expires - Term) <= now
    BY <1>1, <2>2, ScopeFacts DEF Larger
  <2>4. /\ x \in Row /\ x.rev = sub.rev
        /\ sub.status = "revoked" => x.status = "revoked"
        /\ x.status = "expired" => x.expires <= now
    BY <1>1, <2>1, <2>3 DEF Row, Statuses, Fences, ExpiryOK
  <2>5. Fences'
    BY <2>1, <2>2, <2>4, FenceBumped
  <2>6. sub'.status = x.status /\ sub'.expires = x.expires
    BY <2>1, <2>4 DEF Bump, Row
  <2> QED BY <2>2, <2>4, <2>5, <2>6 DEF StatusMove
<1> QED BY <1>2, <1>3, <1>4, <1>5, <1>6, StepCases

LEMMA AlwaysFences ==
  ASSUME Fenced
  PROVE  Spec => []Fences
<1>1. Init => Fences
  BY DEF Init, Fences, Fence, ExpiryOK
<1>2. Typed /\ Fences /\ [Next]_vars => Fences'
  BY StepFences
<1>3. Spec => []Typed
  BY AlwaysTyped
<1> QED BY <1>1, <1>2, <1>3, PTL DEF Spec

\* Where writers check the revision, a write from an old read undoes no newer
\* decision on status and expiry: a revoked subscription stays revoked, and one
\* that was extended in time is not marked expired.
THEOREM StatusKept == Fenced => (Spec => StatusStands)
<1> SUFFICES ASSUME Fenced PROVE Spec => StatusStands
  OBVIOUS
<1>1. Typed /\ Fences /\ [Next]_vars =>
        [/\ sub.status = "revoked" => sub'.status = "revoked"
         /\ sub'.status = "expired" => sub'.expires <= now']_vars
  BY StepFences DEF StatusMove
<1>2. Spec => []Typed /\ []Fences
  BY AlwaysTyped, AlwaysFences
<1> QED BY <1>1, <1>2, PTL DEF Spec, StatusStands

-----------------------------------------------------------------------------
(* What a window counts, is charged and holds, from step to step.            *)

\* The clock moves within a window, or into one that nothing has touched yet.
LEMMA TickSums ==
  ASSUME Typed, Tick, NEW s \in Scopes
  PROVE  \/ /\ s \in disturbed' <=> s \in disturbed
            /\ \A x : UsageAt(x, s, now') = UsageAt(x, s, now)
            /\ FrozenSum(res', s, now') = FrozenSum(res, s, now)
            /\ ChargeSum(res', s, now') = ChargeSum(res, s, now)
            /\ EarlierSum(res', s, now') = EarlierSum(res, s, now)
         \/ /\ \A x : RowOK(x, now) => UsageAt(x, s, now') = 0
            /\ FrozenSum(res', s, now') = 0
            /\ ChargeSum(res', s, now') = 0
            /\ EarlierSum(res', s, now') = 0
<1> DEFINE t == now'
<1>1. now \in Nat /\ StartsAt <= now /\ t = now + 1 /\ t \in Nat /\ StartsAt <= t
      /\ res' = res /\ StartsAt \in Nat
  BY TypedNow, ScopeFacts DEF Tick
<1> HIDE DEF t
<1>2. /\ Aligned(s, now) \in Nat /\ Aligned(s, t) \in Nat
      /\ Aligned(s, now) <= now /\ Aligned(s, now) <= Aligned(s, t)
      /\ Aligned(s, t) <= now => Aligned(s, t) <= Aligned(s, now)
  BY <1>1, AlignedIs, AlignedMonotone, AlignedBetween
<1>3. Aligned(s, t) = Aligned(s, now) \/ now < Aligned(s, t)
  BY <1>1, <1>2
<1>4. CASE Aligned(s, t) = Aligned(s, now)
  <2>1. \A q : /\ FrozenCell(q, s, t) = FrozenCell(q, s, now)
               /\ ChargeCell(q, s, t) = ChargeCell(q, s, now)
               /\ EarlierCell(q, s, t) = EarlierCell(q, s, now)
    BY <1>4 DEF FrozenCell, ChargeCell, EarlierCell
  <2>2. \A x : UsageAt(x, s, t) = UsageAt(x, s, now)
    BY <1>4 DEF UsageAt
  <2>3. /\ FrozenSum(res, s, t) = FrozenSum(res, s, now)
        /\ ChargeSum(res, s, t) = ChargeSum(res, s, now)
        /\ EarlierSum(res, s, t) = EarlierSum(res, s, now)
    BY <2>1 DEF FrozenSum, ChargeSum, EarlierSum
  <2>4. s \in disturbed' <=> s \in disturbed
    BY <1>4 DEF t, Tick
  <2> QED BY <1>1, <2>2, <2>3, <2>4 DEF t
<1>5. CASE now < Aligned(s, t)
  <2>1. \A x : RowOK(x, now) => UsageAt(x, s, t) = 0
    BY <1>1, <1>2, <1>5 DEF RowOK, Row, UsageAt
  <2>2. ASSUME NEW r \in Requests
        PROVE  /\ FrozenCell(res[r], s, t) = 0 /\ ChargeCell(res[r], s, t) = 0
               /\ EarlierCell(res[r], s, t) = 0
    <3>1. RequestOK(res[r], called[r], now) /\ res[r] \in ReservationRow
      BY TypedNow DEF Typed
    <3>2. res[r].win[s] \in Nat /\ res[r].win[s] <= Aligned(s, now)
      BY <3>1 DEF RequestOK, ReservationRow
    <3>3. FrozenCell(res[r], s, t) = 0
      BY <1>1, <1>2, <1>5, <3>2 DEF FrozenCell
    <3>4. ASSUME res[r].status = "committed" PROVE Aligned(s, res[r].at) # Aligned(s, t)
      <4>1. res[r].at \in Nat /\ StartsAt <= res[r].at /\ res[r].at <= now
        BY <1>1, <3>1, <3>4 DEF RequestOK, ReservationRow
      <4>2. Aligned(s, res[r].at) \in Nat /\ Aligned(s, res[r].at) <= res[r].at
        BY <4>1, AlignedIs
      <4> QED BY <1>1, <1>2, <1>5, <4>1, <4>2
    <3> QED BY <3>3, <3>4 DEF ChargeCell, EarlierCell
  <2>3. /\ FrozenSum(res, s, t) = 0
        /\ ChargeSum(res, s, t) = 0
        /\ EarlierSum(res, s, t) = 0
    BY <2>2, TotalZero, ScopeFacts DEF FrozenSum, ChargeSum, EarlierSum, Requests
  <2> QED BY <1>1, <2>1, <2>3 DEF t
<1> QED BY <1>3, <1>4, <1>5

\* A reservation holds what it absorbed, in every window that is open now.
LEMMA ReserveSums ==
  ASSUME Typed, NEW r \in Requests, NEW cost \in Costs, NEW snapshot \in BOOLEAN,
         Reserve(r, cost, snapshot), NEW s \in Scopes
  PROVE  /\ FrozenSum(res', s, now) =
              FrozenSum(res, s, now) + MinOf(cost, Absorbable(Requests))
         /\ ChargeSum(res', s, now) = ChargeSum(res, s, now)
         /\ EarlierSum(res', s, now) = EarlierSum(res, s, now)
<1> DEFINE q == [NoRow EXCEPT !.status = "reserved", !.snapshot = snapshot,
                              !.amount = MinOf(cost, Absorbable(Requests)),
                              !.win = Windows(now)]
<1>1. MinOf(cost, Absorbable(Requests)) \in Nat
  BY HeadroomIs, ScopeFacts DEF MinOf
<1>2. Windows(now) \in [Scopes -> Nat] /\ Windows(now)[s] = Aligned(s, now)
  BY TypedNow, WindowsType
<1>3. q \in ReservationRow /\ q.status = "reserved" /\ q.win = Windows(now)
      /\ q.amount = MinOf(cost, Absorbable(Requests))
  BY <1>1, <1>2 DEF NoRow, ReservationRow
<1>4. res' = [res EXCEPT ![r] = q] /\ res[r].status = "none"
  BY DEF Reserve
<1> HIDE DEF q
<1>5. /\ FrozenCell(q, s, now) = MinOf(cost, Absorbable(Requests))
      /\ ChargeCell(q, s, now) = 0 /\ EarlierCell(q, s, now) = 0
  BY <1>2, <1>3 DEF FrozenCell, ChargeCell, EarlierCell
<1>6. /\ FrozenCell(res[r], s, now) = 0
      /\ ChargeCell(res[r], s, now) = 0 /\ EarlierCell(res[r], s, now) = 0
  BY <1>4 DEF FrozenCell, ChargeCell, EarlierCell
<1>7. /\ FrozenSum(res, s, now) \in Nat /\ ChargeSum(res, s, now) \in Nat
      /\ EarlierSum(res, s, now) \in Nat
  BY SumTypes DEF Typed
<1>8. /\ res \in [Requests -> ReservationRow] /\ res' \in [Requests -> ReservationRow]
      /\ res'[r] = q /\ \A i \in Requests : i # r => res'[i] = res[i]
  BY <1>3, <1>4 DEF Typed
<1>9. /\ FrozenSum(res', s, now) =
            FrozenSum(res, s, now) + (FrozenCell(res'[r], s, now) - FrozenCell(res[r], s, now))
      /\ ChargeSum(res', s, now) =
            ChargeSum(res, s, now) + (ChargeCell(res'[r], s, now) - ChargeCell(res[r], s, now))
      /\ EarlierSum(res', s, now) =
            EarlierSum(res, s, now) + (EarlierCell(res'[r], s, now) - EarlierCell(res[r], s, now))
  BY <1>8, SumsMove
<1> QED BY <1>1, <1>5, <1>6, <1>7, <1>8, <1>9

\* A released reservation frees what it held.
LEMMA ReleaseSums ==
  ASSUME Typed, NEW r \in Requests, Release(r), NEW s \in Scopes
  PROVE  /\ FrozenSum(res', s, now) <= FrozenSum(res, s, now)
         /\ ChargeSum(res', s, now) = ChargeSum(res, s, now)
         /\ EarlierSum(res', s, now) = EarlierSum(res, s, now)
<1> DEFINE q == [res[r] EXCEPT !.status = "released"]
<1>1. q \in ReservationRow /\ q.status = "released" /\ res[r] \in ReservationRow
  BY TypedNow DEF ReservationRow
<1>2. res' = [res EXCEPT ![r] = q] /\ res[r].status = "reserved"
  BY DEF Release, Reserved
<1> HIDE DEF q
<1>3. /\ FrozenCell(q, s, now) = 0 /\ ChargeCell(q, s, now) = 0 /\ EarlierCell(q, s, now) = 0
      /\ ChargeCell(res[r], s, now) = 0 /\ EarlierCell(res[r], s, now) = 0
      /\ FrozenCell(res[r], s, now) \in Nat
  BY <1>1, <1>2, CellTypes DEF FrozenCell, ChargeCell, EarlierCell
<1>4. /\ FrozenSum(res, s, now) \in Nat /\ ChargeSum(res, s, now) \in Nat
      /\ EarlierSum(res, s, now) \in Nat
  BY SumTypes DEF Typed
<1>5. /\ res \in [Requests -> ReservationRow] /\ res' \in [Requests -> ReservationRow]
      /\ res'[r] = q /\ \A i \in Requests : i # r => res'[i] = res[i]
  BY <1>1, <1>2 DEF Typed
<1>6. /\ FrozenSum(res', s, now) =
            FrozenSum(res, s, now) + (FrozenCell(res'[r], s, now) - FrozenCell(res[r], s, now))
      /\ ChargeSum(res', s, now) =
            ChargeSum(res, s, now) + (ChargeCell(res'[r], s, now) - ChargeCell(res[r], s, now))
      /\ EarlierSum(res', s, now) =
            EarlierSum(res, s, now) + (EarlierCell(res'[r], s, now) - EarlierCell(res[r], s, now))
  BY <1>5, SumsMove
<1> QED BY <1>3, <1>4, <1>5, <1>6

\* A commit charges the window of its usage write: that is the current one, or
\* one that has ended; then the row forgets what the current one has counted.
LEMMA CommitSums ==
  ASSUME Typed, NEW r \in Requests, NEW cost \in Costs, Commit(r, cost), NEW s \in Scopes
  PROVE  LET charge == Absorbs(r, cost)
             current == Aligned(s, called[r]) = Aligned(s, now)
             admitted == res[r].win[s] = Aligned(s, now)
         IN  /\ UsageAt(sub', s, now) = IF current THEN UsageAt(sub, s, now) + charge ELSE 0
             /\ FrozenSum(res', s, now) =
                  FrozenSum(res, s, now) - (IF admitted THEN res[r].amount ELSE 0)
             /\ ChargeSum(res', s, now) =
                  ChargeSum(res, s, now) + (IF current THEN charge ELSE 0)
             /\ EarlierSum(res', s, now) =
                  EarlierSum(res, s, now) + (IF current /\ ~admitted THEN charge ELSE 0)
<1> DEFINE charge == Absorbs(r, cost)
           at == called[r]
           q == [res[r] EXCEPT !.status = "committed", !.charge = charge, !.at = at]
<1>1. /\ at \in StartsAt..now /\ sub' \in Row /\ sub'.start = Windows(at)
      /\ \A x \in Scopes : sub'.usage[x] = UsageAt(sub, x, at) + charge
  BY ChargedRow
<1>2. charge \in Nat /\ at \in Nat /\ res[r] \in ReservationRow
  BY AbsorbsIs, TypedNow
<1>3. /\ q \in ReservationRow /\ q.status = "committed" /\ q.win = res[r].win
      /\ q.charge = charge /\ q.at = at
  BY <1>2 DEF ReservationRow
<1>4. res' = [res EXCEPT ![r] = q] /\ res[r].status = "reserved"
  BY DEF Commit, Reserved
<1> HIDE DEF charge, at, q
<1>5. /\ FrozenCell(q, s, now) = 0
      /\ ChargeCell(q, s, now) = IF Aligned(s, at) = Aligned(s, now) THEN charge ELSE 0
      /\ EarlierCell(q, s, now) = IF /\ Aligned(s, at) = Aligned(s, now)
                                     /\ res[r].win[s] # Aligned(s, now) THEN charge ELSE 0
  BY <1>3 DEF FrozenCell, ChargeCell, EarlierCell
<1>6. /\ ChargeCell(res[r], s, now) = 0 /\ EarlierCell(res[r], s, now) = 0
      /\ FrozenCell(res[r], s, now) =
           IF res[r].win[s] = Aligned(s, now) THEN res[r].amount ELSE 0
  BY <1>4 DEF FrozenCell, ChargeCell, EarlierCell
<1>7. /\ FrozenSum(res, s, now) \in Nat /\ ChargeSum(res, s, now) \in Nat
      /\ EarlierSum(res, s, now) \in Nat /\ res[r].amount \in Nat
  BY <1>2, SumTypes DEF Typed, ReservationRow
<1>8. /\ res \in [Requests -> ReservationRow] /\ res' \in [Requests -> ReservationRow]
      /\ res'[r] = q /\ \A i \in Requests : i # r => res'[i] = res[i]
  BY <1>3, <1>4 DEF Typed
<1>9. /\ FrozenSum(res', s, now) =
            FrozenSum(res, s, now) + (FrozenCell(res'[r], s, now) - FrozenCell(res[r], s, now))
      /\ ChargeSum(res', s, now) =
            ChargeSum(res, s, now) + (ChargeCell(res'[r], s, now) - ChargeCell(res[r], s, now))
      /\ EarlierSum(res', s, now) =
            EarlierSum(res, s, now) + (EarlierCell(res'[r], s, now) - EarlierCell(res[r], s, now))
  BY <1>8, SumsMove
<1>10. UsageAt(sub', s, now) =
         IF Aligned(s, at) = Aligned(s, now) THEN UsageAt(sub, s, now) + charge ELSE 0
  <2>1. now \in Nat /\ at <= now /\ StartsAt <= at /\ StartsAt <= now
    BY <1>1, <1>2, TypedNow, ScopeFacts
  <2>2. /\ Aligned(s, at) <= Aligned(s, now)
        /\ Aligned(s, at) \in Nat /\ Aligned(s, now) \in Nat
    BY <1>2, <2>1, AlignedMonotone, AlignedIs
  <2>3. sub'.start[s] = Aligned(s, at) /\ sub'.usage[s] = UsageAt(sub, s, at) + charge
    BY <1>1, <1>2, <2>1, WindowsType
  <2> QED BY <2>2, <2>3 DEF UsageAt
<1> QED BY <1>2, <1>5, <1>6, <1>7, <1>8, <1>9, <1>10 DEF charge, at

\* A write outside billing leaves a window's usage as it is; a reset puts zero
\* there, or what its session had read.
LEMMA WrittenUsage ==
  ASSUME Typed, NEW w \in Writers, held[w].op # "none", NEW s \in Scopes
  PROVE  LET usage == UsageAt(Bump(Written(held[w])), s, now)
         IN  /\ held[w].op # "reset" => usage = UsageAt(sub, s, now)
             /\ held[w].op = "reset" => usage = 0 \/ usage = UsageAt(held[w].row, s, now)
<1> DEFINE j == held[w]
           x == Written(j)
<1>1. JobOK(j, now) /\ x \in Row /\ sub \in Row
  BY TypedNow, WrittenRow
<1>2. UsageAt(Bump(x), s, now) = UsageAt(x, s, now)
  <2> HIDE DEF x
  <2> QED BY <1>1 DEF Bump, UsageAt, Row
<1>3. ASSUME j.op = "reset"
      PROVE  UsageAt(Bump(x), s, now) \in {0, UsageAt(j.row, s, now)}
  <2>1. x.usage[s] = (IF s \in j.what THEN 0 ELSE j.row.usage[s])
        /\ x.start[s] = (IF s \in j.what THEN j.at ELSE j.row.start[s])
    BY <1>1, <1>3 DEF Written, Row
  <2> HIDE DEF x
  <2> QED BY <1>2, <1>3, <2>1 DEF UsageAt
<1>4. ASSUME j.op # "reset"
      PROVE  UsageAt(Bump(x), s, now) = UsageAt(sub, s, now)
  <2>1. x.usage = sub.usage /\ x.start = sub.start
    BY <1>1, <1>4 DEF Written, Row, JobOK, Job
  <2> HIDE DEF x
  <2> QED BY <1>2, <1>4, <2>1 DEF UsageAt
<1> QED BY <1>3, <1>4

LEMMA EditUsage ==
  ASSUME Typed, Renew \/ RevokeInTx \/ ShortenInTx, NEW s \in Scopes
  PROVE  UsageAt(sub', s, now) = UsageAt(sub, s, now)
<1>1. sub'.usage = sub.usage /\ sub'.start = sub.start
  BY TypedNow DEF Renew, RevokeInTx, ShortenInTx, Bump, Row
<1> QED BY <1>1 DEF UsageAt

-----------------------------------------------------------------------------
(* A window counts what it was charged.                                      *)

\* No row, neither the one stored nor one that a writer has read, counts more
\* in a window than the window was charged.
CountedIn(s) ==
  /\ UsageAt(sub, s, now) <= ChargeSum(res, s, now)
  /\ s \notin disturbed => UsageAt(sub, s, now) = ChargeSum(res, s, now)
  /\ \A w \in Writers : held[w].op # "none" =>
       UsageAt(held[w].row, s, now) <= ChargeSum(res, s, now)

Counted == \A s \in Scopes : CountedIn(s)

LEMMA CountNumbers ==
  ASSUME Typed, NEW s \in Scopes
  PROVE  /\ UsageAt(sub, s, now) \in Nat /\ ChargeSum(res, s, now) \in Nat
         /\ FrozenSum(res, s, now) \in Nat /\ EarlierSum(res, s, now) \in Nat
         /\ \A w \in Writers : held[w].op # "none" =>
              JobOK(held[w], now) /\ RowOK(held[w].row, now)
              /\ UsageAt(held[w].row, s, now) \in Nat
<1>1. UsageAt(sub, s, now) \in Nat
  BY TypedNow, UsageNat
<1>2. /\ ChargeSum(res, s, now) \in Nat
      /\ FrozenSum(res, s, now) \in Nat /\ EarlierSum(res, s, now) \in Nat
  BY SumTypes DEF Typed
<1>3. ASSUME NEW w \in Writers, held[w].op # "none"
      PROVE  JobOK(held[w], now) /\ RowOK(held[w].row, now) /\ held[w].row \in Row
  BY <1>3 DEF Typed, WriterOK, JobOK, RowOK
<1> QED BY <1>1, <1>2, <1>3, UsageNat

LEMMA InitCounted == Init => Counted
<1> SUFFICES ASSUME Init, NEW s \in Scopes PROVE CountedIn(s)
  BY DEF Counted
<1>1. UsageAt(sub, s, now) = 0
  BY ScopeFacts DEF Init, UsageAt
<1>2. \A r \in 1..NRequests : ChargeCell(res[r], s, now) = 0
  BY DEF Init, NoRow, ChargeCell, Requests
<1>3. ChargeSum(res, s, now) = 0
  BY <1>2, TotalZero, ScopeFacts DEF ChargeSum, Requests
<1>4. \A w \in Writers : held[w].op = "none"
  BY DEF Init
<1> QED BY <1>1, <1>3, <1>4 DEF CountedIn

LEMMA StepCounted ==
  ASSUME Typed, Counted, [Next]_vars
  PROVE  Counted'
<1> SUFFICES ASSUME NEW s \in Scopes PROVE CountedIn(s)'
  BY DEF Counted
<1>1. CountedIn(s)
  BY DEF Counted
<1>2. CASE Tick
  <2>1. RowOK(sub, now) /\ UNCHANGED <<sub, held>>
    BY <1>2 DEF Typed, Tick
  <2> QED BY <1>1, <1>2, <2>1, TickSums, CountNumbers DEF CountedIn
<1>3. CASE \/ \E r \in Requests, cost \in Costs, snapshot \in BOOLEAN :
                Reserve(r, cost, snapshot)
           \/ \E r \in Requests : CallCommit(r) \/ Release(r)
           \/ UNCHANGED vars
  <2>1. ChargeSum(res', s, now) = ChargeSum(res, s, now)
    BY <1>3, ReserveSums, ReleaseSums DEF CallCommit, vars
  <2>2. UNCHANGED <<sub, held, now, disturbed>>
    BY <1>3 DEF Reserve, CallCommit, Release, vars
  <2> QED BY <1>1, <2>1, <2>2 DEF CountedIn
<1>4. ASSUME NEW r \in Requests, NEW cost \in Costs, Commit(r, cost)
      PROVE  CountedIn(s)'
  <2> DEFINE charge == Absorbs(r, cost)
             current == Aligned(s, called[r]) = Aligned(s, now)
  <2>1. /\ UsageAt(sub', s, now) = IF current THEN UsageAt(sub, s, now) + charge ELSE 0
        /\ ChargeSum(res', s, now) =
             ChargeSum(res, s, now) + (IF current THEN charge ELSE 0)
    BY <1>4, CommitSums
  <2>2. charge \in Nat
    BY AbsorbsIs
  <2>3. ~current => s \in disturbed'
    BY <1>4 DEF Commit
  <2>4. UNCHANGED <<held, now>> /\ (s \in disturbed => s \in disturbed')
    BY <1>4 DEF Commit
  <2> HIDE DEF charge, current
  <2> QED BY <1>1, <2>1, <2>2, <2>3, <2>4, CountNumbers DEF CountedIn
<1>5. ASSUME NEW w \in Writers, NEW op, NEW what, ReadRow(w, op, what)
      PROVE  CountedIn(s)'
  <2>1. /\ held'[w].row = sub /\ \A v \in Writers : v # w => held'[v] = held[v]
        /\ UNCHANGED <<sub, res, now, disturbed>>
    BY <1>5 DEF ReadRow, Typed
  <2> QED BY <1>1, <2>1 DEF CountedIn
<1>6. ASSUME NEW w \in Writers, WriteRow(w)
      PROVE  CountedIn(s)'
  <2>1. /\ held[w].op # "none" /\ UNCHANGED <<res, now>>
        /\ \A v \in Writers : held'[v] = held[v] \/ held'[v].op = "none"
    BY <1>6 DEF WriteRow, Typed
  <2>2. CASE UNCHANGED <<sub, disturbed>>
    BY <1>1, <2>1, <2>2 DEF CountedIn
  <2>3. CASE /\ sub' = Bump(Written(held[w]))
             /\ disturbed' = IF held[w].op = "reset" THEN Scopes ELSE disturbed
    <3>1. /\ held[w].op # "reset" => UsageAt(sub', s, now) = UsageAt(sub, s, now)
          /\ held[w].op = "reset" => \/ UsageAt(sub', s, now) = 0
                                     \/ UsageAt(sub', s, now) = UsageAt(held[w].row, s, now)
      BY <2>1, <2>3, WrittenUsage
    <3>2. UsageAt(sub', s, now) <= ChargeSum(res, s, now)
      BY <1>1, <2>1, <3>1, CountNumbers DEF CountedIn
    <3>3. s \notin disturbed' => s \notin disturbed /\ held[w].op # "reset"
      BY <2>3
    <3> QED BY <1>1, <2>1, <3>1, <3>2, <3>3 DEF CountedIn
  <2> QED BY <1>6, <2>2, <2>3 DEF WriteRow
<1>7. CASE Renew \/ RevokeInTx \/ ShortenInTx
  <2>1. UsageAt(sub', s, now) = UsageAt(sub, s, now)
    BY <1>7, EditUsage
  <2>2. UNCHANGED <<res, held, now, disturbed>>
    BY <1>7 DEF Renew, RevokeInTx, ShortenInTx
  <2> QED BY <1>1, <2>1, <2>2 DEF CountedIn
<1> QED BY <1>2, <1>3, <1>4, <1>5, <1>6, <1>7, StepCases

LEMMA AlwaysCounted == Spec => []Counted
<1>1. Init => Counted
  BY InitCounted
<1>2. Typed /\ Counted /\ [Next]_vars => Counted'
  BY StepCounted
<1> QED BY <1>1, <1>2, AlwaysTyped, PTL DEF Spec

\* A window never counts more than it was charged, whatever writers put back;
\* and exactly that, unless a reset or a commit from an earlier window has
\* written in it.
THEOREM UsageIsCharged == Spec => []UsageCounted
<1>1. ASSUME Typed, Counted PROVE UsageCounted
  <2> SUFFICES ASSUME NEW s \in Scopes
               PROVE  /\ Roll(sub, now).usage[s] <= Charged(s, Requests)
                      /\ s \notin disturbed =>
                           Roll(sub, now).usage[s] = Charged(s, Requests)
    BY DEF UsageCounted
  <2>1. CountedIn(s)
    BY <1>1 DEF Counted
  <2>2. Roll(sub, now).usage[s] = UsageAt(sub, s, now)
    BY <1>1, RollIs, TypedNow
  <2>3. Charged(s, Requests) = ChargeSum(res, s, now)
    BY SumsAre
  <2> QED BY <2>1, <2>2, <2>3 DEF CountedIn
<1> QED BY <1>1, AlwaysTyped, AlwaysCounted, PTL

-----------------------------------------------------------------------------
(* An undisturbed window is not promised twice.                              *)

SoldIn(s) ==
  s \notin disturbed =>
    UsageAt(sub, s, now) + FrozenSum(res, s, now) <= Limit[s] + EarlierSum(res, s, now)

Sold == \A s \in Scopes : SoldIn(s)

LEMMA FrozenWithout ==
  ASSUME Typed, NEW r \in Requests, Reserved(r), NEW s \in Scopes
  PROVE  Frozen(s, now, Requests \ {r}) =
           FrozenSum(res, s, now) -
             (IF res[r].win[s] = Aligned(s, now) THEN res[r].amount ELSE 0)
<1> DEFINE g == [i \in Requests |-> FrozenCell(res[i], s, now)]
           h == [i \in Requests |->
                   IF i \in {x \in Requests \ {r} : /\ Reserved(x)
                                                    /\ res[x].win[s] = Aligned(s, now)}
                   THEN res[i].amount ELSE 0]
<1>1. Requests = 1..NRequests /\ NRequests \in Nat
  BY ScopeFacts DEF Requests
<1>2. \A i \in 1..NRequests : g[i] \in Nat
  BY <1>1, CellTypes, TypedNow
<1>3. \A i \in 1..NRequests : i # r => h[i] = g[i]
  BY <1>1 DEF Reserved, FrozenCell
<1>4. h[r] = 0 /\ g[r] = IF res[r].win[s] = Aligned(s, now) THEN res[r].amount ELSE 0
  BY DEF Reserved, FrozenCell
<1>5. Total(g, NRequests) = FrozenSum(res, s, now)
      /\ Total(h, NRequests) = Frozen(s, now, Requests \ {r})
  BY DEF FrozenSum, Frozen
<1>6. FrozenSum(res, s, now) \in Nat /\ g[r] \in Nat
  BY <1>1, <1>2, CountNumbers
<1> HIDE DEF g, h
<1>7. (\A i \in 1..NRequests : g[i] \in Int) /\ h[r] \in Int /\ r \in 1..NRequests
  BY <1>1, <1>2, <1>4
<1>8. Total(h, NRequests) = Total(g, NRequests) + (h[r] - g[r])
  BY <1>1, <1>3, <1>7, TotalUpdate
<1> QED BY <1>4, <1>5, <1>6, <1>8

LEMMA RemainingIs ==
  ASSUME Typed, NEW R, NEW s \in Scopes, Frozen(s, now, R) \in Int
  PROVE  Remaining(s, R) > 0 =>
           Remaining(s, R) = Limit[s] - (UsageAt(sub, s, now) + Frozen(s, now, R))
<1>1. Roll(sub, now).usage[s] = UsageAt(sub, s, now)
  BY RollIs, TypedNow
<1> QED BY <1>1, CountNumbers, ScopeFacts DEF Remaining

LEMMA InitSold == Init => Sold
<1> SUFFICES ASSUME Init, NEW s \in Scopes PROVE SoldIn(s)
  BY DEF Sold
<1>1. UsageAt(sub, s, now) = 0
  BY ScopeFacts DEF Init, UsageAt
<1>2. \A r \in 1..NRequests : FrozenCell(res[r], s, now) = 0
  BY DEF Init, NoRow, FrozenCell, Requests
<1>3. FrozenSum(res, s, now) = 0
  BY <1>2, TotalZero, ScopeFacts DEF FrozenSum, Requests
<1>4. EarlierSum(res, s, now) \in Nat /\ Limit[s] \in Nat
  BY InitTyped, CountNumbers, ScopeFacts
<1> QED BY <1>1, <1>3, <1>4 DEF SoldIn

LEMMA ReserveSold ==
  ASSUME Typed, Sold, NEW r \in Requests, NEW cost \in Costs, NEW snapshot \in BOOLEAN,
         Reserve(r, cost, snapshot), NEW s \in Scopes
  PROVE  SoldIn(s)'
<1> DEFINE amount == MinOf(cost, Absorbable(Requests))
<1>1. /\ UNCHANGED <<now, sub, held, disturbed>> /\ SoldIn(s)
  BY DEF Reserve, Sold
<1>2. /\ FrozenSum(res', s, now) = FrozenSum(res, s, now) + amount
      /\ EarlierSum(res', s, now) = EarlierSum(res, s, now)
  BY ReserveSums
<1>3. /\ UsageAt(sub, s, now) \in Nat /\ FrozenSum(res, s, now) \in Nat
      /\ EarlierSum(res, s, now) \in Nat /\ Limit[s] \in Nat
  BY CountNumbers, ScopeFacts
<1>4. /\ amount \in Nat /\ amount <= Remaining(s, Requests)
      /\ Remaining(s, Requests) \in Nat
  BY HeadroomIs, ScopeFacts DEF MinOf
<1>5. Remaining(s, Requests) > 0 =>
        Remaining(s, Requests) = Limit[s] - (UsageAt(sub, s, now) + FrozenSum(res, s, now))
  <2>1. Frozen(s, now, Requests) = FrozenSum(res, s, now)
    BY SumsAre
  <2>2. Frozen(s, now, Requests) \in Int
    BY <1>3, <2>1
  <2> QED BY <2>1, <2>2, RemainingIs
<1> HIDE DEF amount
<1> QED BY <1>1, <1>2, <1>3, <1>4, <1>5 DEF SoldIn

LEMMA CommitSold ==
  ASSUME Typed, Sold, NEW r \in Requests, NEW cost \in Costs, Commit(r, cost),
         NEW s \in Scopes
  PROVE  SoldIn(s)'
<1> DEFINE charge == Absorbs(r, cost)
           current == Aligned(s, called[r]) = Aligned(s, now)
           admitted == res[r].win[s] = Aligned(s, now)
           part == IF admitted THEN res[r].amount ELSE 0
           room == Remaining(s, Requests \ {r})
<1>1. /\ UNCHANGED now /\ (s \in disturbed => s \in disturbed')
      /\ SoldIn(s) /\ Reserved(r)
  BY DEF Commit, Sold
<1>2. /\ UsageAt(sub', s, now) = IF current THEN UsageAt(sub, s, now) + charge ELSE 0
      /\ FrozenSum(res', s, now) = FrozenSum(res, s, now) - part
      /\ EarlierSum(res', s, now) =
           EarlierSum(res, s, now) + (IF current /\ ~admitted THEN charge ELSE 0)
  BY CommitSums
<1>3. /\ UsageAt(sub, s, now) \in Nat /\ FrozenSum(res, s, now) \in Nat
      /\ EarlierSum(res, s, now) \in Nat /\ Limit[s] \in Nat /\ res[r].amount \in Nat
  BY CountNumbers, ScopeFacts, TypedNow DEF ReservationRow
<1>4. ~current => s \in disturbed'
  BY DEF Commit
<1>5. /\ charge \in Nat /\ room \in Nat
      /\ charge <= res[r].amount \/ charge <= room
  <2>1. /\ Absorbable(Requests \ {r}) <= room /\ Absorbable(Requests \ {r}) \in Nat
        /\ room \in Nat
    BY HeadroomIs
  <2>2. /\ charge \in Nat
        /\ charge <= res[r].amount \/ charge <= Absorbable(Requests \ {r})
    BY AbsorbsIs
  <2> HIDE DEF charge, room
  <2> QED BY <2>1, <2>2
<1>6. room > 0 =>
        room = Limit[s] - (UsageAt(sub, s, now) + (FrozenSum(res, s, now) - part))
  <2>1. Frozen(s, now, Requests \ {r}) = FrozenSum(res, s, now) - part
    BY <1>1, FrozenWithout
  <2>2. Frozen(s, now, Requests \ {r}) \in Int
    BY <1>3, <2>1
  <2> QED BY <2>1, <2>2, RemainingIs
<1>7. part \in Nat /\ (part = res[r].amount \/ (part = 0 /\ ~admitted))
      /\ (admitted => part = res[r].amount)
  BY <1>3
<1> HIDE DEF charge, current, admitted, part, room
<1>8. CASE current
  BY <1>1, <1>2, <1>3, <1>5, <1>6, <1>7, <1>8 DEF SoldIn
<1>9. CASE ~current
  BY <1>4, <1>9 DEF SoldIn
<1> QED BY <1>8, <1>9

\* A writer changes the usage of a window only by a reset, which disturbs it.
LEMMA WriteSold ==
  ASSUME Typed, Sold, NEW w \in Writers, WriteRow(w), NEW s \in Scopes
  PROVE  SoldIn(s)'
<1>1. held[w].op # "none" /\ UNCHANGED <<res, now>> /\ SoldIn(s)
  BY DEF WriteRow, Sold
<1>2. CASE UNCHANGED <<sub, disturbed>>
  BY <1>1, <1>2 DEF SoldIn
<1>3. CASE /\ sub' = Bump(Written(held[w]))
           /\ disturbed' = IF held[w].op = "reset" THEN Scopes ELSE disturbed
  <2>1. held[w].op # "reset" => UsageAt(sub', s, now) = UsageAt(sub, s, now)
    BY <1>1, <1>3, WrittenUsage
  <2> QED BY <1>1, <1>3, <2>1 DEF SoldIn
<1> QED BY <1>2, <1>3 DEF WriteRow

LEMMA StepSold ==
  ASSUME Typed, Sold, [Next]_vars
  PROVE  Sold'
<1> SUFFICES ASSUME NEW s \in Scopes PROVE SoldIn(s)'
  BY DEF Sold
<1>1. SoldIn(s) /\ Limit[s] \in Nat
  BY ScopeFacts DEF Sold
<1>2. CASE Tick
  <2>1. RowOK(sub, now) /\ UNCHANGED sub
    BY <1>2 DEF Typed, Tick
  <2>2. CASE /\ s \in disturbed' <=> s \in disturbed
             /\ \A x : UsageAt(x, s, now') = UsageAt(x, s, now)
             /\ FrozenSum(res', s, now') = FrozenSum(res, s, now)
             /\ EarlierSum(res', s, now') = EarlierSum(res, s, now)
    BY <1>1, <2>1, <2>2 DEF SoldIn
  <2>3. CASE /\ \A x : RowOK(x, now) => UsageAt(x, s, now') = 0
             /\ FrozenSum(res', s, now') = 0
             /\ EarlierSum(res', s, now') = 0
    BY <1>1, <2>1, <2>3 DEF SoldIn
  <2> QED BY <1>2, <2>2, <2>3, TickSums
<1>3. CASE \E r \in Requests : CallCommit(r) \/ Release(r)
  <2>1. /\ FrozenSum(res', s, now) <= FrozenSum(res, s, now)
        /\ EarlierSum(res', s, now) = EarlierSum(res, s, now)
        /\ FrozenSum(res', s, now) \in Int
    <3>1. res' \in [Requests -> ReservationRow]
      BY <1>3, StepTyped DEF Typed
    <3> QED BY <1>3, <3>1, SumTypes, ReleaseSums DEF CallCommit
  <2>2. UNCHANGED <<sub, held, now, disturbed>>
    BY <1>3 DEF CallCommit, Release
  <2>3. /\ UsageAt(sub, s, now) \in Nat /\ FrozenSum(res, s, now) \in Nat
        /\ EarlierSum(res, s, now) \in Nat
    BY CountNumbers
  <2> QED BY <1>1, <2>1, <2>2, <2>3 DEF SoldIn
<1>4. CASE UNCHANGED vars
  BY <1>1, <1>4 DEF vars, SoldIn
<1>5. ASSUME NEW w \in Writers, NEW op, NEW what, ReadRow(w, op, what)
      PROVE  SoldIn(s)'
  BY <1>1, <1>5 DEF ReadRow, SoldIn
<1>6. CASE Renew \/ RevokeInTx \/ ShortenInTx
  <2>1. UsageAt(sub', s, now) = UsageAt(sub, s, now)
    BY <1>6, EditUsage
  <2>2. UNCHANGED <<res, now, disturbed>>
    BY <1>6 DEF Renew, RevokeInTx, ShortenInTx
  <2> QED BY <1>1, <2>1, <2>2 DEF SoldIn
<1> QED BY <1>2, <1>3, <1>4, <1>5, <1>6, StepCases, ReserveSold, CommitSold, WriteSold

LEMMA AlwaysSold == Spec => []Sold
<1>1. Init => Sold
  BY InitSold
<1>2. Typed /\ Sold /\ [Next]_vars => Sold'
  BY StepSold
<1> QED BY <1>1, <1>2, AlwaysTyped, PTL DEF Spec

\* Concurrent requests do not oversell a window that no reset has written in
\* and no commit from an earlier one: what it was charged and what open
\* reservations hold is within the limit, but for requests that an earlier
\* window had admitted.
THEOREM WindowsNotOversold == Spec => []NotOversold
<1>1. ASSUME Typed, Counted, Sold PROVE NotOversold
  <2> SUFFICES ASSUME NEW s \in Scopes \ disturbed
               PROVE  Charged(s, Requests) + Frozen(s, now, Requests)
                        <= Limit[s] + Charged(s, Earlier(s))
    BY DEF NotOversold
  <2>1. SoldIn(s) /\ CountedIn(s)
    BY <1>1 DEF Sold, Counted
  <2> QED BY <2>1, SumsAre DEF SoldIn, CountedIn
<1> QED BY <1>1, AlwaysTyped, AlwaysCounted, AlwaysSold, PTL
=============================================================================
