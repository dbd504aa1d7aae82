----------------------------- MODULE SumLemmas -----------------------------
(***************************************************************************)
(* What the totals of Sums.tla satisfy.  The induction they rest on is the *)
(* least-number principle, obtained from the well-foundedness of < on Nat  *)
(* (the induction theorems of the library take an operator as parameter    *)
(* and are not used).                                                      *)
(***************************************************************************)
EXTENDS Sums, WellFoundedInduction, TLAPS

\* Every nonempty set of naturals has a least element.
LEMMA LeastNatural ==
  ASSUME NEW T \in SUBSET Nat, T # {}
  PROVE  \E x \in T : \A y \in T : x <= y
<1> DEFINE R == OpToRel(<, Nat)
<1>1. IsWellFoundedOn(R, Nat)
  BY NatLessThanWellFounded
<1>2. \A x, y \in T : <<y, x>> \in R <=> y < x
  BY DEF OpToRel
<1> HIDE DEF R
<1>3. PICK x \in T : \A y \in T : ~ (<<y, x>> \in R)
  BY <1>1, WFMin
<1>4. \A y \in T : ~ (y < x)
  BY <1>2, <1>3
<1>5. x \in Nat /\ \A y \in T : y \in Nat
  OBVIOUS
<1> QED
  BY <1>4, <1>5

\* A column of integers has a running total.
LEMMA RunningTotalExists ==
  ASSUME NEW g, NEW n \in Nat, \A i \in 1..n : g[i] \in Int
  PROVE  \E t \in [0..n -> Int] : IsRunningTotal(t, g, n)
<1> DEFINE Bad == {m \in 0..n : ~ \E t \in [0..m -> Int] : IsRunningTotal(t, g, m)}
<1>1. SUFFICES ASSUME Bad # {} PROVE FALSE
  OBVIOUS
<1>2. Bad \in SUBSET Nat
  OBVIOUS
<1>3. PICK m \in Bad : \A y \in Bad : m <= y
  <2> HIDE DEF Bad
  <2> QED BY <1>1, <1>2, LeastNatural
<1>4. CASE m = 0
  <2>1. IsRunningTotal([i \in 0..0 |-> 0], g, 0)
    BY DEF IsRunningTotal
  <2> QED BY <2>1, <1>4
<1>5. CASE m # 0
  <2>1. m - 1 \in 0..n /\ m - 1 \notin Bad
    BY <1>3, <1>5
  <2>2. PICK t \in [0..(m-1) -> Int] : IsRunningTotal(t, g, m - 1)
    BY <2>1
  <2> DEFINE s == [i \in 0..m |-> IF i = m THEN t[m-1] + g[m] ELSE t[i]]
  <2>3. s \in [0..m -> Int]
    BY <1>3, <1>5
  <2>4. IsRunningTotal(s, g, m)
    <3> SUFFICES ASSUME NEW i \in 0..m
                 PROVE  s[i] = IF i = 0 THEN 0 ELSE s[i-1] + g[i]
      BY DEF IsRunningTotal
    <3>1. m \in 1..n /\ i \in Int
      BY <1>3, <1>5
    <3>2. CASE i = m
      BY <3>1, <3>2
    <3>3. CASE i < m
      <4>1. t[i] = IF i = 0 THEN 0 ELSE t[i-1] + g[i]
        BY <2>2, <3>1, <3>3 DEF IsRunningTotal
      <4> QED BY <4>1, <3>1, <3>3
    <3> QED BY <3>1, <3>2, <3>3
  <2> QED BY <2>3, <2>4
<1> QED BY <1>4, <1>5

\* ... and only one.
LEMMA RunningTotalUnique ==
  ASSUME NEW g, NEW n \in Nat,
         NEW s \in [0..n -> Int], IsRunningTotal(s, g, n),
         NEW t, IsRunningTotal(t, g, n)
  PROVE  \A i \in 0..n : s[i] = t[i]
<1> DEFINE Bad == {m \in 0..n : s[m] # t[m]}
<1>1. SUFFICES ASSUME Bad # {} PROVE FALSE
  OBVIOUS
<1>2. Bad \in SUBSET Nat
  OBVIOUS
<1>3. PICK m \in Bad : \A y \in Bad : m <= y
  <2> HIDE DEF Bad
  <2> QED BY <1>1, <1>2, LeastNatural
<1>4. CASE m = 0
  BY <1>4 DEF IsRunningTotal
<1>5. CASE m # 0
  <2>1. m - 1 \in 0..n /\ m - 1 \notin Bad
    BY <1>3, <1>5
  <2>2. s[m-1] = t[m-1]
    BY <2>1
  <2> QED BY <2>2, <1>5 DEF IsRunningTotal
<1> QED BY <1>4, <1>5

\* The running total of Sums.tla does add up the column.
LEMMA RunningTotalIs ==
  ASSUME NEW g, NEW n \in Nat, \A i \in 1..n : g[i] \in Int
  PROVE  /\ RunningTotal(g, n) \in [0..n -> Int]
         /\ IsRunningTotal(RunningTotal(g, n), g, n)
<1>1. PICK t \in [0..n -> Int] : IsRunningTotal(t, g, n)
  BY RunningTotalExists
<1>2. t = [i \in 0..n |-> IF i = 0 THEN 0 ELSE t[i-1] + g[i]]
  BY <1>1 DEF IsRunningTotal
<1>3. RunningTotal(g, n) =
        [i \in 0..n |-> IF i = 0 THEN 0 ELSE RunningTotal(g, n)[i-1] + g[i]]
  BY <1>2 DEF RunningTotal
<1>4. IsRunningTotal(RunningTotal(g, n), g, n)
  BY <1>3 DEF IsRunningTotal
<1>5. \A i \in 0..n : t[i] = RunningTotal(g, n)[i]
  BY <1>1, <1>4, RunningTotalUnique
<1>6. RunningTotal(g, n) \in [0..n -> Int]
  BY <1>1, <1>3, <1>5
<1> QED
  BY <1>4, <1>6

\* A function that adds up the column is the running total: its last value is
\* the total.  Most facts below exhibit such a function.
LEMMA TotalIs ==
  ASSUME NEW g, NEW n \in Nat, \A i \in 1..n : g[i] \in Int,
         NEW t \in [0..n -> Int], IsRunningTotal(t, g, n)
  PROVE  Total(g, n) = t[n]
<1>1. IsRunningTotal(RunningTotal(g, n), g, n)
  BY RunningTotalIs
<1>2. \A i \in 0..n : t[i] = RunningTotal(g, n)[i]
  BY <1>1, RunningTotalUnique
<1> QED
  BY <1>2 DEF Total

\* The total of integers is an integer.
LEMMA TotalType ==
  ASSUME NEW g, NEW n \in Nat, \A i \in 1..n : g[i] \in Int
  PROVE  Total(g, n) \in Int
<1>1. PICK t \in [0..n -> Int] : IsRunningTotal(t, g, n)
  BY RunningTotalExists
<1> QED BY <1>1, TotalIs

\* The total of naturals is natural.
LEMMA TotalNatural ==
  ASSUME NEW g, NEW n \in Nat, \A i \in 1..n : g[i] \in Nat
  PROVE  Total(g, n) \in Nat
<1>i. \A i \in 1..n : g[i] \in Int
  OBVIOUS
<1>1. PICK t \in [0..n -> Int] : IsRunningTotal(t, g, n)
  BY <1>i, RunningTotalExists
<1> DEFINE Bad == {m \in 0..n : t[m] < 0}
<1>2. Bad = {}
  <2> SUFFICES ASSUME Bad # {} PROVE FALSE
    OBVIOUS
  <2>1. PICK m \in Bad : \A y \in Bad : m <= y
    <3>1. Bad \in SUBSET Nat
      OBVIOUS
    <3> HIDE DEF Bad
    <3> QED BY <3>1, LeastNatural
  <2>2. m # 0
    BY <1>1, <2>1 DEF IsRunningTotal
  <2>3. m - 1 \in 0..n /\ m - 1 \notin Bad
    BY <2>1, <2>2
  <2>4. t[m] = t[m-1] + g[m] /\ g[m] \in Nat /\ t[m-1] \in Int
    BY <1>1, <2>1, <2>2, <2>3 DEF IsRunningTotal
  <2> QED BY <2>1, <2>3, <2>4
<1>3. Total(g, n) = t[n] /\ t[n] \in Int
  BY <1>i, <1>1, TotalIs
<1> QED BY <1>2, <1>3

\* Equal columns have equal totals.
LEMMA TotalEqual ==
  ASSUME NEW g, NEW h, NEW n \in Nat, \A i \in 1..n : g[i] \in Int,
         \A i \in 1..n : h[i] = g[i]
  PROVE  Total(h, n) = Total(g, n)
<1>1. PICK t \in [0..n -> Int] : IsRunningTotal(t, g, n)
  BY RunningTotalExists
<1>2. IsRunningTotal(t, h, n)
  BY <1>1 DEF IsRunningTotal
<1> QED BY <1>1, <1>2, TotalIs

\* A column of zeros.
LEMMA TotalZero ==
  ASSUME NEW g, NEW n \in Nat, \A i \in 1..n : g[i] = 0
  PROVE  Total(g, n) = 0
<1> DEFINE t == [i \in 0..n |-> 0]
<1>1. t \in [0..n -> Int] /\ IsRunningTotal(t, g, n)
  BY DEF IsRunningTotal
<1> HIDE DEF t
<1>2. Total(g, n) = t[n]
  BY <1>1, TotalIs
<1> QED BY <1>2 DEF t

\* One entry changes: the total moves by the difference.
LEMMA TotalUpdate ==
  ASSUME NEW g, NEW h, NEW n \in Nat, NEW k \in 1..n,
         \A i \in 1..n : g[i] \in Int, h[k] \in Int,
         \A i \in 1..n : i # k => h[i] = g[i]
  PROVE  Total(h, n) = Total(g, n) + (h[k] - g[k])
<1>1. PICK t \in [0..n -> Int] : IsRunningTotal(t, g, n)
  BY RunningTotalExists
<1> DEFINE s == [i \in 0..n |-> IF i < k THEN t[i] ELSE t[i] + (h[k] - g[k])]
<1>2. s \in [0..n -> Int]
  OBVIOUS
<1>3. IsRunningTotal(s, h, n)
  <2> SUFFICES ASSUME NEW i \in 0..n
               PROVE  s[i] = IF i = 0 THEN 0 ELSE s[i-1] + h[i]
    BY DEF IsRunningTotal
  <2>1. t[i] = IF i = 0 THEN 0 ELSE t[i-1] + g[i]
    BY <1>1 DEF IsRunningTotal
  <2>2. CASE i < k BY <2>1, <2>2
  <2>3. CASE i = k BY <2>1, <2>3
  <2>4. CASE i > k BY <2>1, <2>4
  <2> QED BY <2>2, <2>3, <2>4
<1>4. Total(g, n) = t[n]
  BY <1>1, TotalIs
<1>5. Total(h, n) = s[n]
  <2>1. \A i \in 1..n : h[i] \in Int
    OBVIOUS
  <2> HIDE DEF s
  <2> QED BY <1>2, <1>3, <2>1, TotalIs
<1>6. s[n] = t[n] + (h[k] - g[k])
  OBVIOUS
<1> QED BY <1>4, <1>5, <1>6

\* One entry more.
LEMMA TotalAppend ==
  ASSUME NEW g, NEW h, NEW n \in Nat,
         \A i \in 1..n : g[i] \in Int, h[n+1] \in Int,
         \A i \in 1..n : h[i] = g[i]
  PROVE  Total(h, n + 1) = Total(g, n) + h[n+1]
<1>1. PICK t \in [0..n -> Int] : IsRunningTotal(t, g, n)
  BY RunningTotalExists
<1> DEFINE s == [i \in 0..(n+1) |-> IF i = n + 1 THEN t[n] + h[n+1] ELSE t[i]]
<1>2. s \in [0..(n+1) -> Int]
  OBVIOUS
<1>3. IsRunningTotal(s, h, n + 1)
  BY <1>1 DEF IsRunningTotal
<1>4. Total(g, n) = t[n]
  BY <1>1, TotalIs
<1>5. Total(h, n + 1) = s[n+1]
  <2>1. \A i \in 1..(n+1) : h[i] \in Int
    OBVIOUS
  <2> HIDE DEF s
  <2> QED BY <1>2, <1>3, <2>1, TotalIs
<1> QED BY <1>4, <1>5

\* Taking a from the entries in order, each giving what it has until a is
\* spent, leaves the total less a, or nothing.
LEMMA TotalDrained ==
  ASSUME NEW g, NEW h, NEW n \in Nat, NEW a \in Nat,
         \A i \in 1..n : g[i] \in Nat,
         \A i \in 1..n :
           h[i] = g[i] - MinOf(g[i], Positive(a - RunningTotal(g, n)[i-1]))
  PROVE  Total(h, n) = Positive(Total(g, n) - a)
<1> DEFINE t == RunningTotal(g, n)
           s == [i \in 0..n |-> Positive(t[i] - a)]
<1>1. \A i \in 1..n : g[i] \in Int
  OBVIOUS
<1>2. t \in [0..n -> Int] /\ IsRunningTotal(t, g, n)
  BY <1>1, RunningTotalIs
<1> HIDE DEF t
<1>3. s \in [0..n -> Int]
  BY <1>2 DEF Positive
<1>4. \A i \in 1..n : h[i] = g[i] - MinOf(g[i], Positive(a - t[i-1]))
  BY DEF t
<1>5. \A i \in 1..n : i - 1 \in 0..n /\ t[i-1] \in Int
  BY <1>2
<1>6. \A i \in 1..n : h[i] \in Int
  BY <1>4, <1>5 DEF Positive, MinOf
<1>7. IsRunningTotal(s, h, n)
  <2> SUFFICES ASSUME NEW i \in 0..n
               PROVE  s[i] = IF i = 0 THEN 0 ELSE s[i-1] + h[i]
    BY DEF IsRunningTotal
  <2>1. t[i] = IF i = 0 THEN 0 ELSE t[i-1] + g[i]
    BY <1>2 DEF IsRunningTotal
  <2>2. CASE i = 0
    BY <2>1, <2>2 DEF Positive
  <2>3. CASE i # 0
    <3>1. i \in 1..n /\ i - 1 \in 0..n
      BY <2>3
    <3>2. s[i] = Positive(t[i] - a) /\ s[i-1] = Positive(t[i-1] - a)
      BY <3>1
    <3>3. t[i-1] \in Int /\ g[i] \in Nat /\ t[i] = t[i-1] + g[i]
      BY <1>5, <2>1, <2>3, <3>1
    <3>4. Positive(t[i] - a)
            = Positive(t[i-1] - a) + (g[i] - MinOf(g[i], Positive(a - t[i-1])))
      BY <3>3 DEF Positive, MinOf
    <3>5. h[i] = g[i] - MinOf(g[i], Positive(a - t[i-1]))
      BY <1>4, <3>1
    <3> HIDE DEF s
    <3> QED BY <3>2, <3>4, <3>5, <2>3
  <2> QED BY <2>2, <2>3
<1>8. Total(h, n) = s[n]
  <2> HIDE DEF s
  <2> QED BY <1>3, <1>6, <1>7, TotalIs
<1>9. Total(g, n) = t[n]
  BY <1>1, <1>2, TotalIs
<1> QED BY <1>8, <1>9

=============================================================================
