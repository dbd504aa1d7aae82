-------------------------------- MODULE Sums --------------------------------
(***************************************************************************)
(* Totals of a column of integers, the SUM(...) of the SQL queries.        *)
(***************************************************************************)
EXTENDS Integers

Positive(x) == IF x > 0 THEN x ELSE 0
MinOf(x, y) == IF x < y THEN x ELSE y

RunningTotal(g, n) ==
  LET t[i \in 0..n] == IF i = 0 THEN 0 ELSE t[i-1] + g[i] IN t

Total(g, n) == RunningTotal(g, n)[n]

\* t is what adding up g[1], g[2], ..., g[n] goes through.
IsRunningTotal(t, g, n) ==
  \A i \in 0..n : t[i] = IF i = 0 THEN 0 ELSE t[i-1] + g[i]
=============================================================================
