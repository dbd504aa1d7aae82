--------------------------- MODULE Reconciliation ---------------------------
(***************************************************************************)
(* The account check of the reconciliation job, as the job computes it     *)
(* from the tables Wallet.tla keeps.  If it finds a difference the job     *)
(* writes a discrepancy for an operator to look at.                        *)
(***************************************************************************)
EXTENDS Wallet

CONSTANT Tolerance      \* the difference the account check lets pass

Magnitude(x) == IF x < 0 THEN -x ELSE x

\* LatestLedgerBalanceAfter minus the wallet's frozen amount
ExpectedBalance(u) == latest[u].after - frozen[u]

AccountConsistent(u) ==
  latest[u].found => Magnitude(balance[u] - ExpectedBalance(u)) <= Tolerance
-----------------------------------------------------------------------------
\* A wallet only the billing operations touch passes the account check: its
\* balance is the newest ledger snapshot less what is frozen.
LedgerSnapshotMatchesWallet == \A u \in Users : AccountConsistent(u)
=============================================================================
