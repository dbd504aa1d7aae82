------------------------------ MODULE MCWallet ------------------------------
(* An instance of Wallet for TLC. *)
EXTENDS Wallet, TLC

CONSTANTS u1, u2

\* every billing mode and both usage contracts; a dual request whose
\* subscription absorbs nothing is settled as a wallet one
SomeProfiles == {[mode |-> "wallet", intent |-> FALSE],
                 [mode |-> "dual", intent |-> TRUE],
                 [mode |-> "subscription_only", intent |-> FALSE]}

\* two requests and a wallet operation of one user, and another user whose
\* wallet they must leave alone
PairRes == <<u1, u1>>
PairOps == <<u1>>
PairInit == u1 :> 2 @@ u2 :> 1
=============================================================================
