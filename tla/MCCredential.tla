---------------------------- MODULE MCCredential ----------------------------
(* Instances of CredentialRefresh for TLC. *)
EXTENDS CredentialRefresh, TLC

CONSTANTS p1, p2

\* relay processes are interchangeable
Replicas == Permutations({p1, p2})
=============================================================================
