----------------------------- MODULE MCAccounts -----------------------------
(* Accounts for TLC: the requests in flight may be exchanged.              *)
EXTENDS Accounts, TLC

Symmetry == Permutations(Handlers)
=============================================================================
