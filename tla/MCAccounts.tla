----------------------------- MODULE MCAccounts -----------------------------
(* The first admin, who creates another user, and two requests at a time.  *)
EXTENDS Accounts, TLC

Symmetry == Permutations(Requests)
=============================================================================
