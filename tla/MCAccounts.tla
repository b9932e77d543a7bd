----------------------------- MODULE MCAccounts -----------------------------
(***************************************************************************)
(* Instances of Accounts for TLC.                                          *)
(***************************************************************************)
EXTENDS AccountsProperties, TLC

Symmetry ==
  Permutations(Threads) \cup Permutations(Hashes) \cup Permutations(Tokens)
=============================================================================
