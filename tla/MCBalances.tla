----------------------------- MODULE MCBalances -----------------------------
(* Instances of Balances. *)
EXTENDS Balances, TLC

Symmetry == Permutations(Rows) \cup Permutations(Workers)
=============================================================================
