-------------------------- MODULE MCContributions --------------------------
(* Instances of Contributions. *)
EXTENDS Contributions, TLC

Symmetry == Permutations(Users) \cup Permutations(Profiles)
=============================================================================
