------------------------- MODULE MCContributionsTx -------------------------
(* Instances of ContributionsTx: two commands in flight. *)
EXTENDS ContributionsTx, TLC

Symmetry ==
  Permutations(Users) \cup Permutations(Profiles) \cup Permutations(Workers)
=============================================================================
