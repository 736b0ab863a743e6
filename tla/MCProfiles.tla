----------------------------- MODULE MCProfiles -----------------------------
(* Model checking of Profiles: three users, interchangeable. *)
EXTENDS Profiles, TLC

UserSymmetry == Permutations(Users)

=============================================================================
