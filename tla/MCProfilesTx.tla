---------------------------- MODULE MCProfilesTx ----------------------------
(* Model checking of ProfilesTx: which commands meet, and how many workers. *)
EXTENDS ProfilesTx, TLC

UserSymmetry == Permutations(Users)
TxSymmetry == Permutations(Users) \cup Permutations(Workers)

OwnershipCommands ==
  {"inviteMember", "acceptInvitation", "nominateOwner", "acceptOwnership"}

=============================================================================
