----------------------- MODULE MCDebtResponsibilities -----------------------
(* Instances of DebtResponsibilities: memberships are numbers, which the     *)
(* ties between remainders compare, so only the workers are symmetric.       *)
EXTENDS DebtResponsibilities, TLC

Members == 1..3
WorkerSymmetry == Permutations(Workers)
=============================================================================
