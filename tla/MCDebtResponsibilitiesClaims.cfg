\* What the set of responsibilities should be, and is not: each of these is
\* violated, to be run one at a time.
SPECIFICATION Spec
CONSTANTS
  Users <- Members
  FULL_BP = 3
  Workers = {w1, w2}
  MaxWrites = 2
  MaxVersion = 1
SYMMETRY WorkerSymmetry
INVARIANTS
  SharesSumTo100
  LeaversHoldNothing
  DebtIsHeld
PROPERTIES
  NoLostOverride
CHECK_DEADLOCK FALSE
