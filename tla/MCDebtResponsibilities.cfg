\* Three members, two replacements in flight.
SPECIFICATION Spec
CONSTANTS
  Users <- Members
  FULL_BP = 3
  Workers = {w1, w2}
  MaxWrites = 2
  MaxVersion = 1
SYMMETRY WorkerSymmetry
INVARIANTS TypeOK SumHoldsUntilTwoLeave ReassignmentIsFair
CHECK_DEADLOCK FALSE
