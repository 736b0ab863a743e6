\* What holds of commands that do not overlap only: each of these is violated,
\* to be run one at a time.  Only TxTypeOK holds.
SPECIFICATION TxSpec
CONSTANTS
  Users = {u1}
  Profiles = {p1}
  Roles = {"ADMIN"}
  FullAllocationBp = 1
  PeriodLength = 1
  MaxIncome = 0
  MaxAmount = 2
  MaxPlans = 2
  MaxPeriods = 2
  MaxClock = 1
  Funded = {p1}
  JobBypassesRls = TRUE
  Workers = {w1, w2}
  Commands = {"setAllocation", "redistribute", "recordContribution", "rollover"}
SYMMETRY Symmetry
INVARIANTS
  PeriodsAreAChain
  ClosedReconciles
  TxTypeOK
PROPERTIES
  SupersededPlansAreFrozen
CHECK_DEADLOCK FALSE
