SPECIFICATION TxSpec
CONSTANTS
  Users = {u1}
  Profiles = {p1}
  Roles = {"ADMIN"}
  FullAllocationBp = 1
  PeriodLength = 1
  MaxIncome = 0
  MaxAmount = 3
  MaxPlans = 2
  MaxPeriods = 2
  MaxClock = 1
  Funded = {p1}
  JobBypassesRls = TRUE
  Workers = {w1, w2}
  Commands = {"setAllocation", "redistribute", "recordContribution", "rollover"}
SYMMETRY Symmetry
INVARIANTS NoPhantomTotal
PROPERTIES RecordsAreKept
CHECK_DEADLOCK FALSE
