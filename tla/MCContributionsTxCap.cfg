SPECIFICATION TxSpec
CONSTANTS
  Users = {u1}
  Profiles = {p1, p2}
  Roles = {"ADMIN"}
  FullAllocationBp = 1
  PeriodLength = 1
  MaxIncome = 0
  MaxAmount = 0
  MaxPlans = 0
  MaxPeriods = 0
  MaxClock = 0
  Funded = {p1, p2}
  JobBypassesRls = TRUE
  Workers = {w1, w2}
  Commands = {"setAllocation"}
SYMMETRY Symmetry
INVARIANTS CapRespected
CHECK_DEADLOCK FALSE
