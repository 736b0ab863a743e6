\* One user in two profiles of the tenant, one of which is funded.
SPECIFICATION FairSpec
CONSTANTS
  Users = {u1}
  Profiles = {p1, p2}
  Roles = {"ADMIN"}
  FullAllocationBp = 1
  PeriodLength = 1
  MaxIncome = 1
  MaxAmount = 2
  MaxPlans = 2
  MaxPeriods = 3
  MaxClock = 2
  Funded = {p1}
  JobBypassesRls = TRUE
INVARIANTS CapRespected PeriodsAreAChain ClosedReconciles
PROPERTIES HistoryIsPreserved DuePeriodsClose
CHECK_DEADLOCK FALSE
