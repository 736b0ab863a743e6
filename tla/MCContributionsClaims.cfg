\* What the documents say of plans, and what the code does not keep: each of these is
\* violated, to be run one at a time.
SPECIFICATION Spec
CONSTANTS
  Users = {u1}
  Profiles = {p1}
  Roles = {"ADMIN"}
  FullAllocationBp = 1
  PeriodLength = 1
  MaxIncome = 1
  MaxAmount = 1
  MaxPlans = 1
  MaxPeriods = 1
  MaxClock = 1
  Funded = {p1}
  JobBypassesRls = TRUE
PROPERTIES
  SnapshotIsImmutable
  ArchivedIsFrozen
CHECK_DEADLOCK FALSE
