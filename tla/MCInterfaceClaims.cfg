\* What the documents say of the edge, and what one would expect of it: each of
\* these is violated, to be run one at a time (AppliedAtMostOnce because of
\* Refetches, which is TRUE here).
SPECIFICATION InterfaceSpec
CONSTANTS
  \* RateLimiter, Coaching
  Requests = {r1, r2}
  Limit = 1
  WindowSeconds = 2
  MaxNow = 4
  ApiKeySet = TRUE
  \* Paging
  Items = {1, 2, 3, 4}
  DefaultPageSize = 1
  MaxPageSize = 2
  MaxChanges = 4
  \* Retries
  Clients = {c1, c2}
  \* one for each way to meet a repetition, with a second transaction and without
  Mutations = {"fundGoal", "acceptOwnership", "recordContribution", "setAllocation", "contributeFromAccount", "me"}
  Refetches = TRUE
  MaxTries = 3
  MaxOffers = 2
  \* PubSub
  Topics = {"pool", "standing"}
  Subscribers = {s1, s2}
  Values = {1, 2}
  MaxLog = 2
  \* LivePool
  Users = {u1, u2}
  Profiles = {p1}
  Funded = {p1}
  Roles = {"CONTRIBUTOR"}
  FullAllocationBp = 1
  PeriodLength = 1
  MaxIncome = 1
  MaxAmount = 1
  MaxPlans = 2
  MaxPeriods = 2
  MaxClock = 1
  JobBypassesRls = TRUE
  Resolvers = {w1, w2}
  Founders = {u1}
  MaxCommits = 2
  MaxOthers = 4
  \* Tenancy
  Tenants = {"a", "b"}
  Unset = Unset
  SharedProfiles = {"pa", "pb"}
  Principals = {"ua", "va", "ub"}
  tenantOf <- TenantOf
  ownerOf <- OwnerOf
  Connections = {k1}
  RoleBypassesRls = TRUE
  MaxOpened = 2
INVARIANTS
  CountersExpire
  MembersKeepTheirPlace
  RetriesAreSafe
  ConflictMayPass
  AppliedAtMostOnce
  NobodyWaitsForClosed
  SubscribersConverge
  PoolTotalIsSumOfRecords
  LiveAnswersAgree
  CoachingSeesAllRecords
  SweepsStayInTheirTenant
  ReferencesStayInTheTenant
CHECK_DEADLOCK FALSE
