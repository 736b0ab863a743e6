--------------------------- MODULE Contributions ---------------------------
(***************************************************************************)
(* Contribution plans, contribution periods and records, one atomic action *)
(* per use case of ContributionsService and PeriodService, for all shared  *)
(* profiles of a tenant: a member's percentages are capped across them.    *)
(*                                                                         *)
(* A plan version is the partial map from members to percentages that its  *)
(* allocation rows form, and plans[p] lists the versions of profile p, so  *)
(* that a version number is a position.  Income and percentages are small  *)
(* numbers, an expected amount is their product: the rounding of amounts   *)
(* is not this module's business.                                          *)
(***************************************************************************)
EXTENDS Naturals, Sequences, FiniteSets, Functions, Membership

CONSTANTS
  Users, Profiles,
  Roles,             \* the roles that members are given
  FullAllocationBp,  \* 100%
  PeriodLength,
  MaxIncome, MaxAmount, MaxPlans, MaxPeriods, MaxClock,  \* model bounds
  Funded,            \* model bound: in other profiles members only set percentages
  JobBypassesRls     \* the rollover job's connection sees the rows of all tenants

ASSUME ContributionsAssumption ==
  /\ IsFiniteSet(Users) /\ IsFiniteSet(Profiles)
  /\ Roles \subseteq MemberRole
  /\ Funded \subseteq Profiles
  /\ {FullAllocationBp, MaxIncome, MaxAmount, MaxPlans, MaxPeriods, MaxClock} \subseteq Nat
  /\ PeriodLength \in Nat \ {0}
  /\ JobBypassesRls \in BOOLEAN

VARIABLES
  role,      \* the role of each user's ACTIVE membership, else "NONE" or "LEFT"
  archived,  \* the archived profiles
  income,    \* the declared income on each membership
  plans,     \* the plan versions of each profile
  periods,   \* the contribution periods of each profile, as they were opened
  clock

vars == <<role, archived, income, plans, periods, clock>>

membershipVars == <<role, archived>>

Allocations == UNION {[S -> 0..FullAllocationBp] : S \in SUBSET Users}

\* actual: the sum of each member's records; reconciled: the total that
\* ContributionPeriodClosed announced, 0 before.
Period ==
  [status : {"OPEN", "CLOSED"}, startDate : Nat, endDate : Nat,
   planVersion : Nat, income : UNION {[S -> 0..MaxIncome] : S \in SUBSET Users},
   actual : [Users -> Nat], reconciled : Nat]

TypeOK ==
  /\ role \in [Profiles -> [Users -> MemberRole \cup {"NONE", "LEFT"}]]
  /\ archived \subseteq Profiles
  /\ income \in [Profiles -> [Users -> 0..MaxIncome]]
  /\ plans \in [Profiles -> Seq(Allocations)]
  /\ periods \in [Profiles -> Seq(Period)]
  /\ clock \in Nat

Init ==
  /\ role = [p \in Profiles |-> [u \in Users |-> "NONE"]]
  /\ archived = {}
  /\ income = [p \in Profiles |-> [u \in Users |-> 0]]
  /\ plans = [p \in Profiles |-> <<>>]
  /\ periods = [p \in Profiles |-> <<>>]
  /\ clock = 0

-----------------------------------------------------------------------------
(* What the profiles component does to the rows read here. *)

isMember(p, u) == role[p][u] \in MemberRole

Join(p, u, r) ==
  /\ role[p][u] = "NONE"
  /\ role' = [role EXCEPT ![p][u] = r]
  /\ UNCHANGED <<archived, income, plans, periods, clock>>

Leave(p, u) ==
  /\ isMember(p, u) /\ role[p][u] # "OWNER"
  /\ role' = [role EXCEPT ![p][u] = "LEFT"]
  /\ UNCHANGED <<archived, income, plans, periods, clock>>

Archive(p) ==
  /\ p \notin archived
  /\ \A u, v \in Users : isMember(p, u) /\ isMember(p, v) => u = v
  /\ archived' = archived \cup {p}
  /\ UNCHANGED <<role, income, plans, periods, clock>>

-----------------------------------------------------------------------------
(* Percentages. *)

mayContribute(p, u) == role[p][u] \in {"OWNER", "ADMIN", "CONTRIBUTOR"}

mayRedistribute(p, u) == role[p][u] \in {"OWNER", "ADMIN"}

\* Version 0 is no plan, and a member without an allocation row is at 0%.
allocationIn(p, version, u) ==
  IF version \in DOMAIN plans[p] /\ u \in DOMAIN plans[p][version]
  THEN plans[p][version][u] ELSE 0

currentVersion(p) == Len(plans[p])

currentAllocation(u) == [p \in Profiles |-> allocationIn(p, currentVersion(p), u)]

committedByUser(u, among) ==
  SumFunctionOnSet(currentAllocation(u), {p \in among : isMember(p, u)})

\* Faulty: each profile is looked at alone.
checkAllocationWithinProfile(p, u, bp) == bp <= FullAllocationBp

checkAllocationWithinCap(p, u, bp) ==
  /\ bp <= FullAllocationBp
  /\ committedByUser(u, Profiles \ {p}) + bp <= FullAllocationBp

\* Faulty: the percentage is added to the one that is there.
upsertAllocationAdding(plan, u, bp) ==
  [v \in DOMAIN plan \cup {u} |->
     (IF v = u THEN bp ELSE 0) + (IF v \in DOMAIN plan THEN plan[v] ELSE 0)]

upsertAllocation(plan, u, bp) ==
  [v \in DOMAIN plan \cup {u} |-> IF v = u THEN bp ELSE plan[v]]

\* The allocation goes into the plan version that is current, the first one if
\* there is none yet.
inPlan(list, version, u, bp) ==
  IF version = 0 THEN <<[v \in {u} |-> bp]>>
  ELSE [list EXCEPT ![version] = upsertAllocation(list[version], u, bp)]

\* The profile row is not looked at.
SetAllocation(p, u, bp) ==
  /\ mayContribute(p, u)
  /\ checkAllocationWithinCap(p, u, bp)
  /\ plans' = [plans EXCEPT ![p] = inPlan(@, currentVersion(p), u, bp)]
  /\ UNCHANGED <<membershipVars, income, periods, clock>>

validateRedistribution(allocations) ==
  /\ DOMAIN allocations # {}
  /\ \A u \in DOMAIN allocations : allocations[u] <= FullAllocationBp

\* The members left out of the request have no allocation in the new version.
Redistribute(p, actor, allocations) ==
  /\ mayRedistribute(p, actor)
  /\ p \notin archived
  /\ validateRedistribution(allocations)
  /\ \A u \in DOMAIN allocations :
       isMember(p, u) /\ checkAllocationWithinCap(p, u, allocations[u])
  /\ currentVersion(p) < MaxPlans
  /\ plans' = [plans EXCEPT ![p] = Append(@, allocations)]
  /\ UNCHANGED <<membershipVars, income, periods, clock>>

\* Faulty: the new income is written through to the open snapshot.
SetDeclaredIncomeRetroactively(p, u, amount) ==
  /\ mayContribute(p, u)
  /\ income' = [income EXCEPT ![p][u] = amount]
  /\ periods' = [periods EXCEPT ![p] =
       [i \in DOMAIN @ |->
          IF @[i].status = "OPEN" /\ u \in DOMAIN @[i].income
          THEN [@[i] EXCEPT !.income[u] = amount] ELSE @[i]]]
  /\ UNCHANGED <<membershipVars, plans, clock>>

SetDeclaredIncome(p, u, amount) ==
  /\ mayContribute(p, u)
  /\ income' = [income EXCEPT ![p][u] = amount]
  /\ UNCHANGED <<membershipVars, plans, periods, clock>>

-----------------------------------------------------------------------------
(* Periods and records. *)

\* openPeriod: the version and the incomes are those of this moment.
newPeriod(p, startDate) ==
  [status |-> "OPEN", startDate |-> startDate, endDate |-> startDate + PeriodLength,
   planVersion |-> currentVersion(p),
   income |-> [u \in {v \in Users : isMember(p, v)} |-> income[p][u]],
   actual |-> [u \in Users |-> 0], reconciled |-> 0]

isOpen(period) == period.status = "OPEN"

\* The open period a record goes to is the one that started last.
latestOpen(list) ==
  {i \in DOMAIN list :
     /\ isOpen(list[i])
     /\ \A j \in DOMAIN list : isOpen(list[j]) => list[j].startDate <= list[i].startDate}

ensureOpenPeriod(p) ==
  IF \E i \in DOMAIN periods[p] : isOpen(periods[p][i])
  THEN periods[p]
  ELSE Append(periods[p], newPeriod(p, clock))

\* Faulty: a second record of a member replaces the first.
createRecordReplacing(list, i, u, amount) == [list EXCEPT ![i].actual[u] = amount]

createRecord(list, i, u, amount) == [list EXCEPT ![i].actual[u] = @ + amount]

RecordContribution(p, u, amount) ==
  /\ mayContribute(p, u)
  /\ amount > 0
  /\ p \notin archived
  /\ Len(ensureOpenPeriod(p)) <= MaxPeriods
  /\ \E i \in latestOpen(ensureOpenPeriod(p)) :
       /\ ensureOpenPeriod(p)[i].actual[u] + amount <= MaxAmount
       /\ periods' = [periods EXCEPT ![p] =
                        createRecord(ensureOpenPeriod(p), i, u, amount)]
  /\ UNCHANGED <<membershipVars, income, plans, clock>>

\* The pool is the sum of all records, members of the snapshot or not.
poolActual(period) == SumFunction(period.actual)

isDue(period) == isOpen(period) /\ clock >= period.endDate

\* Faulty: the total announced is the expected one.
closedAtExpected(period) ==
  [period EXCEPT !.status = "CLOSED", !.reconciled = SumFunction(period.income)]

closed(period) == [period EXCEPT !.status = "CLOSED", !.reconciled = poolActual(period)]

\* Faulty: the successor starts when the job runs.
rollOverFromNow(p, i) ==
  LET list == [periods[p] EXCEPT ![i] = closed(@)]
  IN  IF p \in archived THEN list ELSE Append(list, newPeriod(p, clock))

\* The successor starts where its predecessor ended; archived profiles get none.
rollOver(p, i) ==
  LET list == [periods[p] EXCEPT ![i] = closed(@)]
  IN  IF p \in archived THEN list ELSE Append(list, newPeriod(p, periods[p][i].endDate))

\* Faulty: archived profiles are passed over.
RolloverOfActiveProfiles(batch) ==
  /\ JobBypassesRls
  /\ DOMAIN batch # {} /\ DOMAIN batch \cap archived = {}
  /\ \A p \in DOMAIN batch :
       /\ batch[p] \in DOMAIN periods[p] /\ isDue(periods[p][batch[p]])
       /\ Len(rollOver(p, batch[p])) <= MaxPeriods
  /\ periods' = [p \in Profiles |->
                   IF p \in DOMAIN batch THEN rollOver(p, batch[p]) ELSE periods[p]]
  /\ UNCHANGED <<membershipVars, income, plans, clock>>

\* One transaction of the job: a batch ("take: 500") of the due periods, here
\* the index of the one due period of each profile in the batch.
RolloverForTenant(batch) ==
  /\ JobBypassesRls
  /\ DOMAIN batch # {}
  /\ \A p \in DOMAIN batch :
       /\ batch[p] \in DOMAIN periods[p] /\ isDue(periods[p][batch[p]])
       /\ Len(rollOver(p, batch[p])) <= MaxPeriods
  /\ periods' = [p \in Profiles |->
                   IF p \in DOMAIN batch THEN rollOver(p, batch[p]) ELSE periods[p]]
  /\ UNCHANGED <<membershipVars, income, plans, clock>>

Tick ==
  /\ clock < MaxClock
  /\ clock' = clock + 1
  /\ UNCHANGED <<membershipVars, income, plans, periods>>

-----------------------------------------------------------------------------
Rollover ==
  \E S \in SUBSET Profiles : \E batch \in [S -> 1..MaxPeriods] : RolloverForTenant(batch)

Next ==
  \/ \E p \in Profiles, u \in Users :
       \/ \E r \in Roles : Join(p, u, r)
       \/ Leave(p, u)
       \/ \E bp \in 0..FullAllocationBp : SetAllocation(p, u, bp)
  \/ \E p \in Funded, u \in Users :
       \/ \E allocations \in Allocations : Redistribute(p, u, allocations)
       \/ \E amount \in 0..MaxIncome : SetDeclaredIncome(p, u, amount)
       \/ \E amount \in 1..MaxAmount : RecordContribution(p, u, amount)
  \/ \E p \in Funded : Archive(p)
  \/ Rollover
  \/ Tick

Spec == Init /\ [][Next]_vars

\* The job runs every 15 minutes.  Members owe nothing.
FairSpec == Spec /\ WF_vars(Rollover)

-----------------------------------------------------------------------------
(* Properties. *)

\* A user never commits more than 100% of the income over all the profiles the
\* user is an ACTIVE member of (FR-015a), whoever sets the percentages.
CapRespected == \A u \in Users : committedByUser(u, Profiles) <= FullAllocationBp

\* The periods of a profile follow each other without gap or overlap, and only
\* the last one is open: neither a late rollover nor a first record breaks the
\* chain (FR-016a, nextPeriodWindow).
PeriodsAreAChain ==
  \A p \in Profiles :
    /\ \A i \in DOMAIN periods[p] : isOpen(periods[p][i]) => i = Len(periods[p])
    /\ \A i \in 2..Len(periods[p]) :
         periods[p][i].startDate = periods[p][i-1].endDate

\* The total announced when a period closed is, for ever, the sum of the
\* records of that period (FR-019, SC-005).
ClosedReconciles ==
  \A p \in Profiles : \A i \in DOMAIN periods[p] :
    isOpen(periods[p][i]) \/ periods[p][i].reconciled = poolActual(periods[p][i])

\* What a period expects of a user: nothing if the user was not a member.
expectedOf(p, i, u) ==
  IF u \in DOMAIN periods[p][i].income
  THEN periods[p][i].income[u] * allocationIn(p, periods[p][i].planVersion, u)
  ELSE 0

\* A period that opened before the last redistribution keeps its expected
\* amounts and its records: percentages and incomes set later, members leaving
\* and the rollover do not reach it (SC-006).
HistoryIsPreserved ==
  [][\A p \in Profiles : \A i \in DOMAIN periods[p] :
       /\ periods[p][i].planVersion < currentVersion(p) \/ currentVersion(p)' > currentVersion(p)
            => \A u \in Users : expectedOf(p, i, u)' = expectedOf(p, i, u)
       /\ ~isOpen(periods[p][i]) => periods'[p][i] = periods[p][i]]_vars

\* "A contribution period MUST auto-close at the end of its configured window"
\* (FR-016a), in archived profiles too.
DuePeriodsClose ==
  \A p \in Profiles : \A i \in 1..(MaxPeriods - 1) :
    (i \in DOMAIN periods[p] /\ isDue(periods[p][i])) ~>
      (i \in DOMAIN periods[p] /\ ~isOpen(periods[p][i]))

\* contributions.service.ts: "Income/allocation edits are forward-only - they
\* change the member's current value but never a period already snapshotted".
SnapshotIsImmutable ==
  [][\A p \in Profiles : \A i \in DOMAIN periods[p], u \in Users :
       expectedOf(p, i, u)' = expectedOf(p, i, u)]_vars

\* FR-007c: in an archived profile "future contributions, allocations, and
\* shared-element changes are frozen".
ArchivedIsFrozen ==
  [][\A p \in archived : plans'[p] = plans[p]]_vars

=============================================================================
