# Financial OS: a verification development of the API

Models, model-checking configurations and proofs for the backend of Financial OS
(`src/apps/api`), the server behind shared financial profiles: people govern a
profile together, commit a share of their income to it period by period, and own
goals, debts, budgets and investments in common.

Paths below are relative to `src/apps/api/src/modules` unless they start with
`common/`, `prisma/` or `specs/`.

## 1. Inventory

Every command of the API is one method of an application service. It opens one
interactive transaction (`TenancyService.withTenant`), reads rows, asks a pure
domain function for a decision, writes the returned delta, and in the same
transaction writes an outbox row and an audit entry. The isolation level is
PostgreSQL's default, READ COMMITTED, and no read takes a lock: what a command
read may be out of date when it writes. Some rows have a `version` column and are
updated `WHERE version = expectedVersion`; most are updated by id alone. Several
API processes can run; each also runs a poller of the outbox, a worker of the
event queue and a worker of the scheduled jobs.

| Component | State | Operations | Interacts with | What is hard | What makes it right |
|---|---|---|---|---|---|
| Profile governance (`profiles/`) | `SharedProfile` (status, owner pointer), `Membership` rows (status, role, nomination flag, version) | create, invite, accept, decline, leave, change role, nominate, accept ownership, archive; hourly invitation expiry | writes the outbox; its rows are read by every other component | ownership is stored twice and moves in three updates; nominations never expire; the job races the users; reads go stale before writes | one owner, named in both places; ownership moves only to a nominated member; terminal statuses are final; a late invitation lets nobody in |
| Capabilities (`permissions/`) | none (a constant matrix) | `can(role, capability)` | consulted by every handler | - | modelled where it is consulted |
| Event backbone (`events/`) | outbox table, BullMQ queue, claims in Redis | write, poll, add, mark; take, claim, handle, settle; retry | every service writes; consumers: audit, debt reassignment, coaching projection | two systems without a common transaction; crashes, retries, lapsed locks, several processes | at most one effect per handler and event; no row marked before it is queued; each event reaches each handler |
| Scheduling (`scheduling/`) | BullMQ repeatable jobs | invitation expiry (hourly), period rollover (every 15 minutes) | calls profiles and contributions | jobs overlap with commands and, in several processes, with themselves | due things happen |
| Tenancy (`tenancy/`, `prisma/migrations`) | the tenant set on a pooled connection, row-level security | `withTenant` | everything | queries name no tenant; jobs and the poller read without one; the role decides whether the policies count | what is written about a profile belongs to its tenant; outside of `withTenant` nothing is seen |
| Contributions (`contributions/`) | plan versions with allocations, declared incomes, periods, records | set income, set allocation, redistribute, record; ensure/open period, rollover | reads memberships; writes the outbox | a cap that spans profiles; snapshots by reference to a plan version; late jobs; two first records | percentages within 100% over all profiles; periods without gaps; closed totals add up; history is not rewritten |
| Debt responsibilities (`shared-elements/`) | `DebtResponsibility` rows of a debt | default split at creation, override, reassignment on `MemberLeft` | consumer of the event backbone; reads memberships and allocations | the whole set is replaced by DELETE and INSERT; rounding | the set adds up to 100%, departures are shared proportionally |
| Goals, debts, budgets, investments (`shared-elements/`) | amounts and versions | create; fund, pay, spend, revalue | guarded by profile status and role | three versions of one row: the client's, the handler's, the stored one | amounts reflect exactly the accepted requests |
| Personal accounts (`accounts/`) | balances without version | create, contribute to a profile | writes contribution records | a read-modify-write without a version | money is never lost |
| Allocation (`common/money`) | none | largest-remainder split | used by debts and standings | leftover units, ties, all-zero weights | the parts add up |
| Read side (`contributions/interface`, `contributions/domain/analytics`) | none of its own | pool total, standing, current period, plan and record DTOs | reads plans, incomes, periods and records, in a transaction per answer | an answer takes several statements while others commit; coaching has a copy of the code of its own; the pool is read after the commit it answers for | whichever channel answers, its numbers are those of one moment, and of one period |
| Subscriptions (`common/pubsub`, `contributions/interface/contribution-events.ts`) | per subscriber: a queue and the `next()` that waits | publish, subscribe, next, return | the resolvers publish what they read after a commit | publications between a `next()` and its answer; commits overtaking publications | each subscriber gets every value once, in order; the newest total is published |
| Rate limiting (`common/throttling`) | a counter per bucket, principal and window, in Redis | check: INCR, EXPIRE, time limit | guard of every mutation and of coaching | two commands, late or lost; failing open | the calls of a window stay within its limit, and nobody waits for Redis |
| AI coaching (`ai-coaching/`) | none | `coachingInsights` | rate limit, read side, a language model | the model may fail or fall silent at any point | every query is answered |
| GraphQL (`*/interface`, `common/graphql`, `common/errors`) | none | one resolver per mutation: service, read back, answer; cursors; the error catalog | clients repeat what the catalog calls retryable | a failure after the commit cannot be told from one before it; rows move between pages | a guarded mutation is applied once; a scan gets every row once |
| Audit, cache, configuration, mobile, contracts | see section 7 | | | | |

`PROJECT.json` lists the components with their sources and status, the hazards at
their lines, and for each definition of the models the lines it stands for.

## 2. Modules

```
Membership ----> Profiles ----> ProfilesTx ----> ProfilesProofs
     |             \------ implements -------> Ownership (abstract)
     \---------> Contributions ----> ContributionsTx ----> ContributionsProofs
                       \----> LivePool --------------^  <---- Sums
Outbox ----> OutboxProofs         Outbox -- implements --> EventDelivery (abstract)
LargestRemainder ----> DebtResponsibilities ----> DebtResponsibilitiesProofs <---- Sums
Balances ----> BalancesProofs     Tenancy ----> TenancyProofs
RateLimiter ----> Coaching        PubSub -- implements --> Channel (abstract)
Retries, PubSub, Coaching, Paging ----> InterfaceProofs
```

| Module | What it models |
|---|---|
| `Membership` | The pure rules of `profiles/domain/entities/membership.ts` and the capability matrix: decisions about a row, and deltas as functions of the row they are applied to. |
| `Profiles` | One shared profile. One atomic action per use case of `ProfilesService`, the expiry sweep, and the clock reaching a deadline. Rejected commands change nothing and are not actions. |
| `Ownership` | Abstract: one owner, named once; who may nominate, take over, leave, close. `Profiles` implements it. |
| `ProfilesTx` | The same use cases as transactions: each read is a step, the writes take effect at the commit, a worker can be rolled back at any point. |
| `Outbox` | Poller and worker of each process, the queue, the claims, and faults: relay errors, handler errors, failing Redis commands, lapsed locks, crashes. The queue is external and modelled from the options the code passes to it. |
| `EventDelivery` | Abstract: a handler acts on committed events only, at most once each. `Outbox` implements it. |
| `Contributions` | All profiles of a tenant: plan versions, the cap across profiles, incomes, periods, records, the rollover job. Atomic actions. |
| `ContributionsTx` | The commands that decide on what they read, as a read step and a commit. |
| `LargestRemainder` | `allocateByLargestRemainder` and the splits built on it. |
| `DebtResponsibilities` | The rows of one debt under overrides and departures, with the row locks and visibility rules of `DELETE` under READ COMMITTED. |
| `Balances` | Goals, debts, budgets, investments (versioned) and accounts (not versioned), several requests in flight. |
| `RateLimiter` | The counter of one bucket and principal: INCR and EXPIRE as steps of their own, the time limit of a check, errors of Redis and lost answers, the death of the process between the two. |
| `Coaching` | A coaching query behind that limit: the read model, the call, its body, the timer, the fallback. |
| `Paging` | A client that follows cursors while rows are inserted and, where the list has no order, move. |
| `Retries` | Every mutation of the four resolvers, and the query `me`, from the request to the answer: decision, commit, read back, a throw at any point, and a client that repeats what the catalog calls retryable. A transfer of the ownership may be offered again. |
| `Channel` | Abstract: what a subscription promises. |
| `PubSub` | The iterator of `PubSubService`: queue, waiting `next()`, settled promise, `return()`. It implements `Channel`. |
| `LivePool` | The read side on top of `Contributions`, as two machines: the resolvers that read the pool after a commit and publish it (`LiveSpec`), and a query of the pool, a standing or the coaching read model, statement by statement among the commits of others (`ReadingSpec`). The live snapshot of coaching, which reads in another order than the pool's, has actions of its own. |
| `Tenancy` | Several tenants: pooled connections with the setting of a transaction, the policies, the database role, requests of each tenant, and both jobs from discovery to sweep. A transaction is its begin and its work. |
| `MCInterface` | The last eight in one instance: a behaviour runs one of the seven machines, of which the two of `LivePool` share the tables. |
| `MC*` | Instances for TLC. |
| `ProfilesProofs`, `ContributionsProofs`, `OutboxProofs`, `BalancesProofs`, `DebtResponsibilitiesProofs`, `TenancyProofs`, `InterfaceProofs` | The theorems (section 5), each over the modules it extends. |
| `Sums` | What the proofs need to know of the community modules' sums over a finite set. |

Conventions. A database row is a record; a membership is named by its user (the
unique index on profile and user), a plan version by its position. Time is a
number in `Contributions` and the set `overdue` of passed deadlines in `Profiles`.
Amounts are small integers. Definitions marked "Faulty:" are variants of the
definition below them with a plausible bug; no specification uses them, they show
that a property notices the bug.

Abstractions that matter. One tenant, except in `Tenancy`, which keeps of
memberships and periods their status and tenant, and in which every member but the owner is a viewer. In `ProfilesTx` all writes of a transaction
take effect at its commit: row locks are held from the first write to the commit,
deltas write constants, and the `WHERE` clause of a guarded update is evaluated
again on the row as last committed, so others cannot tell the writes apart. In
`ContributionsTx` the reads of one transaction are one step; the races come from
what happens between the reads and the commit. In `Contributions` an expected amount is income times
percentage without division: its rounding is not modelled. Payloads, names,
currencies (same or foreign), limits of budgets and audit texts are left out.
Of a mutation, `Retries` keeps what would
stop its repetition (a version, a state, a unique index, or nothing) and not what
it writes. In `RateLimiter` a tick is the time limit of a check, and the second of
slack in a counter's lifetime is one tick. `LivePool` follows one profile, because
the topics carry its id; a plan and its allocations are one read there, since a version
is not written any more once another is current.
Bounds written into the models (`MaxVersion`, `MaxPlans`, `MaxPeriods`,
`MaxClock`, `MaxAmount`, `MaxIncome`, `MaxCents`, `MaxWrites`, `MaxFaults`, `MaxNow`,
`MaxChanges`, `MaxTries`, `MaxOffers`, `MaxLog`, `MaxCommits`, `MaxOthers`, `MaxOpened`) stand
in guards and are declared as model bounds.

## 3. Runs

| Run | Instance | Result | What it shows |
|---|---|---|---|
| `profiles` | 3 users, versions 0..1, weak fairness of the sweep | holds, 228,316 states | `SingleOwner`, `OwnerIsNoNominee`, `TerminalIsFinal`, `NoLateEntry`, `TransferIsConsented`, `MembershipIsAnnounced`, refinement of `Ownership`, `OverdueInvitationsEnd` |
| `profiles_races` | 2 users, 2 workers, all nine commands | holds, 4.9 M states | What races cannot break: `OwnersWereNominated`, `SweepIsSafe` |
| `profiles_two_owners` | 3 users, 2 workers | violated | `AtMostOneOwner`: two nominees accept at the same time |
| `outbox` | 2 processes, 2 events with 2 and 1 handlers, one fault of each kind but relay errors, which a crash of the poller covers, two attempts | holds, 5.9 M states | `DispatchedWasQueued`, refinement of `EventDelivery` (at most once) |
| `outbox_live` | same, one relay error and two handler errors, three attempts, fairness | holds, 129,013 states | `CompletedWasHandled`, `EveryEventHandled` |
| `outbox_crash` | same, one crash | violated | `EveryEventHandled`: a crash after the claim loses the event for that handler |
| `contributions` | 1 user, 2 profiles, one of them funded, 3 periods, 2 plans, fairness of the rollover | holds, 580,278 states | `CapRespected`, `PeriodsAreAChain`, `ClosedReconciles`, `HistoryIsPreserved`, `DuePeriodsClose` |
| `contributions_races` | 1 member, 2 workers, all four commands, records up to 3 | holds, 1.8 M states | `NoPhantomTotal`, `RecordsAreKept` |
| `cap_race` | 1 user, 2 profiles, 2 workers | violated | `CapRespected`: write skew between two profiles |
| `debts` | 3 memberships, 2 workers, 2 replacements, full share 3 | holds, 2.9 M states | `SumHoldsUntilTwoLeave`, `ReassignmentIsFair` |
| `balances` | 2 rows of any kind, 2 workers, amounts 0..3 | holds, 3.5 M states | `AmountsAreExact`, `AchievedIsFunded`, `NoMoneyIsLost` |
| `interface` | coaching: 2 requests, limit 1, windows of 2 ticks, 4 ticks; cursors: 4 rows, pages up to 2; retries: 2 clients, 2 tries, 6 mutations; feeds: 2 subscribers, 2 topics; live pool: 2 users, 2 requests, 2 plans and periods; queries: the same rows, 4 commits; tenancy: 2 tenants with 1 profile each, 3 users, 1 connection, a role that the policies bind | holds, 851,292 states | `SpendIsBounded`, `CoachingAnswers`, `ScansAreComplete`, `AppliedAtMostOnce`, refinement of `Channel`, `NewestTotalIsPublished`, `AnswersAgree`, `TenantsAreIsolated` |

Why the bounds are enough to be interesting. Three users are an owner, a nominee
and a second nominee or an invitee, which is what ownership transfers and their
reversals need; every action involves at most two memberships. Two workers are
what a race between two transactions needs; no handler reads a row that would tell
three writers from two. Two events and two handlers let a job be half done, and
two processes let a job be taken over. Three periods are a predecessor, an open
one and its successor. Three members of a debt are two who leave and one who
stays; a full share of 3 leaves a unit over when one share is divided among two, which is
what a rounding has to hand out. Two attempts are an error and its retry, and a job that
fails for good. Amounts reach the balance, the target and one unit beyond. In `contributions` only
one of two profiles receives contributions: profiles meet in the cap alone, and records do
not enter it. Two requests to the limiter are one
more than its limit and reach a window from its last moment; two pages of a
scan with insertions before and after the cursor are what a row can be lost or
repeated in; the six mutations are one for each way in which a repetition is met, with
a second transaction and without, the transition among them being the one that can be
opened again. Two publications on a topic are one that
settles a waiting `next()` and one that comes before its caller has it. Two requests in
`LivePool` are one that overtakes another between commit and publication; four commits beside a query are an
income and a record before it, the end of the period and its rollover after. One
connection is what tenants and queries without a tenant hand over to one another; a second one
has a setting of its own.

`CHECK_DEADLOCK FALSE` is set throughout: a profile that is archived, a queue that
is empty or counters at their bounds are states in which nothing has to happen.

Symmetry is used only without liveness: of users, workers, processes or rows, none
of which the specifications tell apart. `DebtResponsibilities` breaks ties by the
order of memberships and is symmetric in workers alone.

### Disagreements with the documents

The three violated runs are the disagreements we consider most important:

* `profiles_two_owners`: `acceptOwnership` (`profiles/application/profiles.service.ts:239`)
  reads the owner without a lock. The domain function promises "exactly one OWNER
  before and after" (`membership.ts:134`).
* `outbox_crash`: the key is set before the handler runs
  (`events/registry/domain-events.worker.ts:48`). Its comment says "only written on
  success" (`:13-14`), `specs/001-shared-financial-profiles/research.md:53` says no
  event is lost.
* `cap_race`: `setAllocation` (`contributions/application/contributions.service.ts:83`)
  sums before it writes. FR-015a (`spec.md:314`) caps the total at 100%.

### Further counterexample configurations

These are run by hand (`tlc -config X.cfg M`). Each but `MCProfilesTxSerial` finds a statement of the
documents that the code does not keep violated; of a configuration with several properties, run one at a time.
What a race breaks is marked with * where a theorem says which commands must take turns
for it to hold after all (section 5).

| Configuration, module | Property | What happens |
|---|---|---|
| `MCProfilesClaims`, `MCProfiles` | `ArchivedIsReadOnly` | "Guard used by every mutating use case" (`shared-profile.ts:28`), but accept, decline, leave, nominate and accept-ownership do not use it: violated. |
| same | `OwnerChoosesSuccessor` | A member nominated by a former owner takes over from the present one (FR-007b, `spec.md:277`): violated. |
| `MCProfilesExpiryRls`, `MCProfiles` | `OverdueInvitationsEnd` | With a role row-level security applies to, the job's first query sees no tenant: violated. |
| `MCProfilesTxSerial`, `MCProfilesTx` | `ImplementsProfiles` | With a single worker the transactions implement `Profiles`: holds, and is proved of any number of them that take turns. |
| `MCProfilesTxClaims`, `MCProfilesTx` | `SomeOwner` * | A nominee leaves and accepts the ownership at the same time: the profile has no ACTIVE owner. |
| same | `TerminalIsFinal` | An acceptance decided before a decline, or the sweep, overwrites the terminal status. |
| same | `ArchivedAlone` * | An invitation is accepted between the count and the archival. |
| same | `OwnerRoleMovesByTransfer` * | A role change decided before a transfer demotes the new owner: transfers do not bump the version. |
| `MCOutboxForgets`, `MCOutbox` | `CompletedWasHandled` | A worker loses its lock, a second one passes its claim over and completes the job, then the first fails: nobody retries. |
| `MCOutboxRls`, `MCOutbox` | `EveryEventHandled` | The poller reads without a tenant and sees no row. |
| `MCContributionsClaims`, `MCContributions` | `SnapshotIsImmutable` | "Never a period already snapshotted" (`contributions.service.ts:4-5`): `setAllocation` edits the version the open period refers to. |
| same | `ArchivedIsFrozen` | `setAllocation` does not look at the profile (FR-007c). |
| `MCContributionsTxClaims`, `MCContributionsTx` | `PeriodsAreAChain` * | Two first records open two periods. |
| same | `ClosedReconciles` * | A record lands in a period after its total was summed. |
| same | `SupersededPlansAreFrozen` * | An allocation is written into a version that was superseded after it was read. |
| `MCDebtResponsibilitiesClaims`, `MCDebtResponsibilities` | `SharesSumTo100` * | Two departures handled at the same time: the second DELETE does not see what the first inserted, and both sets stay. |
| same | `NoLostOverride` * | The consumer overwrites an override committed after its read. |
| same | `LeaversHoldNothing` | An override names somebody who has left. |
| same | `DebtIsHeld` | The only holder leaves and the set becomes empty. |
| `MCBalancesClaims`, `MCBalances` | `DebitsMatchRecords` * | Two contributions from one account: one debit is lost. |
| same | `FrozenOnceArchived` | A payment decided before the archival commits after it. |
| `MCInterfaceClaims`, `MCInterface` | `CountersExpire` | "Bound the key's lifetime" (`rate-limiter.service.ts:64`): the process dies between INCR and EXPIRE, or EXPIRE fails. |
| same | `MembersKeepTheirPlace` | "Stable input order" (`common/graphql/pagination.ts:47`), but `listByProfile` has no order (`membership.repository.ts:62`): a member whose row was updated between two pages is skipped or repeated. |
| same | `ConflictMayPass` | CONFLICT is `retryable`, "whether an identical retry can succeed" (`common/errors/catalog.ts:32,49`): versions only grow, so that it cannot. |
| same | `AppliedAtMostOnce` | The action of the catalog instead, "retry with the fresh version" (`:51`, `Refetches`): after a commit that was answered INTERNAL_SERVER_ERROR the retry meets CONFLICT, and with the fresh version the goal is funded twice. |
| same | `RetriesAreSafe` | "Retry with backoff" (`:136`): a contribution that was committed before the failure is recorded again. |
| same | `NobodyWaitsForClosed` | `return()` leaves the `next()` that waits pending for ever (`pubsub.service.ts:57`). |
| same | `SubscribersConverge` | Of two mutations that overlap the older total is published last. |
| same | `LiveAnswersAgree` | "GraphQL, exports, and AI coaching agree exactly" (`contributions.read.ts:3`): without an open period the percentages and the incomes are two statements, and what is committed between them makes a total that was never in force. |
| same | `PoolTotalIsSumOfRecords` | "`poolTotal` equals Σ records exactly" (`specs/001-shared-financial-profiles/quickstart.md:52`), but `poolTotal` is the sum of the expected ones (`contributions.read.ts:120`). |
| same | `CoachingSeesAllRecords` | A member who joined after the period opened has records but no place in its snapshot: coaching and standings leave them out. |
| same | `SweepsStayInTheirTenant` | "Tenant-scoped auto-rollover sweep" (`contributions/application/period.service.ts:92`), "RLS-safe per-tenant sweep" (`invitation-expiry.job.ts:62`): their queries name no tenant. Under a role that bypasses the policies the sweep of one tenant closes the periods of all, and their successors and events carry its tenant. |
| same | `ReferencesStayInTheTenant` | "Cross-tenant references forbidden (RLS)" (`specs/001-shared-financial-profiles/data-model.md:32`): `inviteMember` does not look the user up, and foreign keys are checked past the policies. Violated under either role. |

Row-level security: `prisma/migrations/20260605000002_rls/migration.sql:5,8` forces
it and the documents ask for a role it applies to, while the superuser of
`docker-compose.yml` bypasses it. The constants `JobBypassesRls` and
`DispatcherBypassesRls` say which; the runs take `TRUE`, the setting in which
the background work does anything at all. `Tenancy` has the other side: under a role
that the policies bind (`RoleBypassesRls = FALSE`, the run `interface`) tenants are isolated and the jobs
find nothing, under one that bypasses them (`MCInterfaceClaims`) the jobs work and mix the tenants.

## 4. Fairness

Users owe nothing: no action of a command is fair. Fair are only the things the
code schedules itself: the invitation sweep (a repeatable BullMQ job, hourly), the
rollover (every 15 minutes), the poller of each process (`setInterval`), its
worker (BullMQ fetches when it is idle), and BullMQ's own check for stalled jobs.
Weak fairness suffices for each because what enables it persists: an overdue
invitation stays due until it is ended, a due period until it is closed, an
undispatched row until it is marked. Errors, lapsed locks and crashes are
bounded in number, and never fair; `outbox_live` bounds the handler errors below the
attempts a job gets, since a job that fails every attempt is kept for an
operator and is not handled (the code gives five attempts; the instance gives
three and two errors). `CoachingAnswers` asks that timers fire and that the database
answers; Redis and the language model owe nothing, and none of their actions is fair.

## 5. Proofs

TLC checks the instances of section 3; the theorems below hold for every value of the
constants that the named assumption of each module admits: any users, profiles,
processes, events, tenants, connections, workers, any bounds, and both database roles.
The assumptions only say that bounds are naturals, that sets which TLC enumerates are
what they are meant to be, and in `Contributions` and `DebtResponsibilities` that
there are finitely many users and profiles, without which a sum means nothing.
`TypeCorrect` of each module is the type invariant.

Every safety proof has the same shape. An inductive invariant (`IInv`, `PastInv`, `CapInv`,
`TxIInv`, `LiveInv`, `RetriesInv`, `FeedInv`, `SpendInv`, `PagesInv`; `SerialInv`, `TurnsInv`, `VersionsInv`,
`SharesInv`, `ExactInv`, `TurnInv` of commands that take turns) says besides the
property what else has to hold for the next step to keep it; there is one lemma per action, one for the initial states, and the
theorem follows. An action property is proved of a step from a state in which the
invariant holds. What follows says what each invariant adds and why.

### Profile governance (`ProfilesProofs`)

* `SingleOwner` (the ACTIVE OWNER rows are exactly the row the profile points to) is not
  inductive: accepting an invitation could activate a second OWNER row, and accepting
  the ownership could demote the owner it has just made if an owner carried a
  nomination, since the outgoing delta is written second. `IInv` adds that an OWNER row
  is ACTIVE (nobody is invited as OWNER, no owner leaves), that an owner is no nominee,
  and that before its foundation a profile has neither rows nor owner. `SingleOwnerHolds`
  and `OwnerIsNoNomineeHolds` follow.
* `Refinement`: `Spec => ImplementsOwnership`. Under `IInv`, each action maps to an
  action of `Ownership` or to a stutter: a role change, a passing deadline and a
  repeated nomination are invisible; the test "the caller is an ACTIVE OWNER" of the
  code becomes "the caller is the owner".
* `OwnersWereNominatedHolds`, of the transactions of `ProfilesTx`, however they overlap:
  whoever took the ownership over was nominated, in the audit trail; the one OWNER row
  without a nomination is that of who created the profile (`founder`, a history of the
  model), and then the pointer still names it and no other row is OWNER. It is not
  inductive because an acceptance in flight may promote whom it has read and demote nobody.
  `FounderInv` is what closes it: as long as the pointer names somebody who was never
  nominated, that is the founder, whose row is the only OWNER row and whom every acceptance
  in flight has read as the outgoing owner; so the first transfer to commit demotes the founder.
  `InFlightInv` says that who accepts was nominated when it was read.
* `TerminalIsFinalHolds`, `NoLateEntryHolds`, `TransferIsConsentedHolds`, `MembershipIsAnnouncedHolds`:
  what no step may do. They follow from one lemma per action, from a
  state that satisfies `PastInv`. It adds to `IInv` what the present owes to the past: a
  nomination flag was put up by a nomination that was announced; what was announced last
  is still so, without which the same announcement twice could hide the second
  departure; an overdue invitation has a row, so that founding a profile lets nobody in late.
* `SweepIsSafeHolds`: a sweep that overlaps with acceptances ends only what is still
  invited, and announces exactly that.

### Event backbone (`OutboxProofs`)

* `DispatchedWasQueuedHolds`: the invariant adds that the head of a batch has a job once it
  was added, and that jobs and batches are of events that were written.
* `Refinement`: `Spec => ImplementsDelivery`, at most one effect per handler and event
  through errors of the relay, the handlers and Redis, lapsed locks and crashes. The invariant says
  that an effect has a claim, and that a worker which is about to act holds the claim
  alone: a lapsed lock gives the job to another worker, but not the claim.
* `CompletedWasHandledUntilFault`: a completed job reached all its handlers as long as no
  lock has lapsed, no process has crashed and no command of a worker to Redis has failed; the invariant says how far a worker has
  come. Afterwards it is false (`MCOutboxForgets`), which is why the theorem says until.

### Contributions (`ContributionsProofs`)

* Of the atomic commands: `PeriodsAreAChainHolds` and `ClosedReconcilesHolds`. The invariant
  `isSound` adds that of a profile which is not archived the last period is open. Without it a first
  record, which opens a period from today, could leave a gap or an overlap.
  `HistoryIsPreservedHolds` is the action property, from the same invariant.
* `CapRespectedHolds`: a sum over the profiles of a user. The guard compares the
  percentage with what the others add up to; a step changes one summand, and
  `StrangersInv` (who never was a member has no percentage) lets a join change none.
* Of the commands that overlap (`ContributionsTx`): `NoPhantomTotalHolds` and
  `RecordsAreKeptHolds`. `TxIInv` says of each command in flight that what it has read
  still fits: the period it names exists and has the income and version it had, the
  total a rollover has read is at most the total of the period now. Periods, records
  and versions are only added to, and so it stays.
* Of the read side (`LivePool`): `NewestTotalIsPublishedHolds` and `AnswersAgreeHolds`. What
  happens to the rows is in both a step of `Contributions`. For the first `LastInv` says that
  the request of the last mutation has read the pool as it still is. A total
  read with an open period stays right because whatever changes the pool is a mutation
  of its own, with a newer request. Where the pool takes two reads, the plan that was read
  first is in force at the second, since there is still no open period: the job opens
  one only for a profile that has one (`RolloverOpensNone`). For the second, `ReadingInv`
  says of a query under way that the period it has found is still in the list, open or
  closed, with at least the records it had (`answerOf` bounds what was read of them);
  and that as long as all the snapshots in force since then are one, what the first of
  two statements has read is what that one is made of (`halfOf` a snapshot), for the pool,
  which reads the plan first, and for coaching, which reads the members first. Without an open period
  that is all there is: `LiveAnswersAgree` fails.

The sums come from the community modules, which define them by recursion over subsets.
The library's induction rules take an operator as a parameter and cannot be used here;
`Sums` argues in sets instead: of the subsets of a finite set for which a law fails
there is a smallest one (`SmallestSubset`), and that one gives the contradiction. With it
the recursive function is shown to exist, and a sum to be a number (`SumType`), to
unfold at any element (`SumRemove`), and to be monotone in the set and in the function
(`SumOfSubset`, `SumMonotone`).

### Balances (`BalancesProofs`)

`AmountsAreExactHolds`, `AchievedIsFundedHolds`, `NoMoneyIsLostHolds`. A request computes an
amount from a row and writes it later. `RequestInv` says what its number is still worth
then: of a versioned row it is what the present row would give as long as the version is
the expected one (`isFresh`); of an account, which has no version, it errs in the
member's favour only (`isInFavour`). A stale request stays stale since versions grow.

### Debt responsibilities (`DebtResponsibilitiesProofs`)

* What the largest-remainder method returns, for any total and weights (`AllocationIsExact`):
  the floors and the remainders are the exact shares, the remainders add up to the
  divisor times the units left over, there are at most as many units as members
  with a remainder, and of a finite ranking without ties the k first are k
  (`FirstsAreMany`). Hence the parts add up, and each is within one unit of its
  exact share. `ReassignmentIsFairHolds` follows.
* `SumHoldsUntilTwoLeaveHolds`, of every interleaving of overrides with the handling of one
  departure. It is not inductive: a commit keeps rows that its DELETE has not seen, and inserts
  a set that was computed earlier. `WholeInv` says, as long as at most one member has left, why
  nothing is kept. An override that can still commit names everybody who holds a share, so that
  any row it has missed collides in the unique index. A reassignment names only
  members who hold one, and what its DELETE has seen is either the set as it is or has been
  replaced as a whole; then it collides too, unless it inserts nothing. A second departure breaks
  it (`MCDebtResponsibilitiesClaims`). That a DELETE waits for the locks of others
  (`behind`) is not used: the index alone keeps the set whole.

### Tenancy (`TenancyProofs`)

`TenantsAreIsolatedHolds`, under a role that the policies bind. It needs that an idle
connection carries no setting (`Pooled`), for a setting left behind would let a job discover
another tenant's rows, and that every stored row has a tenant at all.

### Edge (`InterfaceProofs`)

* `AppliedAtMostOnceHolds`, for clients that do not fetch the version again after a
  conflict (`~Refetches`; of those who do it is false, `MCInterfaceClaims`). What stops
  a repetition differs from mutation to mutation, and `GuardInv` has one clause for each:
  a used version is behind the row for ever; a transition that was committed shows in
  the row, unless it has been opened again since, and then the offers count the commits; a created row is in the unique index.
* `Refinement`: `PubSubSpec => ImplementsChannel`. What next() returned, the settled
  promise and the queue, read in this order, are a piece of the topic's log without a gap
  (`OwedInv`).
* `SpendIsBoundedHolds`: the calls to the language model that were admitted in a window stay
  within the limit. Behind it is that no two requests of a window which were counted and
  have their answer got the same number. A key may expire and start again at 1, which
  would give a number twice; it outlives its window by a tick (`LifetimeInv`), and who
  waits longer than that has been let through by the time limit and is not
  among the counted ones. What is bounded are the counted admissions: who fails open is not limited.
* `ScansAreCompleteHolds`: a client that follows the cursors to the end has every row that
  was there when it began, once, if no row moves. `ScanInv` says that what stands up to the
  cursor was seen, in this order, unless it is new. A list without an order, whose rows an
  update may move, is excused from the first move on.

### Commands that take turns

The theorems about `ProfilesTx`, `ContributionsTx`, `Balances`, `Outbox`,
`DebtResponsibilities` and the edge hold of every interleaving. Those about
`Profiles` and the atomic `Contributions` are about commands that do not overlap, and the
races break much of what they state (section 3). The theorems named `...InTurns`
say which commands would have to be kept apart, by a lock from the first read to the
commit, for it to hold of the transactions. Each has the form `Spec /\ []Turns => Property`,
where `Turns` only says of the commands in flight which of them may not be so together.
The code takes no such lock: `Turns` is a hypothesis, not a fact about it, and the
counterexamples of section 3 show that none of it can simply be left out.

| Theorem | What takes turns | What still interleaves |
|---|---|---|
| `ImplementsProfilesInTurns`, `SingleOwnerInTurns`, `OwnersInTurns`, `ArchivedAloneInTurns`, `OwnerRoleInTurns` (`ProfilesTx`) | `OneAtATime`: all commands of a profile, and the sweep | the clock: deadlines pass during a transaction |
| `PeriodsAreAChainInTurns`, `ClosedReconcilesInTurns` (`ContributionsTx`) | `PeriodCommandsTakeTurns`: records and rollovers of the same profile | plan commands, joining and leaving, archival, the clock, other profiles |
| `SupersededPlansAreFrozenInTurns` | `RedistributionsTakeTurns`: a `setAllocation` with a `redistribute` of the same profile | everything else, also several `setAllocation` and several `redistribute` |
| `CapRespectedInTurns` | `ShareCommandsTakeTurns`: plan commands about the same user, in whatever profile | everything else, also plan commands about different users of one profile |
| `DebitsMatchInTurns` (`Balances`) | `AccountsTakeTurns`: requests on the same account | requests on versioned rows and on other accounts |
| `SharesSumInTurns`, `NoLostOverrideInTurns` (`DebtResponsibilities`) | `ReassignmentsTakeTurns`: the handling of a departure with any other replacement | overrides with one another, which their version keeps apart; departures themselves |

* `ProfilesTx`: under `SerialInv` whatever a transaction in flight has found is still so
  (`stillStands`), except that the clock may pass a deadline that an acceptance has read.
  A commit is then the step of `Profiles` with the same command, and reads are stutters.
  The write of an acceptance does not check the deadline again, so that the
  refinement mapping counts the deadline of an acceptance in flight as not passed; where it
  passes meanwhile and the transaction is rolled back, the rollback is the step at
  which `Profiles` sees it pass. What `Profiles` keeps, the transactions keep. `ArchivedAlone` and `OwnerRoleMovesByTransfer`
  are about the commit itself and follow from `SerialInv`.
* `ContributionsTx`: `TurnsInv` says that the period which a command has read is still the
  open one, and that a rollover's total is still the sum of its records (`stands`);
  `VersionsInv`, that the version a `setAllocation` has read is still the current one;
  `SharesInv`, that the percentage a command is about to write still fits the cap
  with the others as they are (`fits`). The three locks are different ones. That of the cap
  is on the user: a lock on the profile would leave `cap_race` as it is.
* `Balances`: what a request on an account has computed is what the account holds, less what
  it moves (`ExactInv`).
* `DebtResponsibilities`: a reassignment in flight is the one of the stored set, and
  an override that will not be refused names whoever holds a share (`TurnInv`). How many
  have left no longer matters.

### Only model-checked

* Liveness: `EveryEventHandled`, `DuePeriodsClose`, `CoachingAnswers`, `OverdueInvitationsEnd`. They
  need fairness and ENABLED, which the prover does not handle.
* `InterfaceTypeOK`, the conjunction of seven type invariants each of which is proved, of
  its own machine; of `MCInterface` itself, which puts the machines side by side for
  TLC, there are no theorems.

## 6. Hazards

`PROJECT.json` lists them, each with the line where it bites and the properties
that would notice. Hazards without a property of a passing or violated run name the configuration
of section 3 that shows them, or the plan below.

## 7. Not modelled

* GraphQL scalars, mappers and DTOs: presentation. Variance and state of a standing,
  the rounding of expected amounts, and `Money`: functions of two numbers.
* Cache: nothing in the repository fills or reads it yet, it is only invalidated;
  that the invalidation may fail after a commit is part of `LivePool` and `Retries`.
* Subscriptions: the WebSocket transport, which the repository leaves to deployment.
  `contributeFromAccount` records a contribution without publishing anything, so that
  it has no part in `LivePool`.
* Coaching: prompts, redaction and the wording of the rule-based insight.
* Personal profiles: what they show; their creation is the query `me` of `Retries`.
* Audit: its entries are append-only and nothing reads them back, except that the
  nominations they record are a variable of `Profiles`.
* A handler of the event backbone that commits and is told otherwise, because the
  acknowledgement of its commit is lost: its claim is given back and it acts twice. The theorem
  about at most once (`Refinement` of `OutboxProofs`) is about handlers that know what they did.
* Clocks: the API instances that share a counter of the rate limiter have one clock in
  `RateLimiter`. Instances that disagree about the window count in two keys at once.
* Mobile application, contracts package, tooling: no server state.
* Integer widths: amounts are 64-bit cents and are not modelled to overflow.

## 8. Plan

Done: sections 2 to 5. Next, in this order:

1. Joining `Outbox` and `DebtResponsibilities`: how often a departure can be
   delivered to the consumer, and what that does to the set.
2. Joining the proof modules of the edge, so that the theorems about the seven machines are
   also theorems about `MCInterface`.
