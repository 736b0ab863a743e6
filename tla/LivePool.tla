------------------------------- MODULE LivePool -------------------------------
(***************************************************************************)
(* The read side of contributions, statement by statement: the statements  *)
(* of a transaction see each what is committed when they start, while      *)
(* others commit.  Two machines share the tables and nothing else.         *)
(*                                                                         *)
(* A mutation goes live: a second transaction reads the pool, for a record *)
(* a third one the member's standing, and only then are the values         *)
(* published to the subscribers of the profile.  The triggers carry the    *)
(* profile, so one is modelled.  Here the pool's topic is, as a log:       *)
(* PubSub says who gets it.  To the pool the third transaction is a delay  *)
(* or a failure before the publication, which may come anyway; what it     *)
(* reads is the standing of the second machine.                            *)
(*                                                                         *)
(* A query is asked of one of three channels: the pool's total, the        *)
(* standing of a member, or the read model of coaching, which has a way of *)
(* its own to put the numbers together.                                    *)
(*                                                                         *)
(* A plan and its allocations are read in one step: a version is written   *)
(* no more once another is current, so that the two statements answer as   *)
(* one would have, at a moment between them.                               *)
(***************************************************************************)
EXTENDS Contributions

CONSTANTS
  Resolvers,    \* mutations in progress
  Founders,     \* who is a member from the start
  MaxCommits,   \* model bounds: mutations that go live,
  MaxOthers     \* and commits of any kind, where a query is in progress

ASSUME LivePoolAssumption ==
  /\ Founders \subseteq Users
  /\ Profiles # {} /\ Funded = Profiles
  /\ {MaxCommits, MaxOthers} \subseteq Nat

VARIABLES
  published,  \* the totals that were published on the pool's topic
  request,    \* what each resolver is at
  commits,    \* how many commits there were, of those that are bounded
  mark,       \* history: the length of the topic when the last of them was
  lastBy,     \* history: its resolver, if it may still publish what it did
  reading     \* what the query in progress is at

liveVars == <<vars, published, request, commits, mark, lastBy>>

readingVars == <<vars, commits, reading>>

profile == CHOOSE p \in Profiles : TRUE

\* period: the index of the open period that was found, or 0; plan: the allocations
\* that were read.
NoRequest == [at |-> "idle", period |-> 0, plan |-> <<>>, pool |-> 0]

\* what is asked, and of whom; first: what the first of two reads returned;
\* snapshot and actual: what the answer is made of.  Two histories: what was
\* recorded in the period when it was found, and every snapshot that was in force
\* from then on until the answer's was read.
NoReading ==
  [what |-> "none", of |-> "none", at |-> "idle", period |-> 0, first |-> <<>>,
   snapshot |-> <<>>, actual |-> <<>>, recorded |-> <<>>, moments |-> {}]

LiveTypeOK ==
  /\ TypeOK
  /\ published \in Seq(Nat)
  /\ \A w \in Resolvers :
       /\ request[w].at \in {"idle", "committed", "found", "planned", "totalled"}
       /\ request[w].at = "idle" => request[w] = NoRequest
  /\ mark <= Len(published)

ReadingTypeOK ==
  /\ TypeOK
  /\ reading.at \in {"idle", "asked", "found", "half", "snapshot"}
  /\ reading.at = "idle" => reading = NoReading
  /\ \A u \in DOMAIN reading.actual : reading.actual[u] \in Nat

TablesInit ==
  /\ role = [p \in Profiles |-> [u \in Users |-> IF u \in Founders THEN "ADMIN" ELSE "NONE"]]
  /\ archived = {}
  /\ income = [p \in Profiles |-> [u \in Users |-> 0]]
  /\ plans = [p \in Profiles |-> <<>>]
  /\ periods = [p \in Profiles |-> <<>>]
  /\ clock = 0
  /\ commits = 0

LiveInit ==
  /\ TablesInit
  /\ published = <<>>
  /\ request = [w \in Resolvers |-> NoRequest]
  /\ mark = 0 /\ lastBy = "none"

ReadingInit == TablesInit /\ reading = NoReading

-----------------------------------------------------------------------------
(* The numbers that are read: members are a map to income and percentage. *)

openPeriods == latestOpen(periods[profile])

\* The statement that looks for the open period: its index, or 0.
foundPeriod == IF openPeriods = {} THEN 0 ELSE CHOOSE i \in openPeriods : TRUE

percentageIn(plan, u) == IF u \in DOMAIN plan THEN plan[u] ELSE 0

snapshotMembers(period) ==
  [u \in DOMAIN period.income |->
     [income |-> period.income[u], bp |-> allocationIn(profile, period.planVersion, u)]]

currentPlan ==
  IF plans[profile] = <<>> THEN <<>> ELSE plans[profile][currentVersion(profile)]

activeMembers == {u \in Users : isMember(profile, u)}

liveMembers(plan) ==
  [u \in activeMembers |-> [income |-> income[profile][u], bp |-> percentageIn(plan, u)]]

expectedFor(member) == member.income * member.bp

poolExpectedTotal(members) == SumFunction([u \in DOMAIN members |-> expectedFor(members[u])])

\* The snapshot of a period, or what a period would be opened with.
snapshotOf(i) ==
  IF i = 0 THEN liveMembers(currentPlan) ELSE snapshotMembers(periods[profile][i])

poolTotal == poolExpectedTotal(snapshotOf(foundPeriod))

-----------------------------------------------------------------------------
(* The mutations commit. *)

\* They are alike: a request gets the first that is free.
freeResolvers == {w \in Resolvers : request[w].at = "idle"}

goesLive ==
  /\ freeResolvers # {} /\ commits < MaxCommits
  /\ LET w == CHOOSE w \in freeResolvers : TRUE
     IN  request' = [request EXCEPT ![w].at = "committed"] /\ lastBy' = w
  /\ commits' = commits + 1 /\ mark' = Len(published)
  /\ UNCHANGED published

\* The mutations that go live.
Mutation(u) ==
  \/ \E amount \in 1..MaxAmount : RecordContribution(profile, u, amount)
  \/ \E bp \in 0..FullAllocationBp : SetAllocation(profile, u, bp)
  \/ \E allocations \in Allocations : Redistribute(profile, u, allocations)

Announced == goesLive /\ \E u \in Users : Mutation(u)

\* A declared income, members and the rollover publish nothing.
SomethingUnannounced ==
  \/ \E u \in Users :
       \/ \E amount \in 0..MaxIncome : SetDeclaredIncome(profile, u, amount)
       \/ \E r \in Roles : Join(profile, u, r)
       \/ Leave(profile, u)
  \/ Rollover
  \/ Tick

Unannounced ==
  /\ SomethingUnannounced
  /\ lastBy' = IF lastBy # "none" /\ poolTotal' = poolTotal THEN lastBy ELSE "none"
  /\ UNCHANGED <<published, request, commits, mark>>

-----------------------------------------------------------------------------
(* What the resolver does then. *)

advance(w, changed) ==
  /\ request' = [request EXCEPT ![w] = changed]
  /\ UNCHANGED <<vars, published, commits, mark, lastBy>>

\* poolTotalByProfileId: first the open period.
ReadPeriod(w) ==
  /\ request[w].at = "committed"
  /\ advance(w, [request[w] EXCEPT !.at = "found", !.period = foundPeriod])

\* Faulty: without an open period, what was set is not in force yet.
ReadPlanOfPeriod(w) ==
  /\ request[w].at = "found"
  /\ advance(w, [request[w] EXCEPT !.at = "totalled",
                   !.pool = IF request[w].period = 0 THEN 0
                            ELSE poolExpectedTotal(snapshotOf(request[w].period))])

\* Then the allocations of its plan version, which with the incomes it was opened
\* with are the answer, or those of the current plan.
ReadPlan(w) ==
  /\ request[w].at = "found"
  /\ advance(w, IF request[w].period = 0
                THEN [request[w] EXCEPT !.at = "planned", !.plan = currentPlan]
                ELSE [request[w] EXCEPT !.at = "totalled",
                        !.pool = poolExpectedTotal(snapshotOf(request[w].period))])

ReadMembers(w) ==
  /\ request[w].at = "planned"
  /\ advance(w, [request[w] EXCEPT !.at = "totalled", !.plan = <<>>,
                   !.pool = poolExpectedTotal(liveMembers(request[w].plan))])

\* The caches are purged, and the values go out.
Publish(w) ==
  /\ request[w].at = "totalled"
  /\ published' = Append(published, request[w].pool)
  /\ request' = [request EXCEPT ![w] = NoRequest]
  /\ UNCHANGED <<vars, commits, mark, lastBy>>

\* A read or the cache fails, or the process dies: nothing is published.
FailAfterCommit(w) ==
  /\ request[w].at # "idle"
  /\ request' = [request EXCEPT ![w] = NoRequest]
  /\ lastBy' = IF lastBy = w THEN "none" ELSE lastBy
  /\ UNCHANGED <<vars, published, commits, mark>>

LiveNext ==
  \/ Announced \/ Unannounced
  \/ \E w \in Resolvers :
       ReadPeriod(w) \/ ReadPlan(w) \/ ReadMembers(w) \/ Publish(w) \/ FailAfterCommit(w)

LiveSpec == LiveInit /\ [][LiveNext]_liveVars

-----------------------------------------------------------------------------
(* Queries.  Queries do not meet, so one at a time is enough. *)

\* While its snapshot is not read, every one in force is remembered.
observed ==
  IF reading.at \in {"found", "half"}
  THEN \E i \in {reading.period} :
         reading' = [reading EXCEPT !.moments = @ \cup {snapshotOf(i)'}]
  ELSE UNCHANGED reading

OtherCommit ==
  /\ commits < MaxOthers
  /\ (\E u \in Users : Mutation(u)) \/ SomethingUnannounced \/ Archive(profile)
  /\ commits' = commits + 1
  /\ observed

proceed(changed) == reading' = changed /\ UNCHANGED <<vars, commits>>

\* poolTotal, standing and readModel; of: the member whose standing is asked.
AskFor(what, of) ==
  /\ reading.at = "idle"
  /\ proceed([NoReading EXCEPT !.what = what, !.of = of, !.at = "asked"])

\* Without an open period there is no standing.
FindPeriod ==
  /\ reading.at = "asked"
  /\ proceed(IF foundPeriod = 0 /\ reading.what = "standing" THEN NoReading
             ELSE [reading EXCEPT !.at = "found", !.period = foundPeriod,
                     !.recorded = IF foundPeriod = 0 THEN <<>>
                                  ELSE periods[profile][foundPeriod].actual,
                     !.moments = {snapshotOf(foundPeriod)}])

withSnapshot(members) == [reading EXCEPT !.at = "snapshot", !.first = <<>>, !.snapshot = members]

ReadSnapshot ==
  /\ reading.at = "found" /\ reading.period # 0
  /\ proceed(withSnapshot(snapshotMembers(periods[profile][reading.period])))

\* snapshotFor reads the plan, then the members.
ReadPlanFirst ==
  /\ reading.at = "found" /\ reading.period = 0 /\ reading.what = "pool"
  /\ proceed([reading EXCEPT !.at = "half", !.first = currentPlan])

ReadMembersLast ==
  /\ reading.at = "half" /\ reading.what = "pool"
  /\ proceed(withSnapshot(liveMembers(reading.first)))

\* Faulty: coaching's copy takes who has left for a member.
ReadMembersFirstOfAll ==
  /\ reading.at = "found" /\ reading.period = 0 /\ reading.what = "coaching"
  /\ LET members == {u \in Users : role[profile][u] # "NONE"}
     IN  proceed([reading EXCEPT !.at = "half",
                                 !.first = [u \in members |-> income[profile][u]]])

\* liveSnapshot reads the members, then the plan.
ReadMembersFirst ==
  /\ reading.at = "found" /\ reading.period = 0 /\ reading.what = "coaching"
  /\ proceed([reading EXCEPT !.at = "half", !.first = [u \in activeMembers |-> income[profile][u]]])

ReadPlanLast ==
  /\ reading.at = "half" /\ reading.what = "coaching"
  /\ proceed(withSnapshot([u \in DOMAIN reading.first |->
                             [income |-> reading.first[u], bp |-> percentageIn(currentPlan, u)]]))

\* Whose records are summed up, member by member: without a period nobody's.
summed ==
  IF reading.period = 0 \/ reading.what = "pool" THEN {}
  ELSE {u \in DOMAIN reading.snapshot : reading.what = "standing" => u = reading.of}

ReadActual(u) ==
  /\ reading.at = "snapshot" /\ u \in summed \ DOMAIN reading.actual
  /\ proceed([reading EXCEPT !.actual =
       [v \in DOMAIN @ \cup {u} |-> IF v = u THEN periods[profile][reading.period].actual[u]
                                    ELSE @[v]]])

isAnswered == reading.at = "snapshot" /\ summed \subseteq DOMAIN reading.actual

\* It is answered, or its transaction fails.
EndReading == reading.at # "idle" /\ proceed(NoReading)

ReadingNext ==
  \/ OtherCommit
  \/ AskFor("pool", "none") \/ AskFor("coaching", "none") \/ \E u \in Users : AskFor("standing", u)
  \/ FindPeriod \/ ReadSnapshot
  \/ ReadPlanFirst \/ ReadMembersLast \/ ReadMembersFirst \/ ReadPlanLast
  \/ \E u \in Users : ReadActual(u)
  \/ EndReading

ReadingSpec == ReadingInit /\ [][ReadingNext]_readingVars

-----------------------------------------------------------------------------
(* Properties. *)

isQuiet == \A w \in Resolvers : request[w].at = "idle"

\* contribution-events.ts: the subscriptions "receive the new values".  When the
\* requests are over, the pool as it is has been published since the last commit
\* that changed it, if that was a mutation which went through: also when others
\* committed between its commit, its reads and its publication.
NewestTotalIsPublished ==
  isQuiet /\ lastBy # "none" =>
    \E i \in (mark + 1)..Len(published) : published[i] = poolTotal

\* "GraphQL, exports, and AI coaching agree exactly" (contributions.read.ts:3).
\* Whichever channel answers, and whatever is committed between its statements:
\* its expected amounts are those of one moment since it found the period, if
\* there was a period or if nothing changed, and its actual amounts hold every
\* record from before that moment and none that is not the period's, also when
\* the period is closed meanwhile.
AnswersAgree ==
  isAnswered =>
    /\ \/ reading.snapshot \in reading.moments
       \/ reading.period = 0 /\ \A m \in reading.moments : reading.moments # {m}
    /\ \A u \in DOMAIN reading.actual :
         /\ reading.recorded[u] <= reading.actual[u]
         /\ reading.actual[u] <= periods[profile][reading.period].actual[u]

\* The same without an open period, of an answer that two statements gave: a
\* percentage and an income that were never in force together may make a total.
LiveAnswersAgree == isAnswered => reading.snapshot \in reading.moments

\* The same as NewestTotalIsPublished, of the last value published: of two
\* requests that overlap the older total may come last.
SubscribersConverge ==
  isQuiet /\ lastBy # "none" => published[Len(published)] = poolTotal

\* quickstart.md:52: the pool total is the sum of the records.
PoolTotalIsSumOfRecords ==
  openPeriods # {} => poolTotal = poolActual(periods[profile][foundPeriod])

\* "Identical numbers" in every channel: coaching sees every record of the pool.
CoachingSeesAllRecords ==
  isAnswered /\ reading.what = "coaching" /\ reading.period # 0 =>
    \A u \in Users : u \in DOMAIN reading.actual \/ reading.recorded[u] = 0

=============================================================================
