------------------------- MODULE ContributionsProofs -------------------------
(***************************************************************************)
(* Proofs about Contributions, ContributionsTx and LivePool, for any       *)
(* profiles and users of a tenant, any bounds, and whether or not the      *)
(* rollover job sees a row.                                                *)
(*                                                                         *)
(* Periods: those of a profile follow each other because the last one is   *)
(* open as long as the profile is not archived: a first record, which      *)
(* opens a period from today, then finds either an open period or none.    *)
(*                                                                         *)
(* The cap: a use case changes one summand of one user's sum, which its    *)
(* guard has compared with the others; a join changes none only because    *)
(* who never was a member has no percentage.                               *)
(*                                                                         *)
(* Commands that overlap: what a command has read, it has read of periods, *)
(* records and versions that are only added to, so that it is a lower      *)
(* bound of what is there when the command commits.                        *)
(*                                                                         *)
(* What goes live: nothing changes the pool's total behind the back of the *)
(* request that committed last, so what it has read so far is what there   *)
(* is; and who has no open period gets none from the job, so that the plan *)
(* which was read first is still in force when the members are read.       *)
(*                                                                         *)
(* What a query answers: the period that it found stays in the list and    *)
(* loses no record; and as long as all the snapshots since then are one,   *)
(* what the first of two statements has read is a part of that one.        *)
(*                                                                         *)
(* Commands that take turns: the periods, the versions and the cap, which  *)
(* overlapping commands break, hold of them as long as those commands do   *)
(* not overlap which the theorem names, whatever the others do.            *)
(***************************************************************************)
EXTENDS ContributionsTx, LivePool, Sums, SequenceTheorems

ShapeInv ==
  /\ role \in [Profiles -> [Users -> MemberRole \cup {"NONE", "LEFT"}]]
  /\ archived \subseteq Profiles
  /\ income \in [Profiles -> [Users -> 0..MaxIncome]]
  /\ plans \in [Profiles -> Seq(Allocations)]
  /\ periods \in [Profiles -> Seq(Period)]
  /\ clock \in Nat

isClosedOff(period) == isOpen(period) \/ period.reconciled = poolActual(period)

\* The periods of a profile with so many plan versions, archived or not.
isSound(list, versions, frozen) ==
  /\ \A i \in 1..Len(list) : isOpen(list[i]) => i = Len(list)
  /\ \A i \in 2..Len(list) : list[i].startDate = list[i-1].endDate
  /\ \A i \in 1..Len(list) : isClosedOff(list[i]) /\ list[i].planVersion <= versions
  /\ ~frozen /\ list # <<>> => isOpen(list[Len(list)])

PeriodsInv == \A p \in Profiles : isSound(periods[p], Len(plans[p]), p \in archived)

IInv == ShapeInv /\ PeriodsInv

\* What later periods and records leave of the ones there were.
keeps(old, new) ==
  \A i \in 1..Len(old) :
    /\ i \in 1..Len(new)
    /\ new[i].income = old[i].income /\ new[i].planVersion = old[i].planVersion
    /\ ~isOpen(old[i]) => new[i] = old[i]

\* What later allocations leave of the plan versions.
keepsPlans(old, new) ==
  /\ Len(old) <= Len(new)
  /\ \A v \in 1..Len(old) : v < Len(old) \/ Len(old) < Len(new) => new[v] = old[v]

\* What a step may do to the history of the profiles.
HistoryStep ==
  \A p \in Profiles : keeps(periods[p], periods'[p]) /\ keepsPlans(plans[p], plans'[p])

-----------------------------------------------------------------------------
(* Lists of periods. *)

\* The fields of a period.
LEMMA PeriodFields ==
  ASSUME NEW w \in Period
  PROVE  /\ w.status \in {"OPEN", "CLOSED"} /\ w.startDate \in Nat /\ w.endDate \in Nat
         /\ w.planVersion \in Nat /\ w.actual \in [Users -> Nat]
BY DEF Period

\* The records of the members add up to a number.
LEMMA PoolType ==
  ASSUME NEW actual \in [Users -> Nat]
  PROVE  SumFunction(actual) \in Nat
BY SumType, ContributionsAssumption DEF SumFunction

\* A period is appended to periods that are all closed, at the end of the last one.
LEMMA Appended ==
  ASSUME NEW list \in Seq(Period), NEW w \in Period, NEW versions \in Nat, NEW frozen,
         isSound(list, versions, TRUE),
         \A i \in 1..Len(list) : ~isOpen(list[i]),
         list # <<>> => w.startDate = list[Len(list)].endDate,
         isOpen(w), w.planVersion <= versions
  PROVE  /\ Append(list, w) \in Seq(Period)
         /\ isSound(Append(list, w), versions, frozen)
         /\ keeps(list, Append(list, w))
<1>1. PICK n \in Nat : n = Len(list)
  OBVIOUS
<1>2. PICK new \in Seq(Period) : new = Append(list, w)
  BY AppendProperties
<1>3. /\ Len(new) = n + 1 /\ new # <<>> /\ new[n+1] = w
      /\ \A i \in 1..n : new[i] = list[i]
  BY <1>1, <1>2, AppendProperties
<1>4. n > 0 => list # <<>>
  BY <1>1
<1>5. isSound(new, versions, frozen)
  BY <1>1, <1>3, <1>4 DEF isSound, isClosedOff
<1>6. keeps(list, new)
  BY <1>1, <1>3 DEF keeps
<1>7. QED
  BY <1>2, <1>5, <1>6

\* The last period is replaced by one that began with it, under the same plan, on the
\* same incomes.
LEMMA LastReplaced ==
  ASSUME NEW list \in Seq(Period), NEW w \in Period, NEW versions \in Nat, NEW frozen,
         NEW n \in 1..Len(list), n = Len(list),
         isSound(list, versions, TRUE), isOpen(list[n]), isClosedOff(w),
         w.startDate = list[n].startDate, w.income = list[n].income,
         w.planVersion = list[n].planVersion, ~frozen => isOpen(w)
  PROVE  /\ [list EXCEPT ![n] = w] \in Seq(Period)
         /\ Len([list EXCEPT ![n] = w]) = n
         /\ [list EXCEPT ![n] = w][n] = w
         /\ \A i \in 1..n : i # n => [list EXCEPT ![n] = w][i] = list[i]
         /\ isSound([list EXCEPT ![n] = w], versions, frozen)
         /\ keeps(list, [list EXCEPT ![n] = w])
<1>1. PICK new \in Seq(Period) : new = [list EXCEPT ![n] = w]
  BY ExceptSeq
<1>2. /\ Len(new) = n /\ n \in Nat /\ n > 0 /\ new[n] = w
      /\ \A i \in 1..n : i # n => new[i] = list[i]
  BY <1>1, ExceptSeq
<1>3. isSound(new, versions, frozen)
  BY <1>2 DEF isSound
<1>4. keeps(list, new)
  BY <1>2 DEF keeps
<1>5. QED
  BY <1>1, <1>2, <1>3, <1>4

\* More plan versions, and an archival, leave the periods sound.
LEMMA StaysSound ==
  ASSUME NEW list \in Seq(Period), NEW frozen, NEW later,
         NEW versions \in Nat, NEW more \in Nat, versions <= more,
         isSound(list, versions, frozen), frozen => later
  PROVE  isSound(list, more, later)
<1>1. \A i \in 1..Len(list) : list[i].planVersion \in Nat
  BY ElementOfSeq, PeriodFields
<1>2. QED
  BY <1>1 DEF isSound

\* Nothing changes.
LEMMA KeepsItself == ASSUME NEW list \in Seq(Period) PROVE keeps(list, list)
BY DEF keeps

-----------------------------------------------------------------------------
(* Periods. *)

\* What IInv says of one profile.
LEMMA OfProfile ==
  ASSUME IInv, NEW p \in Profiles
  PROVE  /\ periods[p] \in Seq(Period) /\ plans[p] \in Seq(Allocations)
         /\ Len(periods[p]) \in Nat /\ Len(plans[p]) \in Nat
         /\ DOMAIN periods[p] = 1..Len(periods[p]) /\ DOMAIN plans[p] = 1..Len(plans[p])
         /\ isSound(periods[p], Len(plans[p]), p \in archived)
         /\ isSound(periods[p], Len(plans[p]), TRUE)
<1>1. periods[p] \in Seq(Period) /\ plans[p] \in Seq(Allocations)
  BY DEF IInv, ShapeInv
<1>2. isSound(periods[p], Len(plans[p]), p \in archived)
  BY DEF IInv, PeriodsInv
<1>3. isSound(periods[p], Len(plans[p]), TRUE)
  BY <1>2 DEF isSound
<1>4. QED
  BY <1>1, <1>2, <1>3, LenProperties

\* A new period is open, empty, and under the current plan.
LEMMA NewPeriodIs ==
  ASSUME ShapeInv, NEW p \in Profiles, NEW start \in Nat
  PROVE  /\ newPeriod(p, start) \in Period /\ isOpen(newPeriod(p, start))
         /\ newPeriod(p, start).startDate = start /\ newPeriod(p, start).reconciled = 0
         /\ newPeriod(p, start).planVersion = Len(plans[p])
<1> DEFINE snapshot == [u \in {v \in Users : isMember(p, v)} |-> income[p][u]]
<1>1. snapshot \in UNION {[S -> 0..MaxIncome] : S \in SUBSET Users}
  <2>1. {v \in Users : isMember(p, v)} \in SUBSET Users
    OBVIOUS
  <2>2. snapshot \in [{v \in Users : isMember(p, v)} -> 0..MaxIncome]
    BY DEF ShapeInv
  <2>3. QED
    BY <2>1, <2>2
<1>2. /\ start + PeriodLength \in Nat /\ Len(plans[p]) \in Nat
      /\ [u \in Users |-> 0] \in [Users -> Nat]
  BY ContributionsAssumption DEF ShapeInv
<1>3. QED
  BY <1>1, <1>2 DEF newPeriod, currentVersion, Period, isOpen

\* A record changes only what the member has paid.
LEMMA RecordedIs ==
  ASSUME NEW w \in Period, isOpen(w), NEW u \in Users, NEW paid \in Nat, NEW new,
         new = [w EXCEPT !.actual = [w.actual EXCEPT ![u] = paid]]
  PROVE  /\ new \in Period /\ isOpen(new) /\ new.startDate = w.startDate
         /\ new.income = w.income /\ new.planVersion = w.planVersion
<1>1. [w.actual EXCEPT ![u] = paid] \in [Users -> Nat]
  BY PeriodFields
<1>2. QED
  BY <1>1, Zenon DEF Period, isOpen

\* Closing announces the sum of the records.
LEMMA ClosedIs ==
  ASSUME NEW w \in Period
  PROVE  /\ closed(w) \in Period /\ ~isOpen(closed(w))
         /\ closed(w).reconciled = poolActual(closed(w))
         /\ closed(w).startDate = w.startDate /\ closed(w).endDate = w.endDate
         /\ closed(w).income = w.income /\ closed(w).planVersion = w.planVersion
<1>1. poolActual(w) \in Nat
  BY PeriodFields, PoolType DEF poolActual
<1>2. "CLOSED" # "OPEN" /\ "CLOSED" \in {"OPEN", "CLOSED"}
  OBVIOUS
<1>3. closed(w).actual = w.actual /\ closed(w).status = "CLOSED"
  BY Zenon DEF closed, Period
<1>4. closed(w).reconciled = poolActual(closed(w))
  BY <1>3, Zenon DEF closed, poolActual, Period
<1>5. QED
  BY <1>1, <1>2, <1>3, <1>4, Zenon DEF closed, Period, isOpen

-----------------------------------------------------------------------------
(* What happens to the periods of one profile. *)

\* A contribution is recorded in the open period.
LEMMA LastRecorded ==
  ASSUME NEW list \in Seq(Period), NEW versions \in Nat, isSound(list, versions, TRUE),
         NEW i \in 1..Len(list), isOpen(list[i]), NEW u \in Users, NEW amount \in Nat
  PROVE  LET new == createRecord(list, i, u, amount)
         IN  /\ new \in Seq(Period) /\ keeps(list, new)
             /\ isSound(new, versions, FALSE)
<1>1. i = Len(list)
  BY DEF isSound
<1>2. PICK w \in Period : w = list[i]
  BY ElementOfSeq
<1>3. PICK paid \in Nat : paid = w.actual[u] + amount
  BY PeriodFields
<1>4. PICK more : more = [w EXCEPT !.actual = [w.actual EXCEPT ![u] = paid]]
  OBVIOUS
<1>5. /\ more \in Period /\ isOpen(more) /\ isClosedOff(more)
      /\ more.startDate = list[i].startDate /\ more.income = list[i].income
      /\ more.planVersion = list[i].planVersion
  BY <1>2, <1>3, <1>4, RecordedIs DEF isClosedOff
<1>6. createRecord(list, i, u, amount) = [list EXCEPT ![i] = more]
  BY <1>2, <1>3, <1>4 DEF createRecord
<1>7. /\ [list EXCEPT ![i] = more] \in Seq(Period)
      /\ isSound([list EXCEPT ![i] = more], versions, FALSE)
      /\ keeps(list, [list EXCEPT ![i] = more])
  BY <1>1, <1>5, LastReplaced
<1>8. QED
  BY <1>6, <1>7

\* A contribution is recorded in the open period, or opens the first one.
LEMMA Recorded ==
  ASSUME IInv, NEW p \in Profiles, NEW u \in Users, NEW amount \in Nat, p \notin archived,
         NEW i \in latestOpen(ensureOpenPeriod(p))
  PROVE  LET new == createRecord(ensureOpenPeriod(p), i, u, amount)
         IN  /\ new \in Seq(Period) /\ keeps(periods[p], new)
             /\ isSound(new, Len(plans[p]), FALSE)
<1>1. PICK list \in Seq(Period) :
        /\ list = ensureOpenPeriod(p) /\ isSound(list, Len(plans[p]), TRUE)
        /\ keeps(periods[p], list)
  <2>1. CASE \E j \in DOMAIN periods[p] : isOpen(periods[p][j])
    BY <2>1, OfProfile, KeepsItself DEF ensureOpenPeriod
  <2>2. CASE ~\E j \in DOMAIN periods[p] : isOpen(periods[p][j])
    <3>1. periods[p] = <<>>
      <4>1. periods[p] # <<>> => Len(periods[p]) \in DOMAIN periods[p]
        BY OfProfile, EmptySeq
      <4>2. QED
        BY <2>2, <4>1, OfProfile DEF isSound
    <3>2. /\ newPeriod(p, clock) \in Period /\ isOpen(newPeriod(p, clock))
          /\ newPeriod(p, clock).planVersion <= Len(plans[p])
      BY NewPeriodIs, OfProfile DEF IInv, ShapeInv
    <3>3. /\ Append(periods[p], newPeriod(p, clock)) \in Seq(Period)
          /\ isSound(Append(periods[p], newPeriod(p, clock)), Len(plans[p]), TRUE)
          /\ keeps(periods[p], Append(periods[p], newPeriod(p, clock)))
      BY <2>2, <3>1, <3>2, OfProfile, Appended
    <3>4. QED
      BY <2>2, <3>3, Zenon DEF ensureOpenPeriod
  <2>3. QED
    BY <2>1, <2>2
<1>2. i \in 1..Len(list) /\ isOpen(list[i]) /\ i = Len(list)
  BY <1>1 DEF latestOpen, isSound
<1>3. Len(plans[p]) \in Nat
  BY OfProfile
<1>4. PICK new : new = createRecord(list, i, u, amount)
  OBVIOUS
<1>5. new \in Seq(Period) /\ keeps(list, new) /\ isSound(new, Len(plans[p]), FALSE)
  BY <1>1, <1>2, <1>3, <1>4, LastRecorded
<1>6. keeps(periods[p], new)
  BY <1>1, <1>5 DEF keeps
<1>7. QED
  BY <1>1, <1>4, <1>5, <1>6

\* The open period is closed.
LEMMA LastClosed ==
  ASSUME NEW list \in Seq(Period), NEW versions \in Nat, isSound(list, versions, TRUE),
         NEW i \in 1..Len(list), i = Len(list), isOpen(list[i]),
         NEW past, past = closed(list[i])
  PROVE  /\ [list EXCEPT ![i] = past] \in Seq(Period)
         /\ Len([list EXCEPT ![i] = past]) = i
         /\ [list EXCEPT ![i] = past][i] = past /\ ~isOpen(past)
         /\ isSound([list EXCEPT ![i] = past], versions, TRUE)
         /\ keeps(list, [list EXCEPT ![i] = past])
<1>1. PICK w \in Period : w = list[i]
  BY ElementOfSeq
<1>2. /\ past \in Period /\ ~isOpen(past) /\ isClosedOff(past)
      /\ past.startDate = list[i].startDate
      /\ past.income = list[i].income /\ past.planVersion = list[i].planVersion
  BY <1>1, ClosedIs DEF isClosedOff
<1>3. PICK new : new = [list EXCEPT ![i] = past]
  OBVIOUS
<1>4. isSound(new, versions, TRUE) /\ keeps(list, new)
  BY <1>2, <1>3, LastReplaced
<1>5. new \in Seq(Period) /\ Len(new) = i /\ new[i] = past
  BY <1>2, <1>3, ExceptSeq
<1>6. QED
  BY <1>2, <1>3, <1>4, <1>5

\* A due period is closed, and unless the profile is archived the next one begins
\* where it ended.
LEMMA RolledOver ==
  ASSUME IInv, NEW p \in Profiles, NEW i \in DOMAIN periods[p], isDue(periods[p][i])
  PROVE  /\ rollOver(p, i) \in Seq(Period) /\ keeps(periods[p], rollOver(p, i))
         /\ isSound(rollOver(p, i), Len(plans[p]), p \in archived)
<1>1. i \in 1..Len(periods[p]) /\ isOpen(periods[p][i]) /\ i = Len(periods[p])
  BY OfProfile DEF isDue, isSound
<1>2. PICK w \in Period : w = periods[p][i]
  BY <1>1, OfProfile, ElementOfSeq
<1>3. PICK list : list = [periods[p] EXCEPT ![i] = closed(w)]
  OBVIOUS
<1>4. /\ list \in Seq(Period) /\ Len(list) = i /\ list[i] = closed(w)
      /\ \A j \in 1..i : ~isOpen(list[j])
      /\ isSound(list, Len(plans[p]), TRUE) /\ keeps(periods[p], list)
  <2>1. PICK old \in Seq(Period) : old = periods[p]
    BY OfProfile
  <2>2. PICK versions \in Nat : versions = Len(plans[p])
    BY OfProfile
  <2>3. PICK past : past = closed(old[i])
    OBVIOUS
  <2>4. i \in 1..Len(old) /\ i = Len(old) /\ isOpen(old[i]) /\ isSound(old, versions, TRUE)
    BY <1>1, <2>1, <2>2, OfProfile
  <2>5. list = [old EXCEPT ![i] = past] /\ past = closed(w)
    BY <1>2, <1>3, <2>1, <2>3
  <2>6. list \in Seq(Period) /\ ~isOpen(past)
    BY <2>3, <2>4, <2>5, LastClosed
  <2>7. Len(list) = i /\ list[i] = past
    BY <2>3, <2>4, <2>5, LastClosed
  <2>8. isSound(list, versions, TRUE)
    BY <2>3, <2>4, <2>5, LastClosed
  <2>9. keeps(old, list)
    BY <2>3, <2>4, <2>5, LastClosed
  <2>10. \A j \in 1..i : ~isOpen(list[j])
    BY <2>6, <2>7, <2>8 DEF isSound
  <2>11. QED
    BY <2>1, <2>2, <2>5, <2>6, <2>7, <2>8, <2>9, <2>10, Zenon
<1>5. CASE p \in archived
  BY <1>2, <1>3, <1>4, <1>5 DEF rollOver, isSound
<1>6. CASE p \notin archived
  <2>1. rollOver(p, i) = Append(list, newPeriod(p, w.endDate))
    BY <1>2, <1>3, <1>6 DEF rollOver
  <2>2. /\ newPeriod(p, w.endDate) \in Period /\ isOpen(newPeriod(p, w.endDate))
        /\ newPeriod(p, w.endDate).startDate = w.endDate
        /\ newPeriod(p, w.endDate).planVersion <= Len(plans[p])
    BY NewPeriodIs, PeriodFields, OfProfile DEF IInv
  <2>3. \A j \in 1..Len(list) : ~isOpen(list[j])
    BY <1>4
  <2>4. list[Len(list)].endDate = w.endDate
    BY <1>4, ClosedIs
  <2>5. /\ Append(list, newPeriod(p, w.endDate)) \in Seq(Period)
        /\ isSound(Append(list, newPeriod(p, w.endDate)), Len(plans[p]), p \in archived)
        /\ keeps(list, Append(list, newPeriod(p, w.endDate)))
    BY <1>4, <2>2, <2>3, <2>4, OfProfile, Appended
  <2>6. keeps(periods[p], Append(list, newPeriod(p, w.endDate)))
    BY <1>4, <2>5 DEF keeps
  <2>7. QED
    BY <2>1, <2>5, <2>6
<1>7. QED
  BY <1>5, <1>6

-----------------------------------------------------------------------------
(* Plan versions. *)

\* An allocation is a percentage for one more member, or another one for a member.
LEMMA UpsertedIs ==
  ASSUME NEW plan \in Allocations, NEW u \in Users, NEW bp \in 0..FullAllocationBp
  PROVE  upsertAllocation(plan, u, bp) \in Allocations
<1>1. PICK S \in SUBSET Users : plan \in [S -> 0..FullAllocationBp]
  BY DEF Allocations
<1>2. upsertAllocation(plan, u, bp) \in [S \cup {u} -> 0..FullAllocationBp]
  BY <1>1 DEF upsertAllocation
<1>3. S \cup {u} \in SUBSET Users
  OBVIOUS
<1>4. QED
  BY <1>2, <1>3, Zenon DEF Allocations

\* The first allocation of a profile is a plan.
LEMMA FirstIs ==
  ASSUME NEW u \in Users, NEW bp \in 0..FullAllocationBp
  PROVE  [v \in {u} |-> bp] \in Allocations
<1>1. [v \in {u} |-> bp] \in [{u} -> 0..FullAllocationBp] /\ {u} \in SUBSET Users
  OBVIOUS
<1>2. QED
  BY <1>1, Zenon DEF Allocations

\* Only the current version is written.
LEMMA InCurrentPlan ==
  ASSUME NEW list \in Seq(Allocations), NEW u \in Users, NEW bp \in 0..FullAllocationBp
  PROVE  /\ inPlan(list, Len(list), u, bp) \in Seq(Allocations)
         /\ keepsPlans(list, inPlan(list, Len(list), u, bp))
         /\ list # <<>> => Len(inPlan(list, Len(list), u, bp)) = Len(list)
<1>1. CASE list = <<>>
  <2>1. PICK plan \in Allocations : plan = [v \in {u} |-> bp]
    BY FirstIs
  <2>2. inPlan(list, Len(list), u, bp) = <<plan>>
    BY <1>1, <2>1 DEF inPlan
  <2>3. <<plan>> \in Seq(Allocations) /\ Len(list) = 0 /\ Len(<<plan>>) = 1
    BY <1>1
  <2>4. QED
    BY <2>2, <2>3 DEF keepsPlans
<1>2. CASE list # <<>>
  <2>1. PICK n \in 1..Len(list) : n = Len(list)
    BY <1>2, EmptySeq
  <2>2. PICK plan \in Allocations : plan = upsertAllocation(list[n], u, bp)
    BY <2>1, ElementOfSeq, UpsertedIs
  <2>3. inPlan(list, Len(list), u, bp) = [list EXCEPT ![n] = plan]
    BY <1>2, <2>1, <2>2 DEF inPlan
  <2>4. QED
    BY <2>1, <2>3, ExceptSeq DEF keepsPlans
<1>3. QED
  BY <1>1, <1>2

\* A redistribution adds a version.
LEMMA PlanAppended ==
  ASSUME NEW list \in Seq(Allocations), NEW plan \in Allocations
  PROVE  /\ Append(list, plan) \in Seq(Allocations)
         /\ keepsPlans(list, Append(list, plan))
BY AppendProperties DEF keepsPlans

\* Plan versions that are not written stand still.
LEMMA PlansKeepThemselves == ASSUME NEW list \in Seq(Allocations) PROVE keepsPlans(list, list)
BY DEF keepsPlans

-----------------------------------------------------------------------------
(* Steps. *)

\* A step that changes no period: more plan versions and more archived profiles.
LEMMA QuietStep ==
  ASSUME IInv, ShapeInv', UNCHANGED periods, archived \subseteq archived',
         \A p \in Profiles : keepsPlans(plans[p], plans'[p])
  PROVE  IInv' /\ HistoryStep
<1>1. ASSUME NEW p \in Profiles
      PROVE  isSound(periods'[p], Len(plans'[p]), p \in archived')
  <2>1. /\ periods[p] \in Seq(Period) /\ periods'[p] = periods[p]
        /\ isSound(periods[p], Len(plans[p]), p \in archived)
        /\ Len(plans[p]) \in Nat
    BY OfProfile
  <2>2. Len(plans'[p]) \in Nat /\ Len(plans[p]) <= Len(plans'[p])
    BY DEF ShapeInv, keepsPlans
  <2>3. p \in archived => p \in archived'
    OBVIOUS
  <2>4. QED
    BY <2>1, <2>2, <2>3, StaysSound
<1>2. HistoryStep
  BY OfProfile, KeepsItself DEF HistoryStep
<1>3. QED
  BY <1>1, <1>2 DEF IInv, PeriodsInv

\* A step that changes only the periods keeps the invariant if it keeps each
\* profile's part.
LEMMA PeriodsStep ==
  ASSUME IInv, UNCHANGED <<membershipVars, income, plans>>, clock' \in Nat,
         periods' = [p \in Profiles |-> periods'[p]],
         \A p \in Profiles : /\ periods'[p] \in Seq(Period)
                             /\ keeps(periods[p], periods'[p])
                             /\ isSound(periods'[p], Len(plans[p]), p \in archived)
  PROVE  IInv' /\ HistoryStep
<1>1. ShapeInv'
  BY DEF IInv, ShapeInv, membershipVars
<1>2. PeriodsInv'
  BY DEF PeriodsInv, membershipVars
<1>3. HistoryStep
  BY OfProfile, PlansKeepThemselves DEF HistoryStep
<1>4. QED
  BY <1>1, <1>2, <1>3 DEF IInv

\* There is nothing yet.
LEMMA InitIInv == Init => IInv
<1> SUFFICES ASSUME Init PROVE IInv
  OBVIOUS
<1>1. ShapeInv
  BY ContributionsAssumption DEF Init, ShapeInv
<1>2. ASSUME NEW p \in Profiles PROVE isSound(periods[p], Len(plans[p]), p \in archived)
  <2>1. periods[p] = <<>> /\ Len(<<>>) = 0
    BY DEF Init
  <2>2. QED
    BY <2>1 DEF isSound
<1>3. QED
  BY <1>1, <1>2 DEF IInv, PeriodsInv

\* Every step keeps the invariant, and what it must of the history.
LEMMA NextIInv == ASSUME IInv, [Next]_vars PROVE IInv' /\ HistoryStep
<1>1. \A p \in Profiles : keepsPlans(plans[p], plans[p])
  BY OfProfile, PlansKeepThemselves
<1>2. ASSUME NEW p \in Profiles, NEW u \in Users, NEW r \in Roles, Join(p, u, r)
      PROVE  IInv' /\ HistoryStep
  <2>1. ShapeInv'
    BY <1>2, ContributionsAssumption DEF Join, IInv, ShapeInv
  <2>2. QED
    BY <1>1, <1>2, <2>1, QuietStep DEF Join
<1>3. ASSUME NEW p \in Profiles, NEW u \in Users, Leave(p, u) PROVE IInv' /\ HistoryStep
  <2>1. ShapeInv'
    BY <1>3 DEF Leave, IInv, ShapeInv
  <2>2. QED
    BY <1>1, <1>3, <2>1, QuietStep DEF Leave
<1>4. ASSUME NEW p \in Profiles, Archive(p) PROVE IInv' /\ HistoryStep
  <2>1. ShapeInv' /\ archived \subseteq archived'
    BY <1>4 DEF Archive, IInv, ShapeInv
  <2>2. QED
    BY <1>1, <1>4, <2>1, QuietStep DEF Archive
<1>5. ASSUME NEW p \in Profiles, NEW u \in Users, NEW bp \in 0..FullAllocationBp,
             SetAllocation(p, u, bp)
      PROVE  IInv' /\ HistoryStep
  <2>1. PICK list : list = inPlan(plans[p], Len(plans[p]), u, bp)
    OBVIOUS
  <2>2. list \in Seq(Allocations) /\ keepsPlans(plans[p], list)
    BY <2>1, InCurrentPlan, OfProfile
  <2>3. plans' = [plans EXCEPT ![p] = list]
    BY <1>5, <2>1 DEF SetAllocation, currentVersion, IInv, ShapeInv
  <2>4. ShapeInv'
    BY <1>5, <2>2, <2>3 DEF SetAllocation, membershipVars, IInv, ShapeInv
  <2>5. \A q \in Profiles : keepsPlans(plans[q], plans'[q])
    BY <1>1, <2>2, <2>3 DEF IInv, ShapeInv
  <2>6. QED
    BY <1>5, <2>4, <2>5, QuietStep DEF SetAllocation, membershipVars
<1>6. ASSUME NEW p \in Profiles, NEW u \in Users, NEW allocations \in Allocations,
             Redistribute(p, u, allocations)
      PROVE  IInv' /\ HistoryStep
  <2>1. PICK list : list = Append(plans[p], allocations)
    OBVIOUS
  <2>2. list \in Seq(Allocations) /\ keepsPlans(plans[p], list)
    BY <2>1, PlanAppended, OfProfile
  <2>3. plans' = [plans EXCEPT ![p] = list]
    BY <1>6, <2>1 DEF Redistribute, IInv, ShapeInv
  <2>4. ShapeInv'
    BY <1>6, <2>2, <2>3 DEF Redistribute, membershipVars, IInv, ShapeInv
  <2>5. \A q \in Profiles : keepsPlans(plans[q], plans'[q])
    BY <1>1, <2>2, <2>3 DEF IInv, ShapeInv
  <2>6. QED
    BY <1>6, <2>4, <2>5, QuietStep DEF Redistribute, membershipVars
<1>7. ASSUME NEW p \in Profiles, NEW u \in Users, NEW amount \in 0..MaxIncome,
             SetDeclaredIncome(p, u, amount)
      PROVE  IInv' /\ HistoryStep
  <2>1. ShapeInv'
    BY <1>7 DEF SetDeclaredIncome, membershipVars, IInv, ShapeInv
  <2>2. QED
    BY <1>1, <1>7, <2>1, QuietStep DEF SetDeclaredIncome, membershipVars
<1>8. ASSUME NEW p \in Profiles, NEW u \in Users, NEW amount \in 1..MaxAmount,
             RecordContribution(p, u, amount)
      PROVE  IInv' /\ HistoryStep
  <2>1. PICK i \in latestOpen(ensureOpenPeriod(p)) :
          periods' = [periods EXCEPT ![p] = createRecord(ensureOpenPeriod(p), i, u, amount)]
    BY <1>8 DEF RecordContribution
  <2>2. PICK list : list = createRecord(ensureOpenPeriod(p), i, u, amount)
    OBVIOUS
  <2>3. amount \in Nat /\ p \notin archived
    BY <1>8, ContributionsAssumption DEF RecordContribution
  <2>4. /\ list \in Seq(Period) /\ keeps(periods[p], list)
        /\ isSound(list, Len(plans[p]), FALSE)
    BY <2>2, <2>3, Recorded
  <2>5. isSound(list, Len(plans[p]), p \in archived)
    BY <2>3, <2>4 DEF isSound
  <2>6. \A q \in Profiles : periods'[q] = IF q = p THEN list ELSE periods[q]
    BY <2>1, <2>2 DEF IInv, ShapeInv
  <2>7. periods' = [q \in Profiles |-> periods'[q]]
    BY <2>1 DEF IInv, ShapeInv
  <2>8. UNCHANGED <<membershipVars, income, plans>> /\ clock' \in Nat
    BY <1>8 DEF RecordContribution, IInv, ShapeInv
  <2>9. ASSUME NEW q \in Profiles
        PROVE  /\ periods'[q] \in Seq(Period) /\ keeps(periods[q], periods'[q])
               /\ isSound(periods'[q], Len(plans[q]), q \in archived)
    BY <2>4, <2>5, <2>6, OfProfile, KeepsItself
  <2>10. QED
    BY <2>7, <2>8, <2>9, PeriodsStep
<1>9. ASSUME NEW S \in SUBSET Profiles, NEW batch \in [S -> 1..MaxPeriods],
             RolloverForTenant(batch)
      PROVE  IInv' /\ HistoryStep
  <2>1. periods' = [q \in Profiles |-> IF q \in S THEN rollOver(q, batch[q]) ELSE periods[q]]
    BY <1>9 DEF RolloverForTenant
  <2>2. periods' = [q \in Profiles |-> periods'[q]]
    BY <2>1
  <2>3. UNCHANGED <<membershipVars, income, plans>> /\ clock' \in Nat
    BY <1>9 DEF RolloverForTenant, IInv, ShapeInv
  <2>4. ASSUME NEW q \in Profiles
        PROVE  /\ periods'[q] \in Seq(Period) /\ keeps(periods[q], periods'[q])
               /\ isSound(periods'[q], Len(plans[q]), q \in archived)
    <3>1. CASE q \in S
      <4>1. batch[q] \in DOMAIN periods[q] /\ isDue(periods[q][batch[q]])
        BY <1>9, <3>1 DEF RolloverForTenant
      <4>2. QED
        BY <2>1, <3>1, <4>1, RolledOver
    <3>2. CASE q \notin S
      BY <2>1, <3>2, OfProfile, KeepsItself
    <3>3. QED
      BY <3>1, <3>2
  <2>5. QED
    BY <2>2, <2>3, <2>4, PeriodsStep
<1>10. ASSUME Tick PROVE IInv' /\ HistoryStep
  <2>1. ShapeInv'
    BY <1>10 DEF Tick, membershipVars, IInv, ShapeInv
  <2>2. QED
    BY <1>1, <1>10, <2>1, QuietStep DEF Tick, membershipVars
<1>11. ASSUME UNCHANGED vars PROVE IInv' /\ HistoryStep
  <2>1. ShapeInv'
    BY <1>11 DEF vars, IInv, ShapeInv
  <2>2. QED
    BY <1>1, <1>11, <2>1, QuietStep DEF vars
<1>12. QED
  BY <1>2, <1>3, <1>4, <1>5, <1>6, <1>7, <1>8, <1>9, <1>10, <1>11, ContributionsAssumption
  DEF Next, Rollover

\* So it holds always.
LEMMA Inductive == Spec => []IInv
<1>1. IInv /\ [Next]_vars => IInv'
  BY NextIInv
<1>2. QED
  BY <1>1, InitIInv, PTL DEF Spec

\* The state is always of its type.
THEOREM TypeCorrect == Spec => []TypeOK
<1>1. IInv => TypeOK
  BY DEF IInv, ShapeInv, TypeOK
<1>2. QED
  BY <1>1, Inductive, PTL

\* The periods of a profile follow each other without gap or overlap and only the last
\* is open, whenever the job runs and whoever records first.
THEOREM PeriodsAreAChainHolds == Spec => []PeriodsAreAChain
<1>1. IInv => PeriodsAreAChain
  BY OfProfile DEF PeriodsAreAChain, isSound
<1>2. QED
  BY <1>1, Inductive, PTL

\* The total announced when a period closed stays the sum of its records.
THEOREM ClosedReconcilesHolds == Spec => []ClosedReconciles
<1>1. IInv => ClosedReconciles
  BY OfProfile DEF ClosedReconciles, isSound, isClosedOff
<1>2. QED
  BY <1>1, Inductive, PTL

\* A period that opened before the last redistribution keeps what it expects of every
\* member, and a closed period keeps everything.
THEOREM HistoryIsPreservedHolds == Spec => HistoryIsPreserved
<1> DEFINE Preserved ==
      \A p \in Profiles : \A i \in DOMAIN periods[p] :
        /\ periods[p][i].planVersion < currentVersion(p) \/ currentVersion(p)' > currentVersion(p)
             => \A u \in Users : expectedOf(p, i, u)' = expectedOf(p, i, u)
        /\ ~isOpen(periods[p][i]) => periods'[p][i] = periods[p][i]
<1>1. ASSUME IInv, [Next]_vars PROVE Preserved
  <2>1. SUFFICES ASSUME NEW p \in Profiles, NEW i \in DOMAIN periods[p]
        PROVE  /\ \/ periods[p][i].planVersion < currentVersion(p)
                  \/ currentVersion(p)' > currentVersion(p)
                  => \A u \in Users : expectedOf(p, i, u)' = expectedOf(p, i, u)
               /\ ~isOpen(periods[p][i]) => periods'[p][i] = periods[p][i]
    OBVIOUS
  <2>2. /\ i \in 1..Len(periods[p]) /\ i \in Nat
        /\ keeps(periods[p], periods'[p]) /\ keepsPlans(plans[p], plans'[p])
    <3>1. HistoryStep
      BY <1>1, NextIInv
    <3>2. i \in 1..Len(periods[p]) /\ i \in Nat
      <4>1. DOMAIN periods[p] = 1..Len(periods[p]) /\ Len(periods[p]) \in Nat
        BY <1>1, OfProfile
      <4>2. QED
        BY <2>1, <4>1
    <3>3. QED
      BY <3>1, <3>2 DEF HistoryStep
  <2>3. /\ periods'[p][i].income = periods[p][i].income
        /\ periods'[p][i].planVersion = periods[p][i].planVersion
        /\ ~isOpen(periods[p][i]) => periods'[p][i] = periods[p][i]
    BY <2>2 DEF keeps
  <2>4. PICK v \in Nat : v = periods[p][i].planVersion
    BY <1>1, <2>2, OfProfile, ElementOfSeq, PeriodFields
  <2>5. v <= Len(plans[p])
    BY <1>1, <2>2, <2>4, OfProfile DEF isSound
  <2>6. /\ DOMAIN plans[p] = 1..Len(plans[p]) /\ DOMAIN plans'[p] = 1..Len(plans'[p])
        /\ Len(plans[p]) \in Nat /\ Len(plans'[p]) \in Nat
    BY <1>1, NextIInv DEF IInv, ShapeInv
  <2>7. ASSUME v < Len(plans[p]) \/ Len(plans'[p]) > Len(plans[p]), NEW u \in Users
        PROVE  allocationIn(p, v, u)' = allocationIn(p, v, u)
    <3>1. CASE v = 0
      BY <2>6, <3>1 DEF allocationIn
    <3>2. CASE v > 0
      <4>1. v \in 1..Len(plans[p]) /\ v \in 1..Len(plans'[p]) /\ plans'[p][v] = plans[p][v]
        BY <2>2, <2>5, <2>6, <2>7, <3>2 DEF keepsPlans
      <4>2. QED
        BY <2>6, <4>1 DEF allocationIn
    <3>3. QED
      BY <3>1, <3>2
  <2>8. ASSUME v < Len(plans[p]) \/ Len(plans'[p]) > Len(plans[p]), NEW u \in Users
        PROVE  expectedOf(p, i, u)' = expectedOf(p, i, u)
    <3>1. allocationIn(p, v, u)' = allocationIn(p, v, u)
      BY <2>7, <2>8
    <3>2. QED
      BY <2>3, <2>4, <3>1 DEF expectedOf, allocationIn
  <2>9. QED
    BY <2>3, <2>4, <2>8 DEF currentVersion
<1>2. QED
  BY <1>1, Inductive, PTL DEF Spec, HistoryIsPreserved

-----------------------------------------------------------------------------
(* The cap. *)

\* The percentage a member has under the last of the plan versions.
shareOf(list, u) ==
  IF list # <<>> /\ u \in DOMAIN list[Len(list)] THEN list[Len(list)][u] ELSE 0

shares(u) == [q \in Profiles |-> shareOf(plans[q], u)]

memberships(u) == {q \in Profiles : isMember(q, u)}

CommittedByShares ==
  ShapeInv => \A u \in Users, among \in SUBSET Profiles :
    committedByUser(u, among) = SumFunctionOnSet(shares(u), memberships(u) \cap among)

\* Who never was a member has no percentage that a later membership could wake.
StrangersInv ==
  \A p \in Profiles, u \in Users : role[p][u] = "NONE" => shareOf(plans[p], u) = 0

CapInv == StrangersInv /\ CapRespected

\* A percentage is a number.
LEMMA ShareType ==
  ASSUME NEW list \in Seq(Allocations), NEW u \in Users
  PROVE  shareOf(list, u) \in 0..FullAllocationBp
<1>1. CASE list = <<>>
  BY <1>1, ContributionsAssumption DEF shareOf
<1>2. CASE list # <<>>
  <2>1. PICK plan \in Allocations : plan = list[Len(list)]
    BY <1>2, EmptySeq, ElementOfSeq
  <2>2. u \in DOMAIN plan => plan[u] \in 0..FullAllocationBp
    BY <2>1 DEF Allocations
  <2>3. QED
    BY <2>1, <2>2, ContributionsAssumption DEF shareOf
<1>3. QED
  BY <1>1, <1>2

\* What a user has committed, in these terms.
LEMMA CommittedIs == CommittedByShares
<1> SUFFICES ASSUME ShapeInv, NEW u \in Users, NEW among \in SUBSET Profiles
             PROVE  committedByUser(u, among) =
                      SumFunctionOnSet(shares(u), memberships(u) \cap among)
  BY DEF CommittedByShares
<1>1. ASSUME NEW q \in Profiles
      PROVE  allocationIn(q, currentVersion(q), u) = shareOf(plans[q], u)
  <2>1. plans[q] \in Seq(Allocations)
    BY DEF ShapeInv
  <2>2. Len(plans[q]) \in DOMAIN plans[q] <=> plans[q] # <<>>
    BY <2>1, EmptySeq
  <2>3. QED
    BY <2>2 DEF allocationIn, currentVersion, shareOf
<1>2. currentAllocation(u) = shares(u)
  BY <1>1 DEF currentAllocation, shares
<1>3. {q \in among : isMember(q, u)} = memberships(u) \cap among
  BY DEF memberships
<1>4. QED
  BY <1>2, <1>3 DEF committedByUser

\* Percentages fun in the profiles S, and gun in T: the same but for one profile.
differAt(p, fun, S, gun, T) ==
  /\ S \subseteq Profiles /\ T \subseteq Profiles
  /\ \A q \in Profiles : fun[q] \in Nat /\ gun[q] \in Nat
  /\ \A q \in Profiles : q # p => fun[q] = gun[q] /\ (q \in S <=> q \in T)

\* The sum of the percentages after one profile's has changed, or the membership there.
LEMMA OneShareChanges ==
  ASSUME NEW p \in Profiles, NEW fun, NEW gun, NEW S, NEW T, differAt(p, fun, S, gun, T),
         NEW rest, rest = S \ {p}
  PROVE  /\ p \in T => SumFunctionOnSet(gun, T) = gun[p] + SumFunctionOnSet(fun, rest)
         /\ p \notin T => SumFunctionOnSet(gun, T) = SumFunctionOnSet(fun, rest)
<1>1. IsFiniteSet(T) /\ IsFiniteSet(T \ {p})
  BY FS_Subset, ContributionsAssumption DEF differAt
<1>2. rest = T \ {p}
  BY DEF differAt
<1>3. SumFunctionOnSet(gun, rest) = SumFunctionOnSet(fun, rest)
  <2>1. IsFiniteSet(rest) /\ \A q \in rest : gun[q] = fun[q]
    BY <1>1, <1>2 DEF differAt
  <2>2. QED
    BY <2>1, SumEqual
<1>4. SumFunctionOnSet(gun, rest) \in Nat
  BY <1>1, <1>2, SumType DEF differAt
<1>5. CASE p \in T
  <2>1. SumFunctionOnSet(gun, T) = gun[p] + SumFunctionOnSet(gun, T \ {p})
    BY <1>1, <1>5, SumRemove DEF differAt
  <2>2. SumFunctionOnSet(gun, T) = gun[p] + SumFunctionOnSet(gun, rest)
    BY <1>2, <2>1, Zenon
  <2>3. QED
    BY <1>3, <1>4, <1>5, <2>2
<1>6. CASE p \notin T
  <2>1. rest = T
    BY <1>2, <1>6
  <2>2. SumFunctionOnSet(gun, T) = SumFunctionOnSet(gun, rest)
    BY <2>1, Zenon
  <2>3. QED
    BY <1>3, <1>4, <1>6, <2>2
<1>7. QED
  BY <1>5, <1>6

\* A step that writes one profile's roles and plans keeps the cap if each user's new
\* percentage there was checked against the others, or is not more than it was.
LEMMA CapStep ==
  ASSUME ShapeInv, ShapeInv', CapInv, NEW p \in Profiles,
         \A q \in Profiles : q # p => role'[q] = role[q] /\ plans'[q] = plans[q],
         \A u \in Users :
           /\ role'[p][u] = "NONE" => shareOf(plans'[p], u) = 0
           /\ \/ committedByUser(u, Profiles \ {p}) + shareOf(plans'[p], u) <= FullAllocationBp
              \/ role'[p][u] \notin MemberRole
              \/ shareOf(plans'[p], u) = 0
              \/ isMember(p, u) /\ shareOf(plans'[p], u) = shareOf(plans[p], u)
  PROVE  CapInv'
<1>1. StrangersInv'
  BY DEF CapInv, StrangersInv
<1>2. ASSUME NEW u \in Users PROVE committedByUser(u, Profiles)' <= FullAllocationBp
  <2>1. PICK S \in SUBSET Profiles : S = memberships(u)
    BY DEF memberships
  <2>2. PICK T \in SUBSET Profiles : T = memberships(u)'
    BY DEF memberships
  <2>3. PICK fun : fun = shares(u)
    OBVIOUS
  <2>4. PICK gun : gun = shares(u)'
    OBVIOUS
  <2>5. \A q \in Profiles : /\ fun[q] = shareOf(plans[q], u) /\ gun[q] = shareOf(plans'[q], u)
                            /\ fun[q] \in Nat /\ gun[q] \in Nat
    <3>1. \A q \in Profiles : plans[q] \in Seq(Allocations) /\ plans'[q] \in Seq(Allocations)
      BY DEF ShapeInv
    <3>2. \A q \in Profiles : fun[q] = shareOf(plans[q], u) /\ gun[q] = shareOf(plans'[q], u)
      BY <2>3, <2>4 DEF shares
    <3>3. \A q \in Profiles : /\ shareOf(plans[q], u) \in 0..FullAllocationBp
                              /\ shareOf(plans'[q], u) \in 0..FullAllocationBp
      BY <3>1, ShareType
    <3>4. QED
      BY <3>2, <3>3, ContributionsAssumption
  <2>6. \A q \in Profiles : q # p => fun[q] = gun[q] /\ (q \in S <=> q \in T)
    BY <2>1, <2>2, <2>5 DEF memberships, isMember
  <2> PICK rest : rest = S \ {p}
    OBVIOUS
  <2>7. /\ p \in T => SumFunctionOnSet(gun, T) = gun[p] + SumFunctionOnSet(fun, rest)
        /\ p \notin T => SumFunctionOnSet(gun, T) = SumFunctionOnSet(fun, rest)
    <3>1. \A q \in Profiles : fun[q] \in Nat /\ gun[q] \in Nat
      BY <2>5
    <3>2. differAt(p, fun, S, gun, T)
      BY <2>6, <3>1 DEF differAt
    <3>3. QED
      BY <3>2, OneShareChanges
  <2>8. /\ committedByUser(u, Profiles)' = SumFunctionOnSet(gun, T)
        /\ committedByUser(u, Profiles) = SumFunctionOnSet(fun, S)
        /\ committedByUser(u, Profiles \ {p}) = SumFunctionOnSet(fun, S \ {p})
    <3>1. S \cap Profiles = S /\ T \cap Profiles = T /\ S \cap (Profiles \ {p}) = S \ {p}
      OBVIOUS
    <3>2. committedByUser(u, Profiles)' = SumFunctionOnSet(shares(u), memberships(u) \cap Profiles)'
      <4>1. CommittedByShares'
        BY CommittedIs, PTL
      <4>2. QED
        BY <4>1 DEF CommittedByShares
    <3>3. /\ committedByUser(u, Profiles) = SumFunctionOnSet(shares(u), memberships(u) \cap Profiles)
          /\ committedByUser(u, Profiles \ {p})
               = SumFunctionOnSet(shares(u), memberships(u) \cap (Profiles \ {p}))
      BY CommittedIs DEF CommittedByShares
    <3>4. QED
      BY <2>1, <2>2, <2>3, <2>4, <3>1, <3>2, <3>3
  <2>9. /\ committedByUser(u, Profiles) <= FullAllocationBp
        /\ FullAllocationBp \in Nat
    BY ContributionsAssumption DEF CapInv, CapRespected
  <2>10. /\ IsFiniteSet(S) /\ IsFiniteSet(S \ {p})
    BY FS_Subset, ContributionsAssumption
  <2>11. PICK before \in Nat : before = SumFunctionOnSet(fun, S)
    BY <2>5, <2>10, SumType
  <2>12. PICK elsewhere \in Nat : elsewhere = SumFunctionOnSet(fun, S \ {p})
    BY <2>5, <2>10, SumType
  <2>13. elsewhere <= before
    BY <2>5, <2>10, <2>11, <2>12, SumOfSubset
  <2>14. p \in S => before = fun[p] + elsewhere
    BY <2>5, <2>10, <2>11, <2>12, SumRemove
  <2>15. /\ p \in S <=> isMember(p, u)
         /\ p \in T <=> role'[p][u] \in MemberRole
    BY <2>1, <2>2 DEF memberships, isMember
  <2>16. before <= FullAllocationBp
    BY <2>8, <2>9, <2>11
  <2>17. CASE elsewhere + gun[p] <= FullAllocationBp
    BY <2>5, <2>7, <2>8, <2>9, <2>12, <2>13, <2>16, <2>17
  <2>18. CASE p \notin T \/ gun[p] = 0
    BY <2>5, <2>7, <2>8, <2>9, <2>12, <2>13, <2>16, <2>18
  <2>19. CASE p \in S /\ gun[p] = fun[p]
    BY <2>5, <2>7, <2>8, <2>9, <2>12, <2>13, <2>14, <2>16, <2>19
  <2>20. QED
    BY <2>5, <2>8, <2>12, <2>15, <2>17, <2>18, <2>19
<1>3. QED
  BY <1>1, <1>2 DEF CapInv, CapRespected

\* What an allocation makes of the percentages of a profile.
LEMMA ShareInCurrentPlan ==
  ASSUME NEW list \in Seq(Allocations), NEW u \in Users, NEW bp \in 0..FullAllocationBp,
         NEW v \in Users
  PROVE  shareOf(inPlan(list, Len(list), u, bp), v) = IF v = u THEN bp ELSE shareOf(list, v)
<1>1. CASE list = <<>>
  <2>1. PICK plan : plan = [w \in {u} |-> bp]
    OBVIOUS
  <2>2. inPlan(list, Len(list), u, bp) = <<plan>>
    BY <1>1, <2>1 DEF inPlan
  <2>3. <<plan>> # <<>> /\ Len(<<plan>>) = 1 /\ <<plan>>[1] = plan
    OBVIOUS
  <2>4. shareOf(<<plan>>, v) = IF v \in DOMAIN plan THEN plan[v] ELSE 0
    BY <2>3 DEF shareOf
  <2>5. QED
    BY <1>1, <2>1, <2>2, <2>4 DEF shareOf
<1>2. CASE list # <<>>
  <2>1. PICK n \in 1..Len(list) : n = Len(list)
    BY <1>2, EmptySeq
  <2>2. PICK plan \in Allocations : plan = upsertAllocation(list[n], u, bp)
    BY <2>1, ElementOfSeq, UpsertedIs
  <2>3. PICK new : new = inPlan(list, Len(list), u, bp)
    OBVIOUS
  <2>4. new = [list EXCEPT ![n] = plan]
    BY <1>2, <2>1, <2>2, <2>3 DEF inPlan
  <2>5. Len(new) = n /\ new[n] = plan /\ new # <<>>
    BY <2>1, <2>4, ExceptSeq
  <2>6. /\ DOMAIN plan = DOMAIN list[n] \cup {u}
        /\ \A w \in DOMAIN plan : plan[w] = IF w = u THEN bp ELSE list[n][w]
    BY <2>2 DEF upsertAllocation
  <2>7. shareOf(new, v) = IF v \in DOMAIN plan THEN plan[v] ELSE 0
    BY <2>5 DEF shareOf
  <2>8. shareOf(list, v) = IF v \in DOMAIN list[n] THEN list[n][v] ELSE 0
    BY <1>2, <2>1 DEF shareOf
  <2>9. QED
    BY <2>3, <2>6, <2>7, <2>8
<1>3. QED
  BY <1>1, <1>2

\* What a redistribution makes of them.
LEMMA ShareInAppended ==
  ASSUME NEW list \in Seq(Allocations), NEW plan \in Allocations, NEW v \in Users
  PROVE  shareOf(Append(list, plan), v) = IF v \in DOMAIN plan THEN plan[v] ELSE 0
<1>1. PICK new \in Seq(Allocations) : new = Append(list, plan)
  BY AppendProperties
<1>2. new # <<>> /\ new[Len(new)] = plan
  BY <1>1, AppendProperties
<1>3. shareOf(new, v) = IF v \in DOMAIN plan THEN plan[v] ELSE 0
  BY <1>2 DEF shareOf
<1>4. QED
  BY <1>1, <1>3

\* A step that writes neither roles nor plans keeps the cap.
LEMMA CapStands == ASSUME CapInv, UNCHANGED <<role, plans>> PROVE CapInv'
BY DEF CapInv, StrangersInv, CapRespected, committedByUser, currentAllocation,
       allocationIn, currentVersion, isMember

\* At first nobody has committed anything.
LEMMA InitCapInv == Init => CapInv
<1> SUFFICES ASSUME Init PROVE CapInv
  OBVIOUS
<1>1. StrangersInv
  BY DEF Init, StrangersInv, shareOf
<1>2. ASSUME NEW u \in Users PROVE committedByUser(u, Profiles) <= FullAllocationBp
  <2>1. {p \in Profiles : isMember(p, u)} = {}
    BY DEF Init, isMember, MemberRole
  <2>2. committedByUser(u, Profiles) = SumFunctionOnSet(currentAllocation(u), {})
    BY <2>1, Zenon DEF committedByUser
  <2>3. SumFunctionOnSet(currentAllocation(u), {}) = 0
    BY SumUnfolds, FS_EmptySet
  <2>4. QED
    BY <2>2, <2>3, ContributionsAssumption
<1>3. QED
  BY <1>1, <1>2 DEF CapInv, CapRespected

\* Every step keeps the cap.
LEMMA NextCapInv == ASSUME IInv, CapInv, [Next]_vars PROVE CapInv'
<1>1. ShapeInv /\ ShapeInv'
  BY NextIInv DEF IInv
<1>2. \A p \in Profiles : plans[p] \in Seq(Allocations)
  BY DEF IInv, ShapeInv
<1>3. ASSUME NEW p \in Profiles, NEW u \in Users, NEW r \in Roles, Join(p, u, r)
      PROVE  CapInv'
  <2>1. /\ plans' = plans /\ \A q \in Profiles : q # p => role'[q] = role[q]
        /\ \A v \in Users : v # u => role'[p][v] = role[p][v]
    BY <1>3 DEF Join, IInv, ShapeInv
  <2>2. shareOf(plans'[p], u) = 0
    BY <1>3, <2>1 DEF Join, CapInv, StrangersInv
  <2>3. ASSUME NEW v \in Users
        PROVE  /\ role'[p][v] = "NONE" => shareOf(plans'[p], v) = 0
               /\ \/ role'[p][v] \notin MemberRole
                  \/ shareOf(plans'[p], v) = 0
                  \/ isMember(p, v) /\ shareOf(plans'[p], v) = shareOf(plans[p], v)
    BY <2>1, <2>2 DEF CapInv, StrangersInv, isMember
  <2>4. QED
    BY <1>1, <2>1, <2>3, CapStep
<1>4. ASSUME NEW p \in Profiles, NEW u \in Users, Leave(p, u) PROVE CapInv'
  <2>1. /\ plans' = plans /\ \A q \in Profiles : q # p => role'[q] = role[q]
        /\ \A v \in Users : v # u => role'[p][v] = role[p][v]
        /\ role'[p][u] = "LEFT"
    BY <1>4 DEF Leave, IInv, ShapeInv
  <2>2. ASSUME NEW v \in Users
        PROVE  /\ role'[p][v] = "NONE" => shareOf(plans'[p], v) = 0
               /\ \/ role'[p][v] \notin MemberRole
                  \/ isMember(p, v) /\ shareOf(plans'[p], v) = shareOf(plans[p], v)
    BY <2>1 DEF CapInv, StrangersInv, isMember, MemberRole
  <2>3. QED
    BY <1>1, <2>1, <2>2, CapStep
<1>5. ASSUME NEW p \in Profiles, NEW u \in Users, NEW bp \in 0..FullAllocationBp,
             SetAllocation(p, u, bp)
      PROVE  CapInv'
  <2>1. /\ role' = role /\ \A q \in Profiles : q # p => plans'[q] = plans[q]
        /\ plans'[p] = inPlan(plans[p], Len(plans[p]), u, bp)
    BY <1>5 DEF SetAllocation, currentVersion, membershipVars, IInv, ShapeInv
  <2>2. \A v \in Users :
          shareOf(plans'[p], v) = IF v = u THEN bp ELSE shareOf(plans[p], v)
    BY <1>2, <2>1, ShareInCurrentPlan
  <2>3. /\ isMember(p, u)
        /\ committedByUser(u, Profiles \ {p}) + bp <= FullAllocationBp
    BY <1>5 DEF SetAllocation, mayContribute, isMember, MemberRole, checkAllocationWithinCap
  <2>4. role[p][u] # "NONE"
    BY <2>3 DEF isMember, MemberRole
  <2>5. ASSUME NEW v \in Users
        PROVE  /\ role'[p][v] = "NONE" => shareOf(plans'[p], v) = 0
               /\ \/ committedByUser(v, Profiles \ {p}) + shareOf(plans'[p], v) <= FullAllocationBp
                  \/ role'[p][v] \notin MemberRole
                  \/ isMember(p, v) /\ shareOf(plans'[p], v) = shareOf(plans[p], v)
    <3>1. CASE v = u
      BY <2>1, <2>2, <2>3, <2>4, <3>1
    <3>2. CASE v # u
      BY <2>1, <2>2, <3>2 DEF CapInv, StrangersInv, isMember
    <3>3. QED
      BY <3>1, <3>2
  <2>6. QED
    BY <1>1, <2>1, <2>5, CapStep
<1>6. ASSUME NEW p \in Profiles, NEW u \in Users, NEW allocations \in Allocations,
             Redistribute(p, u, allocations)
      PROVE  CapInv'
  <2>1. /\ role' = role /\ \A q \in Profiles : q # p => plans'[q] = plans[q]
        /\ plans'[p] = Append(plans[p], allocations)
    BY <1>6 DEF Redistribute, membershipVars, IInv, ShapeInv
  <2>2. \A v \in Users :
          shareOf(plans'[p], v) = IF v \in DOMAIN allocations THEN allocations[v] ELSE 0
    BY <1>2, <2>1, ShareInAppended
  <2>3. \A v \in DOMAIN allocations :
          /\ role[p][v] \in MemberRole
          /\ committedByUser(v, Profiles \ {p}) + allocations[v] <= FullAllocationBp
    BY <1>6 DEF Redistribute, isMember, checkAllocationWithinCap
  <2>4. ASSUME NEW v \in Users
        PROVE  /\ role'[p][v] = "NONE" => shareOf(plans'[p], v) = 0
               /\ \/ committedByUser(v, Profiles \ {p}) + shareOf(plans'[p], v) <= FullAllocationBp
                  \/ shareOf(plans'[p], v) = 0
    <3>1. CASE v \in DOMAIN allocations
      <4>1. role[p][v] # "NONE"
        BY <2>3, <3>1 DEF MemberRole
      <4>2. QED
        BY <2>1, <2>2, <2>3, <3>1, <4>1
    <3>2. CASE v \notin DOMAIN allocations
      BY <2>2, <3>2
    <3>3. QED
      BY <3>1, <3>2
  <2>5. QED
    BY <1>1, <2>1, <2>4, CapStep
<1>7. ASSUME NEW p \in Profiles, Archive(p) PROVE CapInv'
  BY <1>7, CapStands DEF Archive
<1>8. ASSUME NEW p \in Profiles, NEW u \in Users, NEW amount \in 0..MaxIncome,
             SetDeclaredIncome(p, u, amount)
      PROVE  CapInv'
  BY <1>8, CapStands DEF SetDeclaredIncome, membershipVars
<1>9. ASSUME NEW p \in Profiles, NEW u \in Users, NEW amount \in 1..MaxAmount,
             RecordContribution(p, u, amount)
      PROVE  CapInv'
  BY <1>9, CapStands DEF RecordContribution, membershipVars
<1>10. ASSUME NEW S \in SUBSET Profiles, NEW batch \in [S -> 1..MaxPeriods],
              RolloverForTenant(batch)
       PROVE  CapInv'
  BY <1>10, CapStands DEF RolloverForTenant, membershipVars
<1>11. ASSUME Tick PROVE CapInv'
  BY <1>11, CapStands DEF Tick, membershipVars
<1>12. ASSUME UNCHANGED vars PROVE CapInv'
  BY <1>12, CapStands DEF vars
<1>13. QED
  BY <1>3, <1>4, <1>5, <1>6, <1>7, <1>8, <1>9, <1>10, <1>11, <1>12, ContributionsAssumption
  DEF Next, Rollover

\* A user never commits more than 100% over the profiles the user is a member of.
THEOREM CapRespectedHolds == Spec => []CapRespected
<1>1. IInv /\ CapInv /\ [Next]_vars => CapInv'
  BY NextCapInv
<1>2. CapInv => CapRespected
  BY DEF CapInv
<1>3. QED
  BY <1>1, <1>2, Inductive, InitCapInv, PTL DEF Spec

-----------------------------------------------------------------------------
(* Commands that overlap. *)

\* A period does not announce more than its records.
isHonest(period) == period.reconciled <= poolActual(period)

areHonest(list) == list \in Seq(Period) /\ \A i \in 1..Len(list) : isHonest(list[i])

\* Records are only added.
grows(old, new) ==
  \A i \in 1..Len(old) :
    i \in 1..Len(new) /\ \A u \in Users : old[i].actual[u] <= new[i].actual[u]

\* The period that was read, or that is to be created, is there when the record is
\* committed.
recordFits(t, lists) ==
  \/ t.index \in 1..Len(lists[t.p]) /\ t.fresh = <<>>
  \/ t.index = 0 /\ Len(t.fresh) = 1 /\ areHonest(t.fresh)

\* The total that was read is not above the total at the commit.
rollFits(roll, list) ==
  /\ roll.index \in 1..Len(list)
  /\ roll.total <= poolActual(list[roll.index])
  /\ areHonest(roll.fresh)

\* What is still true of a command that has read, when the others have moved on.
inFlight(t, lists, versions) ==
  \/ t = Idle
  \/ isSetAllocation(t) /\ t.version <= Len(versions[t.p])
  \/ isRedistribute(t)
  \/ isRecord(t) /\ recordFits(t, lists)
  \/ isRollover(t) /\ \A p \in DOMAIN t.rolls : rollFits(t.rolls[p], lists[p])

TxIInv ==
  /\ ShapeInv
  /\ \A p \in Profiles : areHonest(periods[p])
  /\ tx = [w \in Workers |-> tx[w]]
  /\ \A w \in Workers : inFlight(tx[w], periods, plans)

\* What a step may do to the records and the plan versions.
RecordStep ==
  \A p \in Profiles :
    grows(periods[p], periods'[p]) /\ Len(plans[p]) <= Len(plans'[p])

\* More records of each member, more in the pool.
LEMMA PoolGrows ==
  ASSUME NEW old \in [Users -> Nat], NEW new \in [Users -> Nat],
         \A u \in Users : old[u] <= new[u]
  PROVE  SumFunction(old) <= SumFunction(new)
BY SumMonotone, ContributionsAssumption DEF SumFunction

\* A list of periods that nobody writes.
LEMMA GrowsItself == ASSUME NEW list \in Seq(Period) PROVE grows(list, list)
<1>1. ASSUME NEW i \in 1..Len(list), NEW u \in Users
      PROVE  list[i].actual[u] <= list[i].actual[u]
  <2>1. PICK w \in Period : w = list[i]
    BY ElementOfSeq
  <2>2. w.actual[u] \in Nat
    BY PeriodFields
  <2>3. QED
    BY <2>1, <2>2
<1>2. QED
  BY <1>1 DEF grows

\* One period is replaced by one with at least its records.
LEMMA ReplacedGrows ==
  ASSUME NEW list, areHonest(list), NEW i \in 1..Len(list), NEW w \in Period,
         isHonest(w), \A u \in Users : list[i].actual[u] <= w.actual[u]
  PROVE  areHonest([list EXCEPT ![i] = w]) /\ grows(list, [list EXCEPT ![i] = w])
<1>1. list \in Seq(Period)
  BY DEF areHonest
<1>2. PICK new \in Seq(Period) : new = [list EXCEPT ![i] = w]
  BY <1>1, ExceptSeq
<1>3. /\ Len(new) = Len(list) /\ new[i] = w
      /\ \A j \in 1..Len(list) : j # i => new[j] = list[j]
  BY <1>1, <1>2, ExceptSeq
<1>4. areHonest(new)
  BY <1>3 DEF areHonest
<1>5. grows(list, new)
  BY <1>1, <1>3, GrowsItself DEF grows
<1>6. QED
  BY <1>2, <1>4, <1>5

\* Periods are added at the end.
LEMMA ConcatGrows ==
  ASSUME NEW list, areHonest(list), NEW fresh, areHonest(fresh)
  PROVE  /\ areHonest(list \o fresh) /\ grows(list, list \o fresh)
         /\ Len(list \o fresh) = Len(list) + Len(fresh)
<1>1. list \in Seq(Period) /\ fresh \in Seq(Period)
  BY DEF areHonest
<1>2. PICK m \in Nat : m = Len(list)
  BY <1>1
<1>3. PICK n \in Nat : n = Len(fresh)
  BY <1>1
<1>4. PICK new \in Seq(Period) : new = list \o fresh
  BY <1>1, ConcatProperties
<1>5. /\ Len(new) = m + n /\ \A i \in 1..m : new[i] = list[i]
      /\ \A i \in 1..(m + n) : i > m => new[i] = fresh[i - m]
  BY <1>1, <1>2, <1>3, <1>4, ConcatProperties
<1>6. areHonest(new)
  <2>1. ASSUME NEW i \in 1..(m + n) PROVE isHonest(new[i])
    <3>1. CASE i <= m
      BY <1>2, <1>5, <3>1 DEF areHonest
    <3>2. CASE i > m
      <4>1. i - m \in 1..n /\ new[i] = fresh[i - m]
        BY <1>5, <3>2
      <4>2. QED
        BY <1>3, <4>1 DEF areHonest
    <3>3. QED
      BY <3>1, <3>2
  <2>2. QED
    BY <1>5, <2>1 DEF areHonest
<1>7. grows(list, new)
  BY <1>1, <1>2, <1>5, GrowsItself DEF grows
<1>8. QED
  BY <1>2, <1>3, <1>4, <1>5, <1>6, <1>7

\* First the one, then the other.
LEMMA GrowsFurther ==
  ASSUME NEW a \in Seq(Period), NEW b \in Seq(Period), NEW c \in Seq(Period),
         grows(a, b), grows(b, c)
  PROVE  grows(a, c)
<1>1. ASSUME NEW i \in 1..Len(a), NEW u \in Users
      PROVE  i \in 1..Len(c) /\ a[i].actual[u] <= c[i].actual[u]
  <2>1. i \in 1..Len(b) /\ i \in 1..Len(c)
    BY DEF grows
  <2>2. /\ a[i].actual[u] <= b[i].actual[u]
        /\ b[i].actual[u] <= c[i].actual[u]
    BY <2>1 DEF grows
  <2>3. a[i] \in Period /\ b[i] \in Period /\ c[i] \in Period
    BY <2>1, ElementOfSeq
  <2>4. a[i].actual[u] \in Nat /\ b[i].actual[u] \in Nat /\ c[i].actual[u] \in Nat
    BY <2>3, PeriodFields
  <2>5. QED
    BY <2>1, <2>2, <2>4
<1>2. QED
  BY <1>1 DEF grows

\* A record makes its period's pool larger.
LEMMA RecordGrows ==
  ASSUME NEW list, areHonest(list), NEW i \in 1..Len(list), NEW u \in Users,
         NEW amount \in Nat
  PROVE  /\ areHonest(createRecord(list, i, u, amount))
         /\ grows(list, createRecord(list, i, u, amount))
<1>1. PICK w \in Period : w = list[i]
  BY ElementOfSeq DEF areHonest
<1>2. PICK paid \in Nat : paid = w.actual[u] + amount
  BY PeriodFields
<1>3. PICK actual \in [Users -> Nat] : actual = [w.actual EXCEPT ![u] = paid]
  BY PeriodFields
<1>4. PICK more : more = [w EXCEPT !.actual = actual]
  OBVIOUS
<1>5. /\ more \in Period /\ more.actual = actual /\ more.reconciled = w.reconciled
  BY <1>3, <1>4, Zenon DEF Period
<1>6. \A v \in Users : w.actual[v] \in Nat /\ w.actual[v] <= actual[v]
  BY <1>2, <1>3, PeriodFields
<1>7. isHonest(more)
  <2>1. w.actual \in [Users -> Nat] /\ w.reconciled \in Nat
    BY DEF Period
  <2>2. SumFunction(w.actual) <= SumFunction(actual)
    BY <1>6, <2>1, PoolGrows
  <2>3. SumFunction(w.actual) \in Nat /\ SumFunction(actual) \in Nat
    BY <2>1, PoolType
  <2>4. w.reconciled <= SumFunction(w.actual)
    BY <1>1 DEF areHonest, isHonest, poolActual
  <2>5. QED
    BY <1>5, <2>1, <2>2, <2>3, <2>4 DEF isHonest, poolActual
<1>8. createRecord(list, i, u, amount) = [list EXCEPT ![i] = more]
  <2>1. list \in Seq(Period)
    BY DEF areHonest
  <2>2. QED
    BY <1>1, <1>2, <1>3, <1>4, <2>1 DEF createRecord
<1>9. areHonest([list EXCEPT ![i] = more]) /\ grows(list, [list EXCEPT ![i] = more])
  BY <1>1, <1>5, <1>6, <1>7, ReplacedGrows
<1>10. QED
  BY <1>8, <1>9

\* A rollover adds a period and writes no record.
LEMMA RollGrows ==
  ASSUME NEW list, areHonest(list), NEW roll \in Roll, rollFits(roll, list)
  PROVE  LET new == [list EXCEPT ![roll.index] = closeAs(list[roll.index], roll.total)]
                      \o roll.fresh
         IN  areHonest(new) /\ grows(list, new)
<1>1. PICK i \in 1..Len(list) : i = roll.index
  BY DEF rollFits
<1>2. PICK total \in Nat : total = roll.total
  BY DEF Roll
<1>3. PICK w \in Period : w = list[i]
  BY <1>1, ElementOfSeq DEF areHonest
<1>4. PICK last : last = closeAs(w, total)
  OBVIOUS
<1>5. last \in Period /\ last.actual = w.actual /\ last.reconciled = total
  <2>1. "CLOSED" \in {"OPEN", "CLOSED"}
    OBVIOUS
  <2>2. QED
    BY <1>2, <1>4, <2>1, Zenon DEF closeAs, Period
<1>6. isHonest(last)
  BY <1>1, <1>2, <1>3, <1>5 DEF isHonest, poolActual, rollFits
<1>7. \A u \in Users : w.actual[u] <= last.actual[u]
  BY <1>5, PeriodFields
<1>8. PICK closing : closing = [list EXCEPT ![i] = last]
  OBVIOUS
<1>9. areHonest(closing) /\ grows(list, closing)
  BY <1>3, <1>5, <1>6, <1>7, <1>8, ReplacedGrows
<1>10. areHonest(roll.fresh)
  BY DEF rollFits
<1>11. areHonest(closing \o roll.fresh) /\ grows(closing, closing \o roll.fresh)
  BY <1>9, <1>10, ConcatGrows
<1>12. grows(list, closing \o roll.fresh)
  <2>1. /\ list \in Seq(Period) /\ closing \in Seq(Period)
        /\ closing \o roll.fresh \in Seq(Period)
    BY <1>9, <1>11 DEF areHonest
  <2>2. QED
    BY <1>9, <1>11, <2>1, GrowsFurther
<1>13. closing = [list EXCEPT ![roll.index] = closeAs(list[roll.index], roll.total)]
  BY <1>1, <1>2, <1>3, <1>4, <1>8
<1>14. QED
  BY <1>11, <1>12, <1>13, Zenon

\* What a command has read stays true while periods and plans grow.
LEMMA StaysInFlight ==
  ASSUME NEW lists, NEW later, NEW versions, NEW more, NEW t, inFlight(t, lists, versions),
         \A p \in Profiles : /\ areHonest(lists[p]) /\ areHonest(later[p])
                             /\ grows(lists[p], later[p])
                             /\ Len(versions[p]) \in Nat /\ Len(more[p]) \in Nat
                             /\ Len(versions[p]) <= Len(more[p])
  PROVE  inFlight(t, later, more)
<1>1. CASE isSetAllocation(t) /\ t.version <= Len(versions[t.p])
  <2>1. t.p \in Profiles /\ t.version \in Nat
    BY <1>1 DEF isSetAllocation
  <2>2. PICK p \in Profiles : p = t.p
    BY <2>1
  <2>3. t.version <= Len(more[p])
    BY <1>1, <2>1, <2>2
  <2>4. QED
    BY <1>1, <2>2, <2>3 DEF inFlight
<1>2. CASE isRecord(t) /\ recordFits(t, lists)
  <2>1. PICK p \in Profiles : p = t.p
    BY <1>2 DEF isRecord
  <2>2. t.index \in 1..Len(lists[p]) => t.index \in 1..Len(later[p])
    BY DEF grows
  <2>3. recordFits(t, later)
    BY <1>2, <2>1, <2>2 DEF recordFits
  <2>4. QED
    BY <1>2, <2>3 DEF inFlight
<1>3. CASE isRollover(t) /\ \A p \in DOMAIN t.rolls : rollFits(t.rolls[p], lists[p])
  <2>1. ASSUME NEW p \in DOMAIN t.rolls PROVE rollFits(t.rolls[p], later[p])
    <3>1. PICK roll \in Roll : roll = t.rolls[p]
      BY <1>3 DEF isRollover
    <3>2. p \in Profiles
      BY <1>3 DEF isRollover
    <3>3. PICK old \in Seq(Period) : old = lists[p]
      BY <3>2 DEF areHonest
    <3>4. PICK new \in Seq(Period) : new = later[p]
      BY <3>2 DEF areHonest
    <3>5. grows(old, new) /\ rollFits(roll, old)
      BY <1>3, <3>1, <3>2, <3>3, <3>4
    <3>6. PICK i \in 1..Len(old) : i = roll.index
      BY <3>5 DEF rollFits
    <3>7. i \in 1..Len(new) /\ \A u \in Users : old[i].actual[u] <= new[i].actual[u]
      BY <3>5 DEF grows
    <3>8. /\ old[i].actual \in [Users -> Nat] /\ new[i].actual \in [Users -> Nat]
      BY <3>7, ElementOfSeq, PeriodFields
    <3>9. poolActual(old[i]) <= poolActual(new[i])
      BY <3>7, <3>8, PoolGrows DEF poolActual
    <3>10. /\ poolActual(old[i]) \in Nat /\ poolActual(new[i]) \in Nat /\ roll.total \in Nat
      BY <3>8, PoolType DEF poolActual, Roll
    <3>11. rollFits(roll, new)
      BY <3>5, <3>6, <3>7, <3>9, <3>10 DEF rollFits
    <3>12. QED
      BY <3>1, <3>4, <3>11
  <2>2. QED
    BY <1>3, <2>1 DEF inFlight
<1>4. QED
  BY <1>1, <1>2, <1>3 DEF inFlight

\* A step that adds periods, records and plan versions, and in which at most one worker
\* begins or ends, leaves the other workers where they are.
LEMMA TxStep ==
  ASSUME TxIInv, ShapeInv',
         \A p \in Profiles : /\ areHonest(periods'[p]) /\ grows(periods[p], periods'[p])
                             /\ Len(plans[p]) <= Len(plans'[p]),
         \/ tx' = tx
         \/ \E w \in Workers : \E t : /\ tx' = [tx EXCEPT ![w] = t]
                                      /\ inFlight(t, periods', plans')
  PROVE  TxIInv' /\ RecordStep
<1>1. \A p \in Profiles : /\ areHonest(periods[p])
                          /\ Len(plans[p]) \in Nat /\ Len(plans'[p]) \in Nat
  BY DEF TxIInv, ShapeInv
<1>2. ASSUME NEW w \in Workers PROVE inFlight(tx[w], periods', plans')
  <2>1. PICK t : t = tx[w]
    OBVIOUS
  <2>2. inFlight(t, periods, plans)
    BY <2>1 DEF TxIInv
  <2>3. PICK lists : lists = periods
    OBVIOUS
  <2>4. PICK later : later = periods'
    OBVIOUS
  <2>5. PICK versions : versions = plans
    OBVIOUS
  <2>6. PICK more : more = plans'
    OBVIOUS
  <2>7. inFlight(t, later, more)
    BY <1>1, <2>2, <2>3, <2>4, <2>5, <2>6, StaysInFlight
  <2>8. QED
    BY <2>1, <2>4, <2>6, <2>7
<1>3. /\ tx' = [w \in Workers |-> tx'[w]]
      /\ \A w \in Workers : inFlight(tx'[w], periods', plans')
  BY <1>2 DEF TxIInv
<1>4. QED
  BY <1>3 DEF TxIInv, RecordStep

\* A command that has read, or one that is done: nothing is stored.
LEMMA TxOnly ==
  ASSUME TxIInv, UNCHANGED stored, NEW w \in Workers, NEW t,
         tx' = [tx EXCEPT ![w] = t], inFlight(t, periods, plans)
  PROVE  TxIInv' /\ RecordStep
<1>1. /\ periods' = periods /\ plans' = plans
  BY DEF stored, vars
<1>2. ShapeInv'
  BY DEF stored, vars, TxIInv, ShapeInv
<1>3. inFlight(t, periods', plans')
  BY <1>1
<1>4. \A p \in Profiles : /\ areHonest(periods'[p]) /\ grows(periods[p], periods'[p])
                          /\ Len(plans[p]) <= Len(plans'[p])
  BY <1>1, GrowsItself DEF TxIInv, ShapeInv, areHonest
<1>5. QED
  BY <1>2, <1>3, <1>4, TxStep

\* Only plans are written, and not fewer than there were.
LEMMA TxPlans ==
  ASSUME TxIInv, UNCHANGED <<membershipVars, income, periods, clock>>,
         NEW w \in Workers, tx' = [tx EXCEPT ![w] = Idle],
         NEW p \in Profiles, NEW list \in Seq(Allocations), Len(plans[p]) <= Len(list),
         plans' = [plans EXCEPT ![p] = list]
  PROVE  TxIInv' /\ RecordStep
<1>1. ShapeInv'
  BY DEF membershipVars, TxIInv, ShapeInv
<1>2. inFlight(Idle, periods', plans')
  BY DEF inFlight
<1>3. \A q \in Profiles : /\ areHonest(periods'[q]) /\ grows(periods[q], periods'[q])
                          /\ Len(plans[q]) <= Len(plans'[q])
  BY GrowsItself DEF TxIInv, ShapeInv, areHonest
<1>4. QED
  BY <1>1, <1>2, <1>3, TxStep

\* Only periods are written, and each profile's grow.
LEMMA TxPeriods ==
  ASSUME TxIInv, UNCHANGED <<membershipVars, income, plans, clock>>,
         NEW w \in Workers, tx' = [tx EXCEPT ![w] = Idle],
         periods' = [p \in Profiles |-> periods'[p]],
         \A p \in Profiles : areHonest(periods'[p]) /\ grows(periods[p], periods'[p])
  PROVE  TxIInv' /\ RecordStep
<1>1. ShapeInv'
  BY DEF membershipVars, TxIInv, ShapeInv, areHonest
<1>2. inFlight(Idle, periods', plans')
  BY DEF inFlight
<1>3. \A q \in Profiles : Len(plans[q]) <= Len(plans'[q])
  BY DEF TxIInv, ShapeInv
<1>4. QED
  BY <1>1, <1>2, <1>3, TxStep

\* Neither commands nor their rows are touched.
LEMMA TxSurroundings ==
  ASSUME TxIInv, ShapeInv', UNCHANGED <<periods, plans, tx>>
  PROVE  TxIInv' /\ RecordStep
<1>1. \A q \in Profiles : /\ areHonest(periods'[q]) /\ grows(periods[q], periods'[q])
                          /\ Len(plans[q]) <= Len(plans'[q])
  BY GrowsItself DEF TxIInv, ShapeInv, areHonest
<1>2. QED
  BY <1>1, TxStep

\* A new period announces nothing.
LEMMA NewPeriodIsHonest ==
  ASSUME ShapeInv, NEW p \in Profiles, NEW start \in Nat
  PROVE  areHonest(<<newPeriod(p, start)>>)
<1>1. PICK w \in Period : w = newPeriod(p, start) /\ w.reconciled = 0
  BY NewPeriodIs
<1>2. poolActual(w) \in Nat
  BY PeriodFields, PoolType DEF poolActual
<1>3. <<w>> \in Seq(Period) /\ Len(<<w>>) = 1 /\ <<w>>[1] = w
  OBVIOUS
<1>4. areHonest(<<w>>)
  BY <1>1, <1>2, <1>3 DEF areHonest, isHonest
<1>5. QED
  BY <1>1, <1>4

\* What a command reads is true when it reads it.
LEMMA BeginIInv == ASSUME TxIInv, NEW w \in Workers, Begin(w) PROVE TxIInv' /\ RecordStep
<1>1. ShapeInv /\ \A p \in Profiles : /\ periods[p] \in Seq(Period)
                                      /\ Len(plans[p]) \in Nat
                                      /\ DOMAIN periods[p] = 1..Len(periods[p])
  BY DEF TxIInv, ShapeInv
<1>2. ASSUME NEW p \in Profiles, NEW u \in Users, NEW bp \in 0..FullAllocationBp,
             BeginSetAllocation(w, p, u, bp)
      PROVE  TxIInv' /\ RecordStep
  <2>1. PICK t : t = [cmd |-> "setAllocation", p |-> p, u |-> u, bp |-> bp,
                      version |-> currentVersion(p)]
    OBVIOUS
  <2>2. tx' = [tx EXCEPT ![w] = t] /\ UNCHANGED stored
    BY <1>2, <2>1 DEF BeginSetAllocation, begin
  <2>3. isSetAllocation(t) /\ t.version <= Len(plans[t.p])
    BY <1>1, <2>1 DEF isSetAllocation, currentVersion
  <2>4. QED
    BY <2>2, <2>3, TxOnly DEF inFlight
<1>3. ASSUME NEW p \in Profiles, NEW u \in Users, NEW allocations \in Allocations,
             BeginRedistribute(w, p, u, allocations)
      PROVE  TxIInv' /\ RecordStep
  <2>1. PICK t : t = [cmd |-> "redistribute", p |-> p, allocations |-> allocations,
                      version |-> currentVersion(p)]
    OBVIOUS
  <2>2. tx' = [tx EXCEPT ![w] = t] /\ UNCHANGED stored
    BY <1>3, <2>1 DEF BeginRedistribute, begin
  <2>3. isRedistribute(t)
    BY <1>1, <2>1 DEF isRedistribute, currentVersion
  <2>4. QED
    BY <2>2, <2>3, TxOnly DEF inFlight
<1>4. ASSUME NEW p \in Profiles, NEW u \in Users, NEW amount \in 1..MaxAmount,
             BeginRecord(w, p, u, amount)
      PROVE  TxIInv' /\ RecordStep
  <2>1. PICK i \in IF latestOpen(periods[p]) = {} THEN {0} ELSE latestOpen(periods[p]) :
          begin(w, [cmd |-> "recordContribution", p |-> p, u |-> u, amount |-> amount,
                    index |-> i,
                    fresh |-> IF i = 0 THEN <<newPeriod(p, clock)>> ELSE <<>>])
    BY <1>4 DEF BeginRecord
  <2>2. i = 0 \/ i \in 1..Len(periods[p])
    BY <1>1, <2>1 DEF latestOpen
  <2>3. PICK fresh : fresh = IF i = 0 THEN <<newPeriod(p, clock)>> ELSE <<>>
    OBVIOUS
  <2>4. PICK t : t = [cmd |-> "recordContribution", p |-> p, u |-> u, amount |-> amount,
                      index |-> i, fresh |-> fresh]
    OBVIOUS
  <2>5. tx' = [tx EXCEPT ![w] = t] /\ UNCHANGED stored
    BY <2>1, <2>3, <2>4 DEF begin
  <2>6. areHonest(<<newPeriod(p, clock)>>)
    BY <1>1, NewPeriodIsHonest DEF ShapeInv
  <2>7. /\ fresh \in Seq(Period) /\ i \in Nat /\ amount \in Nat \ {0}
        /\ \/ i \in 1..Len(periods[p]) /\ fresh = <<>>
           \/ i = 0 /\ Len(fresh) = 1 /\ areHonest(fresh)
    <3>1. amount \in Nat \ {0}
      BY ContributionsAssumption
    <3>2. CASE i = 0
      <4>1. fresh = <<newPeriod(p, clock)>>
        BY <2>3, <3>2
      <4>2. areHonest(fresh) /\ Len(fresh) = 1
        BY <2>6, <4>1
      <4>3. QED
        BY <3>1, <3>2, <4>2 DEF areHonest
    <3>3. CASE i # 0
      BY <2>2, <2>3, <3>1, <3>3
    <3>4. QED
      BY <3>2, <3>3
  <2>8. isRecord(t)
    BY <2>4, <2>7 DEF isRecord
  <2>9. recordFits(t, periods)
    BY <2>4, <2>7 DEF recordFits
  <2>10. QED
    BY <2>5, <2>8, <2>9, TxOnly DEF inFlight
<1>5. ASSUME NEW S \in SUBSET Profiles, NEW batch \in [S -> 1..MaxPeriods],
             BeginRollover(w, batch)
      PROVE  TxIInv' /\ RecordStep
  <2>1. PICK rolls : rolls = [p \in S |-> rollOf(p, batch[p])]
    OBVIOUS
  <2>2. PICK t : t = [cmd |-> "rollover", rolls |-> rolls]
    OBVIOUS
  <2>3. DOMAIN batch = S
    OBVIOUS
  <2>4. tx' = [tx EXCEPT ![w] = t] /\ UNCHANGED stored
    BY <1>5, <2>1, <2>2, <2>3 DEF BeginRollover, begin
  <2>5. ASSUME NEW p \in S PROVE rolls[p] \in Roll /\ rollFits(rolls[p], periods[p])
    <3>1. PICK i \in 1..Len(periods[p]) : i = batch[p]
      BY <1>1, <1>5, <2>3 DEF BeginRollover
    <3>2. PICK v \in Period : v = periods[p][i]
      BY <1>1, ElementOfSeq
    <3>3. PICK total \in Nat : total = poolActual(v)
      BY PeriodFields, PoolType DEF poolActual
    <3>4. PICK fresh : fresh = IF p \in archived THEN <<>> ELSE <<newPeriod(p, v.endDate)>>
      OBVIOUS
    <3>5. areHonest(fresh)
      <4>1. CASE p \in archived
        BY <3>4, <4>1 DEF areHonest
      <4>2. CASE p \notin archived
        <5>1. areHonest(<<newPeriod(p, v.endDate)>>)
          BY <1>1, PeriodFields, NewPeriodIsHonest
        <5>2. QED
          BY <3>4, <4>2, <5>1
      <4>3. QED
        BY <4>1, <4>2
    <3>6. rolls[p] = [index |-> i, total |-> total, fresh |-> fresh]
      BY <2>1, <3>1, <3>2, <3>3, <3>4 DEF rollOf
    <3>7. fresh \in Seq(Period) /\ i \in Nat \ {0}
      BY <3>5 DEF areHonest
    <3>8. QED
      BY <3>2, <3>3, <3>5, <3>6, <3>7 DEF Roll, rollFits
  <2>6. isRollover(t) /\ DOMAIN t.rolls = S
    BY <2>1, <2>2, <2>5 DEF isRollover
  <2>7. inFlight(t, periods, plans)
    BY <2>2, <2>5, <2>6 DEF inFlight
  <2>8. QED
    BY <2>4, <2>7, TxOnly
<1>6. QED
  BY <1>2, <1>3, <1>4, <1>5 DEF Begin

\* The kind of a command.
LEMMA KindOf ==
  ASSUME NEW t, NEW lists, NEW versions, inFlight(t, lists, versions)
  PROVE  /\ t.cmd = "setAllocation" =>
              isSetAllocation(t) /\ t.version <= Len(versions[t.p])
         /\ t.cmd = "redistribute" => isRedistribute(t)
         /\ t.cmd = "recordContribution" => isRecord(t) /\ recordFits(t, lists)
         /\ t.cmd = "rollover" =>
              /\ isRollover(t)
              /\ \A p \in DOMAIN t.rolls : rollFits(t.rolls[p], lists[p])
<1>1. /\ Idle.cmd = "idle"
      /\ isSetAllocation(t) => t.cmd = "setAllocation"
      /\ isRedistribute(t) => t.cmd = "redistribute"
      /\ isRecord(t) => t.cmd = "recordContribution"
      /\ isRollover(t) => t.cmd = "rollover"
  BY DEF Idle, isSetAllocation, isRedistribute, isRecord, isRollover
<1>2. QED
  BY <1>1 DEF inFlight

\* The kind of a command in flight.
LEMMA Kinds ==
  ASSUME TxIInv, NEW w \in Workers
  PROVE  /\ tx[w].cmd = "setAllocation" =>
              isSetAllocation(tx[w]) /\ tx[w].version <= Len(plans[tx[w].p])
         /\ tx[w].cmd = "redistribute" => isRedistribute(tx[w])
         /\ tx[w].cmd = "recordContribution" => isRecord(tx[w]) /\ recordFits(tx[w], periods)
         /\ tx[w].cmd = "rollover" =>
              /\ isRollover(tx[w])
              /\ \A p \in DOMAIN tx[w].rolls : rollFits(tx[w].rolls[p], periods[p])
<1>1. PICK t : t = tx[w]
  OBVIOUS
<1>2. inFlight(t, periods, plans)
  BY <1>1 DEF TxIInv
<1>3. QED
  BY <1>1, <1>2, KindOf

\* The allocation goes to the version that was read.
LEMMA CommitSetAllocationIInv ==
  ASSUME TxIInv, NEW w \in Workers, CommitSetAllocation(w)
  PROVE  TxIInv' /\ RecordStep
<1>1. PICK t : t = tx[w]
  OBVIOUS
<1>2. isSetAllocation(t) /\ t.version <= Len(plans[t.p])
  BY <1>1, Kinds DEF CommitSetAllocation, commit
<1>3. PICK p \in Profiles : p = t.p
  BY <1>2 DEF isSetAllocation
<1>4. PICK u \in Users : u = t.u
  BY <1>2 DEF isSetAllocation
<1>5. PICK bp \in 0..FullAllocationBp : bp = t.bp
  BY <1>2 DEF isSetAllocation
<1>6. PICK version \in Nat : version = t.version
  BY <1>2 DEF isSetAllocation
<1>7. PICK old \in Seq(Allocations) : old = plans[p]
  BY DEF TxIInv, ShapeInv
<1>8. PICK list : list = inPlan(old, version, u, bp)
  OBVIOUS
<1>9. /\ UNCHANGED <<membershipVars, income, periods, clock>>
      /\ tx' = [tx EXCEPT ![w] = Idle]
      /\ version = 0 => old = <<>>
      /\ plans' = [plans EXCEPT ![p] = list]
  BY <1>1, <1>3, <1>4, <1>5, <1>6, <1>7, <1>8
  DEF CommitSetAllocation, commit, TxIInv, ShapeInv
<1>10. list \in Seq(Allocations) /\ Len(old) <= Len(list)
  <2>1. CASE version = 0
    <3>1. PICK plan \in Allocations : plan = [v \in {u} |-> bp]
      BY FirstIs
    <3>2. list = <<plan>>
      BY <1>8, <2>1, <3>1 DEF inPlan
    <3>3. <<plan>> \in Seq(Allocations) /\ Len(<<plan>>) = 1 /\ Len(old) = 0
      BY <1>9, <2>1
    <3>4. QED
      BY <3>2, <3>3
  <2>2. CASE version # 0
    <3>1. PICK n \in 1..Len(old) : n = version
      BY <1>2, <1>3, <1>6, <1>7, <2>2
    <3>2. PICK plan \in Allocations : plan = upsertAllocation(old[n], u, bp)
      BY <3>1, ElementOfSeq, UpsertedIs
    <3>3. list = [old EXCEPT ![n] = plan]
      BY <1>8, <2>2, <3>1, <3>2 DEF inPlan
    <3>4. QED
      BY <3>3, ExceptSeq
  <2>3. QED
    BY <2>1, <2>2
<1>11. QED
  BY <1>7, <1>9, <1>10, TxPlans

\* The redistribution is the next version.
LEMMA CommitRedistributeIInv ==
  ASSUME TxIInv, NEW w \in Workers, CommitRedistribute(w)
  PROVE  TxIInv' /\ RecordStep
<1>1. PICK t : t = tx[w]
  OBVIOUS
<1>2. isRedistribute(t)
  BY <1>1, Kinds DEF CommitRedistribute, commit
<1>3. PICK p \in Profiles : p = t.p
  BY <1>2 DEF isRedistribute
<1>4. PICK plan \in Allocations : plan = t.allocations
  BY <1>2 DEF isRedistribute
<1>5. PICK old \in Seq(Allocations) : old = plans[p]
  BY DEF TxIInv, ShapeInv
<1>6. PICK list : list = Append(old, plan)
  OBVIOUS
<1>7. /\ UNCHANGED <<membershipVars, income, periods, clock>>
      /\ tx' = [tx EXCEPT ![w] = Idle]
      /\ plans' = [plans EXCEPT ![p] = list]
  BY <1>1, <1>3, <1>4, <1>5, <1>6 DEF CommitRedistribute, commit, TxIInv, ShapeInv
<1>8. list \in Seq(Allocations) /\ Len(old) <= Len(list)
  BY <1>6, AppendProperties
<1>9. QED
  BY <1>5, <1>7, <1>8, TxPlans

\* The record goes to the period that was read, or to one of its own.
LEMMA CommitRecordIInv ==
  ASSUME TxIInv, NEW w \in Workers, CommitRecord(w)
  PROVE  TxIInv' /\ RecordStep
<1>1. PICK t : t = tx[w]
  OBVIOUS
<1>2. isRecord(t) /\ recordFits(t, periods)
  BY <1>1, Kinds DEF CommitRecord, commit
<1>3. PICK p \in Profiles : p = t.p
  BY <1>2 DEF isRecord
<1>4. PICK u \in Users : u = t.u
  BY <1>2 DEF isRecord
<1>5. PICK amount \in Nat : amount = t.amount
  BY <1>2 DEF isRecord
<1>6. PICK fresh \in Seq(Period) : fresh = t.fresh
  BY <1>2 DEF isRecord
<1>7. PICK old \in Seq(Period) : old = periods[p] /\ areHonest(old)
  BY DEF TxIInv, areHonest
<1>8. PICK list : list = old \o fresh
  OBVIOUS
<1>9. PICK i : i = IF t.index = 0 THEN Len(list) ELSE t.index
  OBVIOUS
<1>10. PICK new : new = createRecord(list, i, u, amount)
  OBVIOUS
<1>11. /\ UNCHANGED <<membershipVars, income, plans, clock>>
       /\ tx' = [tx EXCEPT ![w] = Idle]
       /\ periods' = [periods EXCEPT ![p] = new]
  BY <1>1, <1>3, <1>4, <1>5, <1>6, <1>7, <1>8, <1>9, <1>10 DEF CommitRecord, commit
<1>12. areHonest(fresh)
  BY <1>2, <1>6 DEF recordFits, areHonest
<1>13. areHonest(list) /\ grows(old, list) /\ Len(list) = Len(old) + Len(fresh)
  BY <1>7, <1>8, <1>12, ConcatGrows
<1>14. i \in 1..Len(list)
  <2>1. CASE t.index \in 1..Len(old) /\ fresh = <<>>
    BY <1>9, <1>13, <2>1
  <2>2. CASE t.index = 0 /\ Len(fresh) = 1
    BY <1>9, <1>13, <2>2
  <2>3. QED
    BY <1>2, <1>3, <1>6, <1>7, <2>1, <2>2 DEF recordFits
<1>15. areHonest(new) /\ grows(list, new)
  BY <1>10, <1>13, <1>14, RecordGrows
<1>16. grows(old, new)
  <2>1. list \in Seq(Period) /\ new \in Seq(Period)
    BY <1>13, <1>15 DEF areHonest
  <2>2. QED
    BY <1>13, <1>15, <2>1, GrowsFurther
<1>17. \A q \in Profiles : periods'[q] = IF q = p THEN new ELSE periods[q]
  BY <1>11 DEF TxIInv, ShapeInv
<1>18. ASSUME NEW q \in Profiles PROVE areHonest(periods'[q]) /\ grows(periods[q], periods'[q])
  BY <1>7, <1>15, <1>16, <1>17, GrowsItself DEF TxIInv, areHonest
<1>19. periods' = [q \in Profiles |-> periods'[q]]
  BY <1>11 DEF TxIInv, ShapeInv
<1>20. QED
  BY <1>11, <1>18, <1>19, TxPeriods

\* The periods that were read are closed with the totals that were read.
LEMMA CommitRolloverIInv ==
  ASSUME TxIInv, NEW w \in Workers, CommitRollover(w)
  PROVE  TxIInv' /\ RecordStep
<1>1. PICK t : t = tx[w]
  OBVIOUS
<1>2. isRollover(t) /\ \A p \in DOMAIN t.rolls : rollFits(t.rolls[p], periods[p])
  BY <1>1, Kinds DEF CommitRollover, commit
<1>3. PICK rolls : rolls = t.rolls
  OBVIOUS
<1>4. \A p \in DOMAIN rolls : rolls[p] \in Roll /\ rollFits(rolls[p], periods[p])
  BY <1>2, <1>3 DEF isRollover
<1>5. /\ UNCHANGED <<membershipVars, income, plans, clock>>
      /\ tx' = [tx EXCEPT ![w] = Idle]
      /\ periods' =
           [p \in Profiles |->
              IF p \in DOMAIN rolls
              THEN [periods[p] EXCEPT
                      ![rolls[p].index] = closeAs(periods[p][rolls[p].index], rolls[p].total)]
                     \o rolls[p].fresh
              ELSE periods[p]]
  BY <1>1, <1>3 DEF CommitRollover, commit
<1>6. ASSUME NEW p \in Profiles PROVE areHonest(periods'[p]) /\ grows(periods[p], periods'[p])
  <2>1. PICK old \in Seq(Period) : old = periods[p] /\ areHonest(old)
    BY DEF TxIInv, areHonest
  <2>2. CASE p \in DOMAIN rolls
    <3>1. PICK roll \in Roll : roll = rolls[p] /\ rollFits(roll, old)
      BY <1>4, <2>1, <2>2
    <3>2. periods'[p] =
            [old EXCEPT ![roll.index] = closeAs(old[roll.index], roll.total)] \o roll.fresh
      BY <1>5, <2>1, <2>2, <3>1
    <3>3. QED
      BY <2>1, <3>1, <3>2, RollGrows
  <2>3. CASE p \notin DOMAIN rolls
    BY <1>5, <2>1, <2>3, GrowsItself
  <2>4. QED
    BY <2>2, <2>3
<1>7. periods' = [p \in Profiles |-> periods'[p]]
  BY <1>5
<1>8. QED
  BY <1>5, <1>6, <1>7, TxPeriods

\* There is nothing yet, and nobody has read anything.
LEMMA TxInitIInv == TxInit => TxIInv
<1> SUFFICES ASSUME TxInit PROVE TxIInv
  OBVIOUS
<1>1. ShapeInv
  BY InitIInv DEF TxInit, IInv
<1>2. ASSUME NEW p \in Profiles PROVE areHonest(periods[p])
  BY DEF TxInit, Init, areHonest
<1>3. QED
  BY <1>1, <1>2 DEF TxInit, TxIInv, inFlight

\* Every step keeps what is true of the commands in flight, and the records.
LEMMA TxNextIInv == ASSUME TxIInv, [TxNext]_txVars PROVE TxIInv' /\ RecordStep
<1>1. ASSUME NEW w \in Workers, Rollback(w) PROVE TxIInv' /\ RecordStep
  BY <1>1, TxOnly DEF Rollback, inFlight
<1>2. ASSUME Surroundings, UNCHANGED tx PROVE TxIInv' /\ RecordStep
  <2>1. ASSUME NEW p \in Profiles, NEW u \in Users, NEW r \in Roles, Join(p, u, r)
        PROVE  ShapeInv' /\ UNCHANGED <<periods, plans>>
    BY <2>1, ContributionsAssumption DEF Join, TxIInv, ShapeInv
  <2>2. ASSUME NEW p \in Profiles, NEW u \in Users, Leave(p, u)
        PROVE  ShapeInv' /\ UNCHANGED <<periods, plans>>
    BY <2>2 DEF Leave, TxIInv, ShapeInv
  <2>3. ASSUME NEW p \in Profiles, Archive(p)
        PROVE  ShapeInv' /\ UNCHANGED <<periods, plans>>
    BY <2>3 DEF Archive, TxIInv, ShapeInv
  <2>4. ASSUME Tick PROVE ShapeInv' /\ UNCHANGED <<periods, plans>>
    BY <2>4 DEF Tick, membershipVars, TxIInv, ShapeInv
  <2>5. ShapeInv' /\ UNCHANGED <<periods, plans, tx>>
    BY <1>2, <2>1, <2>2, <2>3, <2>4 DEF Surroundings
  <2>6. QED
    BY <2>5, TxSurroundings
<1>3. ASSUME UNCHANGED txVars PROVE TxIInv' /\ RecordStep
  <2>1. ShapeInv' /\ UNCHANGED <<periods, plans, tx>>
    BY <1>3 DEF txVars, stored, vars, TxIInv, ShapeInv
  <2>2. QED
    BY <2>1, TxSurroundings
<1>4. QED
  BY <1>1, <1>2, <1>3, BeginIInv, CommitSetAllocationIInv, CommitRedistributeIInv,
     CommitRecordIInv, CommitRolloverIInv
  DEF TxNext

\* So it holds always.
LEMMA TxInductive == TxSpec => []TxIInv
<1>1. TxIInv /\ [TxNext]_txVars => TxIInv'
  BY TxNextIInv
<1>2. QED
  BY <1>1, TxInitIInv, PTL DEF TxSpec

\* The state of the overlapping commands is of its type.
THEOREM TxTypeCorrect == TxSpec => []TxTypeOK
<1>1. TxIInv => TxTypeOK
  BY DEF TxIInv, ShapeInv, inFlight, TxTypeOK, TypeOK
<1>2. QED
  BY <1>1, TxInductive, PTL

\* However commands overlap, a closed period announces at most what was recorded in it.
THEOREM NoPhantomTotalHolds == TxSpec => []NoPhantomTotal
<1>1. ASSUME TxIInv, NEW p \in Profiles, NEW i \in DOMAIN periods[p]
      PROVE  periods[p][i].reconciled <= poolActual(periods[p][i])
  <2>1. areHonest(periods[p]) /\ i \in 1..Len(periods[p])
    BY <1>1 DEF TxIInv, areHonest
  <2>2. QED
    BY <2>1 DEF areHonest, isHonest
<1>2. TxIInv => NoPhantomTotal
  BY <1>1 DEF NoPhantomTotal
<1>3. QED
  BY <1>2, TxInductive, PTL

\* However commands overlap, no record is undone.
THEOREM RecordsAreKeptHolds == TxSpec => RecordsAreKept
<1> DEFINE Kept == \A p \in Profiles : \A i \in DOMAIN periods[p], u \in Users :
                     periods'[p][i].actual[u] >= periods[p][i].actual[u]
<1>1. ASSUME TxIInv, [TxNext]_txVars PROVE Kept
  <2>1. RecordStep
    BY <1>1, TxNextIInv
  <2>2. ASSUME NEW p \in Profiles, NEW i \in DOMAIN periods[p], NEW u \in Users
        PROVE  periods'[p][i].actual[u] >= periods[p][i].actual[u]
    <3>1. i \in 1..Len(periods[p])
      BY <1>1 DEF TxIInv, ShapeInv
    <3>2. QED
      BY <2>1, <3>1 DEF RecordStep, grows
  <2>3. QED
    BY <2>2
<1>2. QED
  BY <1>1, TxInductive, PTL DEF TxSpec, RecordsAreKept

-----------------------------------------------------------------------------
(* Commands that take turns on the periods of a profile. *)

\* A command that reads the periods of a profile and writes them.
isAboutPeriodsOf(t, p) ==
  \/ t.cmd = "recordContribution" /\ t.p = p
  \/ t.cmd = "rollover" /\ p \in DOMAIN t.rolls

\* Records and rollovers of the same profile do not overlap.
PeriodCommandsTakeTurns ==
  \A p \in Profiles, v, w \in Workers :
    isAboutPeriodsOf(tx[v], p) /\ isAboutPeriodsOf(tx[w], p) => v = w

\* An open period under one of so many plan versions.
isNew(period, versions) == isOpen(period) /\ period.planVersion <= versions

\* The period that was read is still the open one, or there is still none.
recordStands(t, list, versions) ==
  \/ t.index = 0 /\ list = <<>> /\ isNew(t.fresh[1], versions)
  \/ t.index # 0 /\ t.index = Len(list) /\ isOpen(list[t.index])

\* The period that was read is still open, its records still add up to the total that
\* was read, and the next period begins where it ends.
rollStands(roll, list, versions, frozen) ==
  /\ roll.index = Len(list) /\ isOpen(list[roll.index])
  /\ roll.total = poolActual(list[roll.index])
  /\ \/ roll.fresh = <<>> /\ frozen
     \/ /\ Len(roll.fresh) = 1 /\ isNew(roll.fresh[1], versions)
        /\ roll.fresh[1].startDate = list[roll.index].endDate

\* What a command has read of the periods is still so.
stands(t, lists, versions, frozen) ==
  /\ t.cmd = "recordContribution" => recordStands(t, lists[t.p], Len(versions[t.p]))
  /\ t.cmd = "rollover" =>
       \A p \in DOMAIN t.rolls :
         rollStands(t.rolls[p], lists[p], Len(versions[p]), p \in frozen)

TurnsInv ==
  /\ TxIInv /\ PeriodsInv
  /\ \A w \in Workers : stands(tx[w], periods, plans, archived)

\* A list of one period.
LEMMA OnePeriod ==
  ASSUME NEW list \in Seq(Period), Len(list) = 1
  PROVE  list[1] \in Period /\ list = <<list[1]>>
OBVIOUS

\* The period that a record creates.
LEMMA FreshIs ==
  ASSUME NEW t, NEW lists, isRecord(t), recordFits(t, lists), t.index = 0
  PROVE  /\ t.fresh \in Seq(Period) /\ t.fresh[1] \in Period /\ Len(t.fresh) = 1
         /\ t.fresh = <<t.fresh[1]>>
<1>1. PICK fresh \in Seq(Period) : fresh = t.fresh
  BY DEF isRecord
<1>2. Len(fresh) = 1
  BY <1>1 DEF recordFits
<1>3. fresh = <<fresh[1]>> /\ fresh[1] \in Period
  BY <1>2, OnePeriod
<1>4. QED
  BY <1>1, <1>2, <1>3

\* What was read still is so when plans and archivals are added, and when others write
\* other profiles.
LEMMA StandsLater ==
  ASSUME NEW t, NEW lists, NEW later, NEW versions, NEW more, NEW frozen, NEW ever,
         inFlight(t, lists, versions), stands(t, lists, versions, frozen),
         \A p \in Profiles : /\ Len(versions[p]) \in Nat /\ Len(more[p]) \in Nat
                             /\ Len(versions[p]) <= Len(more[p])
                             /\ p \in frozen => p \in ever
                             /\ isAboutPeriodsOf(t, p) => later[p] = lists[p]
  PROVE  stands(t, later, more, ever)
<1>1. CASE t.cmd = "recordContribution"
  <2>1. isRecord(t) /\ recordFits(t, lists)
    BY <1>1, KindOf
  <2>2. PICK p \in Profiles : p = t.p
    BY <2>1 DEF isRecord
  <2>3. later[p] = lists[p] /\ recordStands(t, lists[p], Len(versions[p]))
    BY <1>1, <2>2 DEF isAboutPeriodsOf, stands
  <2>4. t.index = 0 => t.fresh[1].planVersion \in Nat
    BY <2>1, FreshIs, PeriodFields
  <2>5. recordStands(t, later[p], Len(more[p]))
    BY <2>3, <2>4 DEF recordStands, isNew
  <2>6. QED
    BY <1>1, <2>2, <2>5 DEF stands
<1>2. CASE t.cmd = "rollover"
  <2>1. isRollover(t)
    BY <1>2, KindOf
  <2>2. ASSUME NEW p \in DOMAIN t.rolls
        PROVE  rollStands(t.rolls[p], later[p], Len(more[p]), p \in ever)
    <3>1. p \in Profiles
      BY <2>1 DEF isRollover
    <3>2. PICK roll \in Roll : roll = t.rolls[p]
      BY <2>1 DEF isRollover
    <3>3. later[p] = lists[p] /\ rollStands(roll, lists[p], Len(versions[p]), p \in frozen)
      BY <1>2, <3>1, <3>2 DEF isAboutPeriodsOf, stands
    <3>4. Len(roll.fresh) = 1 => roll.fresh[1].planVersion \in Nat
      <4>1. PICK fresh \in Seq(Period) : fresh = roll.fresh
        BY DEF Roll
      <4>2. Len(fresh) = 1 => fresh[1] \in Period
        BY OnePeriod
      <4>3. QED
        BY <4>1, <4>2, PeriodFields
    <3>5. rollStands(roll, later[p], Len(more[p]), p \in ever)
      BY <3>1, <3>3, <3>4 DEF rollStands, isNew
    <3>6. QED
      BY <3>2, <3>5
  <2>3. QED
    BY <1>2, <2>2 DEF stands
<1>3. CASE t.cmd \notin {"recordContribution", "rollover"}
  BY <1>3 DEF stands
<1>4. QED
  BY <1>1, <1>2, <1>3

\* Who is idle has read nothing.
LEMMA IdleStands ==
  ASSUME NEW lists, NEW versions, NEW frozen
  PROVE  stands(Idle, lists, versions, frozen)
BY DEF Idle, stands

\* A step in which every profile's periods stay sound, and every command's reads stay
\* true unless it is the one that begins or ends.
LEMMA TurnsStep ==
  ASSUME TurnsInv, TxIInv', RecordStep, archived \subseteq archived',
         \A p \in Profiles : isSound(periods'[p], Len(plans'[p]), p \in archived'),
         \A w \in Workers :
           \/ /\ tx'[w] = tx[w]
              /\ \A p \in Profiles : isAboutPeriodsOf(tx[w], p) => periods'[p] = periods[p]
           \/ stands(tx'[w], periods', plans', archived')
  PROVE  TurnsInv'
<1>1. ASSUME NEW w \in Workers, tx'[w] = tx[w],
             \A p \in Profiles : isAboutPeriodsOf(tx[w], p) => periods'[p] = periods[p]
      PROVE  stands(tx'[w], periods', plans', archived')
  <2>1. PICK t : t = tx[w]
    OBVIOUS
  <2>2. PICK lists : lists = periods
    OBVIOUS
  <2>3. PICK later : later = periods'
    OBVIOUS
  <2>4. PICK versions : versions = plans
    OBVIOUS
  <2>5. PICK more : more = plans'
    OBVIOUS
  <2>6. PICK frozen : frozen = archived
    OBVIOUS
  <2>7. PICK ever : ever = archived'
    OBVIOUS
  <2>8. inFlight(t, lists, versions) /\ stands(t, lists, versions, frozen)
    BY <2>1, <2>2, <2>4, <2>6 DEF TurnsInv, TxIInv
  <2>9. \A p \in Profiles : Len(versions[p]) \in Nat /\ Len(more[p]) \in Nat
    BY <2>4, <2>5 DEF TurnsInv, TxIInv, ShapeInv
  <2>10. \A p \in Profiles : /\ Len(versions[p]) <= Len(more[p])
                             /\ p \in frozen => p \in ever
                             /\ isAboutPeriodsOf(t, p) => later[p] = lists[p]
    BY <1>1, <2>1, <2>2, <2>3, <2>4, <2>5, <2>6, <2>7 DEF RecordStep
  <2>11. stands(t, later, more, ever)
    BY <2>8, <2>9, <2>10, StandsLater
  <2>12. QED
    BY <1>1, <2>1, <2>3, <2>5, <2>7, <2>11
<1>2. QED
  BY <1>1 DEF TurnsInv, PeriodsInv

\* A step that writes no period.
LEMMA TurnsQuiet ==
  ASSUME TurnsInv, TxIInv', RecordStep, UNCHANGED periods, archived \subseteq archived',
         \A w \in Workers : tx'[w] = tx[w] \/ stands(tx'[w], periods', plans', archived')
  PROVE  TurnsInv'
<1>1. ASSUME NEW p \in Profiles
      PROVE  isSound(periods'[p], Len(plans'[p]), p \in archived')
  <2>1. PICK list \in Seq(Period) : list = periods[p]
    BY DEF TurnsInv, TxIInv, ShapeInv
  <2>2. Len(plans[p]) \in Nat /\ Len(plans'[p]) \in Nat /\ Len(plans[p]) <= Len(plans'[p])
    BY DEF TurnsInv, TxIInv, ShapeInv, RecordStep
  <2>3. isSound(list, Len(plans[p]), p \in archived)
    BY <2>1 DEF TurnsInv, PeriodsInv
  <2>4. p \in archived => p \in archived'
    OBVIOUS
  <2>5. isSound(list, Len(plans'[p]), p \in archived')
    BY <2>2, <2>3, <2>4, StaysSound
  <2>6. QED
    BY <2>1, <2>5
<1>2. QED
  BY <1>1, TurnsStep

\* The period that a record goes to is the open one, which is the last.
LEMMA LatestIs ==
  ASSUME NEW list \in Seq(Period), NEW versions \in Nat, isSound(list, versions, TRUE)
  PROVE  latestOpen(list) = {i \in 1..Len(list) : isOpen(list[i])}
<1>1. \A i \in 1..Len(list) : list[i].startDate \in Nat
  BY ElementOfSeq, PeriodFields
<1>2. DOMAIN list = 1..Len(list)
  OBVIOUS
<1>3. \A i, j \in 1..Len(list) : isOpen(list[i]) /\ isOpen(list[j]) => i = j
  BY DEF isSound
<1>4. \A i, j \in 1..Len(list) :
        isOpen(list[i]) /\ isOpen(list[j]) => list[j].startDate <= list[i].startDate
  BY <1>1, <1>3
<1>5. QED
  BY <1>2, <1>4 DEF latestOpen

\* What a command reads of the periods is so when it reads it.
LEMMA BeginStands ==
  ASSUME TurnsInv, NEW w \in Workers, Begin(w)
  PROVE  \A v \in Workers : tx'[v] = tx[v] \/ stands(tx'[v], periods, plans, archived)
<1>1. /\ ShapeInv /\ tx = [v \in Workers |-> tx[v]]
      /\ IInv
  BY DEF TurnsInv, TxIInv, IInv
<1>2. ASSUME NEW t, begin(w, t), stands(t, periods, plans, archived)
      PROVE  \A v \in Workers : tx'[v] = tx[v] \/ stands(tx'[v], periods, plans, archived)
  BY <1>1, <1>2 DEF begin
<1>3. ASSUME NEW p \in Profiles, NEW u \in Users, NEW bp \in 0..FullAllocationBp,
             BeginSetAllocation(w, p, u, bp)
      PROVE  \A v \in Workers : tx'[v] = tx[v] \/ stands(tx'[v], periods, plans, archived)
  <2>1. PICK t : t = [cmd |-> "setAllocation", p |-> p, u |-> u, bp |-> bp,
                      version |-> currentVersion(p)]
    OBVIOUS
  <2>2. t.cmd = "setAllocation"
    BY <2>1
  <2>3. begin(w, t)
    BY <1>3, <2>1 DEF BeginSetAllocation
  <2>4. stands(t, periods, plans, archived)
    BY <2>2 DEF stands
  <2>5. QED
    BY <1>2, <2>3, <2>4
<1>4. ASSUME NEW p \in Profiles, NEW u \in Users, NEW allocations \in Allocations,
             BeginRedistribute(w, p, u, allocations)
      PROVE  \A v \in Workers : tx'[v] = tx[v] \/ stands(tx'[v], periods, plans, archived)
  <2>1. PICK t : t = [cmd |-> "redistribute", p |-> p, allocations |-> allocations,
                      version |-> currentVersion(p)]
    OBVIOUS
  <2>2. t.cmd = "redistribute"
    BY <2>1
  <2>3. begin(w, t)
    BY <1>4, <2>1 DEF BeginRedistribute
  <2>4. stands(t, periods, plans, archived)
    BY <2>2 DEF stands
  <2>5. QED
    BY <1>2, <2>3, <2>4
<1>5. ASSUME NEW p \in Profiles, NEW u \in Users, NEW amount \in 1..MaxAmount,
             BeginRecord(w, p, u, amount)
      PROVE  \A v \in Workers : tx'[v] = tx[v] \/ stands(tx'[v], periods, plans, archived)
  <2>1. PICK i \in IF latestOpen(periods[p]) = {} THEN {0} ELSE latestOpen(periods[p]) :
          begin(w, [cmd |-> "recordContribution", p |-> p, u |-> u, amount |-> amount,
                    index |-> i,
                    fresh |-> IF i = 0 THEN <<newPeriod(p, clock)>> ELSE <<>>])
    BY <1>5 DEF BeginRecord
  <2>2. PICK fresh : fresh = IF i = 0 THEN <<newPeriod(p, clock)>> ELSE <<>>
    OBVIOUS
  <2>3. PICK t : t = [cmd |-> "recordContribution", p |-> p, u |-> u, amount |-> amount,
                      index |-> i, fresh |-> fresh]
    OBVIOUS
  <2>4. begin(w, t) /\ t.cmd = "recordContribution" /\ t.p = p /\ t.index = i /\ t.fresh = fresh
    BY <2>1, <2>2, <2>3
  <2>5. PICK list \in Seq(Period) :
          /\ list = periods[p] /\ isSound(list, Len(plans[p]), TRUE)
          /\ list # <<>> => isOpen(list[Len(list)])
    BY <1>1, <1>5, OfProfile DEF BeginRecord, isSound
  <2>6. Len(plans[p]) \in Nat
    BY <1>1, OfProfile
  <2>7. latestOpen(list) = {j \in 1..Len(list) : isOpen(list[j])}
    BY <2>5, <2>6, LatestIs
  <2>8. recordStands(t, list, Len(plans[p]))
    <3>1. CASE latestOpen(list) = {}
      <4>1. i = 0
        BY <2>1, <2>5, <3>1
      <4>2. list = <<>>
        <5>1. list # <<>> => Len(list) \in 1..Len(list)
          BY EmptySeq
        <5>2. QED
          BY <2>5, <2>7, <3>1, <5>1
      <4>3. isNew(newPeriod(p, clock), Len(plans[p]))
        BY <1>1, <2>6, NewPeriodIs DEF ShapeInv, isNew
      <4>4. fresh[1] = newPeriod(p, clock)
        BY <2>2, <4>1
      <4>5. QED
        BY <2>4, <4>1, <4>2, <4>3, <4>4 DEF recordStands
    <3>2. CASE latestOpen(list) # {}
      <4>1. i \in 1..Len(list) /\ isOpen(list[i])
        BY <2>1, <2>5, <2>7, <3>2
      <4>2. i = Len(list) /\ i # 0
        BY <2>5, <4>1 DEF isSound
      <4>3. QED
        BY <2>4, <4>1, <4>2 DEF recordStands
    <3>3. QED
      BY <3>1, <3>2
  <2>9. stands(t, periods, plans, archived)
    BY <2>4, <2>5, <2>8 DEF stands
  <2>10. QED
    BY <1>2, <2>4, <2>9
<1>6. ASSUME NEW S \in SUBSET Profiles, NEW batch \in [S -> 1..MaxPeriods],
             BeginRollover(w, batch)
      PROVE  \A v \in Workers : tx'[v] = tx[v] \/ stands(tx'[v], periods, plans, archived)
  <2>1. PICK rolls : rolls = [p \in S |-> rollOf(p, batch[p])]
    OBVIOUS
  <2>2. PICK t : t = [cmd |-> "rollover", rolls |-> rolls]
    OBVIOUS
  <2>3. DOMAIN batch = S /\ DOMAIN rolls = S
    BY <2>1
  <2>4. begin(w, t)
    BY <1>6, <2>1, <2>2, <2>3 DEF BeginRollover
  <2>5. ASSUME NEW p \in S
        PROVE  rollStands(rolls[p], periods[p], Len(plans[p]), p \in archived)
    <3>1. PICK list \in Seq(Period) : list = periods[p] /\ isSound(list, Len(plans[p]), TRUE)
      BY <1>1, OfProfile
    <3>2. PICK i : i = batch[p]
      OBVIOUS
    <3>3. i \in 1..Len(list) /\ isOpen(list[i])
      BY <1>6, <2>3, <3>1, <3>2 DEF BeginRollover, isDue
    <3>4. i = Len(list)
      BY <3>1, <3>3 DEF isSound
    <3>5. PICK v \in Period : v = list[i]
      BY <3>3, ElementOfSeq
    <3>6. PICK fresh : fresh = IF p \in archived THEN <<>> ELSE <<newPeriod(p, v.endDate)>>
      OBVIOUS
    <3>7. PICK roll : roll = rolls[p]
      OBVIOUS
    <3>8. roll = [index |-> i, total |-> poolActual(v), fresh |-> fresh]
      BY <2>1, <3>1, <3>2, <3>5, <3>6, <3>7 DEF rollOf
    <3>9. roll.index = i /\ roll.total = poolActual(v) /\ roll.fresh = fresh
      BY <3>8
    <3>10. CASE p \in archived
      BY <3>1, <3>3, <3>4, <3>5, <3>6, <3>7, <3>9, <3>10 DEF rollStands
    <3>11. CASE p \notin archived
      <4>1. PICK next : next = newPeriod(p, v.endDate)
        OBVIOUS
      <4>2. isNew(next, Len(plans[p])) /\ next.startDate = v.endDate
        BY <1>1, <4>1, NewPeriodIs, PeriodFields, OfProfile DEF isNew
      <4>3. Len(fresh) = 1 /\ fresh[1] = next
        BY <3>6, <3>11, <4>1
      <4>4. rollStands(roll, list, Len(plans[p]), p \in archived)
        BY <3>3, <3>4, <3>5, <3>9, <4>2, <4>3 DEF rollStands
      <4>5. QED
        BY <3>1, <3>7, <4>4
    <3>12. QED
      BY <3>10, <3>11
  <2>6. stands(t, periods, plans, archived)
    <3>1. t.cmd = "rollover" /\ t.rolls = rolls
      BY <2>2
    <3>2. QED
      BY <2>3, <2>5, <3>1 DEF stands
  <2>7. QED
    BY <1>2, <2>4, <2>6
<1>7. QED
  BY <1>3, <1>4, <1>5, <1>6 DEF Begin

\* The due period is closed, and its successor, if there is one, follows it.
LEMMA RolledAs ==
  ASSUME NEW list \in Seq(Period), NEW versions \in Nat, NEW frozen,
         isSound(list, versions, TRUE), NEW roll \in Roll,
         roll.index \in 1..Len(list), rollStands(roll, list, versions, frozen)
  PROVE  isSound([list EXCEPT ![roll.index] = closeAs(list[roll.index], roll.total)]
                   \o roll.fresh, versions, frozen)
<1>1. PICK i \in 1..Len(list) : i = roll.index
  OBVIOUS
<1>2. PICK fresh \in Seq(Period) : fresh = roll.fresh
  BY DEF Roll
<1>3. PICK w \in Period : w = list[i]
  BY ElementOfSeq
<1>4. i = Len(list) /\ isOpen(list[i]) /\ roll.total = poolActual(w)
  BY <1>1, <1>3 DEF rollStands
<1>5. PICK past : past = closed(list[i])
  OBVIOUS
<1>6. past = closeAs(list[roll.index], roll.total)
  BY <1>1, <1>3, <1>4, <1>5 DEF closeAs, closed
<1>7. PICK new : new = [list EXCEPT ![i] = past]
  OBVIOUS
<1>8. new \in Seq(Period) /\ ~isOpen(past)
  BY <1>4, <1>5, <1>7, LastClosed
<1>9. Len(new) = i /\ new[i] = past
  BY <1>4, <1>5, <1>7, LastClosed
<1>10. isSound(new, versions, TRUE)
  BY <1>4, <1>5, <1>7, LastClosed
<1>11. CASE fresh = <<>> /\ frozen
  <2>1. new \o fresh = new
    BY <1>8, <1>11, ConcatEmptySeq
  <2>2. isSound(new, versions, frozen)
    BY <1>10, <1>11 DEF isSound
  <2>3. QED
    BY <1>1, <1>2, <1>6, <1>7, <2>1, <2>2, Zenon
<1>12. CASE ~(fresh = <<>> /\ frozen)
  <2>1. /\ Len(fresh) = 1 /\ isNew(fresh[1], versions)
        /\ fresh[1].startDate = list[i].endDate
    BY <1>1, <1>2, <1>12 DEF rollStands
  <2>2. PICK next : next = fresh[1]
    OBVIOUS
  <2>3. next \in Period /\ fresh = <<next>>
    BY <2>1, <2>2, OnePeriod
  <2>4. new \o <<next>> = Append(new, next)
    BY <1>8, AppendIsConcat
  <2>5. \A j \in 1..Len(new) : ~isOpen(new[j])
    BY <1>8, <1>9, <1>10 DEF isSound
  <2>6. new[Len(new)].endDate = list[i].endDate
    BY <1>3, <1>5, <1>9, ClosedIs
  <2>7. isOpen(next) /\ next.planVersion <= versions /\ next.startDate = new[Len(new)].endDate
    BY <2>1, <2>2, <2>6 DEF isNew
  <2>8. isSound(Append(new, next), versions, frozen)
    BY <1>8, <1>10, <2>3, <2>5, <2>7, Appended
  <2>9. QED
    BY <1>1, <1>2, <1>6, <1>7, <2>3, <2>4, <2>8, Zenon
<1>13. QED
  BY <1>11, <1>12

\* A record goes to the open period, or to the first one.
LEMMA RecordedAs ==
  ASSUME NEW list \in Seq(Period), NEW versions \in Nat, isSound(list, versions, TRUE),
         NEW t, NEW lists, isRecord(t), recordFits(t, lists), recordStands(t, list, versions),
         t.fresh = <<>> \/ t.index = 0,
         NEW i, i = IF t.index = 0 THEN Len(list \o t.fresh) ELSE t.index
  PROVE  isSound(createRecord(list \o t.fresh, i, t.u, t.amount), versions, FALSE)
<1>1. PICK u \in Users : u = t.u
  BY DEF isRecord
<1>2. PICK amount \in Nat : amount = t.amount
  BY DEF isRecord
<1> PICK all : all = list \o t.fresh
  OBVIOUS
<1>3. /\ all \in Seq(Period) /\ isSound(all, versions, TRUE)
      /\ i \in 1..Len(all) /\ isOpen(all[i])
  <2>1. CASE t.index = 0
    <3>1. list = <<>> /\ isNew(t.fresh[1], versions)
      BY <2>1 DEF recordStands
    <3>2. PICK w \in Period : w = t.fresh[1] /\ t.fresh = <<w>>
      BY <2>1, FreshIs
    <3>3. <<w>> \in Seq(Period) /\ Len(<<w>>) = 1 /\ <<w>>[1] = w
      OBVIOUS
    <3>4. all = <<w>>
      BY <3>1, <3>2, <3>3, ConcatEmptySeq
    <3>5. all \in Seq(Period) /\ Len(all) = 1 /\ all[1] = w
      BY <3>3, <3>4
    <3>6. isOpen(all[1]) /\ all[1].planVersion <= versions
      BY <3>1, <3>2, <3>5 DEF isNew
    <3>7. isSound(all, versions, TRUE)
      BY <3>5, <3>6 DEF isSound, isClosedOff
    <3>8. i = 1
      BY <2>1, <3>5
    <3>9. i \in 1..Len(all) /\ isOpen(all[i])
      BY <3>5, <3>6, <3>8
    <3>10. QED
      BY <3>5, <3>7, <3>9, Zenon
  <2>2. CASE t.index # 0
    <3>1. t.fresh = <<>> /\ i = t.index
      BY <2>2
    <3>2. all = list
      BY <3>1, ConcatEmptySeq
    <3>3. i = Len(list) /\ isOpen(list[i])
      BY <2>2, <3>1 DEF recordStands
    <3>4. i \in 1..Len(list)
      BY <2>2, <3>1, <3>3
    <3>5. QED
      BY <3>2, <3>3, <3>4
  <2>3. QED
    BY <2>1, <2>2
<1>4. PICK new : new = createRecord(all, i, u, amount)
  OBVIOUS
<1>5. isSound(new, versions, FALSE)
  BY <1>3, <1>4, LastRecorded
<1>6. QED
  BY <1>1, <1>2, <1>3, <1>4, <1>5

\* A command that ends writes the periods of its own profiles.
LEMMA TurnsCommit ==
  ASSUME TurnsInv, TxIInv', RecordStep, PeriodCommandsTakeTurns, NEW w \in Workers,
         tx' = [tx EXCEPT ![w] = Idle], archived' = archived, plans' = plans,
         \A p \in Profiles :
           \/ periods'[p] = periods[p]
           \/ /\ isAboutPeriodsOf(tx[w], p)
              /\ isSound(periods'[p], Len(plans[p]), p \in archived)
  PROVE  TurnsInv'
<1>1. \A p \in Profiles : isSound(periods'[p], Len(plans'[p]), p \in archived')
  BY DEF TurnsInv, PeriodsInv
<1>2. ASSUME NEW v \in Workers
      PROVE  \/ /\ tx'[v] = tx[v]
                /\ \A p \in Profiles : isAboutPeriodsOf(tx[v], p) => periods'[p] = periods[p]
             \/ stands(tx'[v], periods', plans', archived')
  <2>1. CASE v = w
    <3>1. tx'[v] = Idle
      BY <2>1 DEF TurnsInv, TxIInv
    <3>2. QED
      BY <3>1, IdleStands
  <2>2. CASE v # w
    BY <2>2 DEF PeriodCommandsTakeTurns, TurnsInv, TxIInv
  <2>3. QED
    BY <2>1, <2>2
<1>3. QED
  BY <1>1, <1>2, TurnsStep

\* A record that ends leaves the periods sound.
LEMMA CommitRecordTurns ==
  ASSUME TurnsInv, PeriodCommandsTakeTurns, NEW w \in Workers, CommitRecord(w)
  PROVE  TurnsInv'
<1>1. TxIInv' /\ RecordStep
  BY CommitRecordIInv DEF TurnsInv
<1>2. PICK t : t = tx[w]
  OBVIOUS
<1>3. isRecord(t) /\ recordFits(t, periods) /\ t.cmd = "recordContribution"
  BY <1>2, Kinds DEF CommitRecord, commit, TurnsInv
<1>4. PICK p \in Profiles : p = t.p
  BY <1>3 DEF isRecord
<1>5. PICK list \in Seq(Period) : list = periods[p]
  BY DEF TurnsInv, TxIInv, ShapeInv
<1>6. PICK i : i = IF t.index = 0 THEN Len(list \o t.fresh) ELSE t.index
  OBVIOUS
<1>7. PICK new : new = createRecord(list \o t.fresh, i, t.u, t.amount)
  OBVIOUS
<1>8. /\ UNCHANGED <<membershipVars, plans>> /\ tx' = [tx EXCEPT ![w] = Idle]
      /\ periods' = [periods EXCEPT ![p] = new]
  BY <1>2, <1>4, <1>5, <1>6, <1>7 DEF CommitRecord, commit
<1>9. isSound(list, Len(plans[p]), TRUE) /\ Len(plans[p]) \in Nat
  BY <1>5 DEF TurnsInv, TxIInv, ShapeInv, PeriodsInv, isSound
<1>10. recordStands(t, list, Len(plans[p]))
  BY <1>2, <1>3, <1>4, <1>5 DEF TurnsInv, stands
<1>11. t.fresh = <<>> \/ t.index = 0
  BY <1>3 DEF recordFits
<1>12. isSound(new, Len(plans[p]), FALSE)
  BY <1>3, <1>6, <1>7, <1>9, <1>10, <1>11, RecordedAs
<1>13. isSound(new, Len(plans[p]), p \in archived)
  BY <1>12 DEF isSound
<1>14. \A q \in Profiles : periods'[q] = IF q = p THEN new ELSE periods[q]
  BY <1>8 DEF TurnsInv, TxIInv, ShapeInv
<1>15. isAboutPeriodsOf(tx[w], p)
  BY <1>2, <1>3, <1>4 DEF isAboutPeriodsOf
<1>16. QED
  BY <1>1, <1>8, <1>13, <1>14, <1>15, TurnsCommit DEF membershipVars

\* A rollover that ends leaves the periods sound.
LEMMA CommitRolloverTurns ==
  ASSUME TurnsInv, PeriodCommandsTakeTurns, NEW w \in Workers, CommitRollover(w)
  PROVE  TurnsInv'
<1>1. TxIInv' /\ RecordStep
  BY CommitRolloverIInv DEF TurnsInv
<1>2. PICK t : t = tx[w]
  OBVIOUS
<1>3. /\ isRollover(t) /\ \A p \in DOMAIN t.rolls : rollFits(t.rolls[p], periods[p])
      /\ t.cmd = "rollover"
  BY <1>2, Kinds DEF CommitRollover, commit, TurnsInv
<1>4. PICK rolls : rolls = t.rolls
  OBVIOUS
<1>5. /\ UNCHANGED <<membershipVars, plans>> /\ tx' = [tx EXCEPT ![w] = Idle]
      /\ periods' =
           [p \in Profiles |->
              IF p \in DOMAIN rolls
              THEN [periods[p] EXCEPT
                      ![rolls[p].index] = closeAs(periods[p][rolls[p].index], rolls[p].total)]
                     \o rolls[p].fresh
              ELSE periods[p]]
  BY <1>2, <1>4 DEF CommitRollover, commit
<1>6. ASSUME NEW p \in Profiles, p \in DOMAIN rolls
      PROVE  /\ isAboutPeriodsOf(tx[w], p)
             /\ isSound(periods'[p], Len(plans[p]), p \in archived)
  <2>1. PICK list \in Seq(Period) : list = periods[p]
    BY DEF TurnsInv, TxIInv, ShapeInv
  <2>2. PICK roll \in Roll : roll = rolls[p]
    BY <1>3, <1>4, <1>6 DEF isRollover
  <2>3. roll.index \in 1..Len(list)
    BY <1>3, <1>4, <1>6, <2>1, <2>2 DEF rollFits
  <2> Len(plans[p]) \in Nat
    BY DEF TurnsInv, TxIInv, ShapeInv
  <2>4. PICK versions \in Nat : versions = Len(plans[p])
    OBVIOUS
  <2>5. PICK frozen : frozen = (p \in archived)
    OBVIOUS
  <2>6. isSound(list, versions, TRUE)
    BY <2>1, <2>4 DEF TurnsInv, PeriodsInv, isSound
  <2>7. rollStands(roll, list, versions, frozen)
    BY <1>2, <1>3, <1>4, <1>6, <2>1, <2>2, <2>4, <2>5 DEF TurnsInv, stands
  <2>8. PICK new :
          new = [list EXCEPT ![roll.index] = closeAs(list[roll.index], roll.total)] \o roll.fresh
    OBVIOUS
  <2>9. isSound(new, versions, frozen)
    BY <2>3, <2>6, <2>7, <2>8, RolledAs
  <2>10. periods'[p] = new
    BY <1>5, <1>6, <2>1, <2>2, <2>8
  <2>11. isAboutPeriodsOf(tx[w], p)
    BY <1>2, <1>3, <1>4, <1>6 DEF isAboutPeriodsOf
  <2>12. QED
    BY <2>4, <2>5, <2>9, <2>10, <2>11
<1>7. ASSUME NEW p \in Profiles, p \notin DOMAIN rolls PROVE periods'[p] = periods[p]
  BY <1>5, <1>7
<1>8. QED
  BY <1>1, <1>5, <1>6, <1>7, TurnsCommit DEF membershipVars

\* As long as records and rollovers of a profile take turns, what they read stays true.
LEMMA NextTurnsInv ==
  ASSUME TurnsInv, PeriodCommandsTakeTurns, [TxNext]_txVars
  PROVE  TurnsInv'
<1>1. TxIInv' /\ RecordStep /\ TxIInv /\ tx = [v \in Workers |-> tx[v]]
  BY TxNextIInv DEF TurnsInv, TxIInv
<1>2. ASSUME NEW w \in Workers, Begin(w) PROVE TurnsInv'
  <2>1. UNCHANGED stored
    BY <1>2 DEF Begin, BeginSetAllocation, BeginRedistribute, BeginRecord, BeginRollover, begin
  <2>2. /\ periods' = periods /\ plans' = plans /\ archived' = archived
    BY <2>1 DEF stored, vars
  <2>3. \A v \in Workers : tx'[v] = tx[v] \/ stands(tx'[v], periods', plans', archived')
    BY <1>2, <2>2, BeginStands
  <2>4. QED
    BY <1>1, <2>2, <2>3, TurnsQuiet
<1>3. ASSUME NEW w \in Workers, tx' = [tx EXCEPT ![w] = Idle], UNCHANGED periods,
             archived' = archived
      PROVE  TurnsInv'
  <2>1. \A v \in Workers : tx'[v] = tx[v] \/ stands(tx'[v], periods', plans', archived')
    BY <1>1, <1>3, IdleStands
  <2>2. QED
    BY <1>1, <1>3, <2>1, TurnsQuiet
<1>4. ASSUME NEW w \in Workers, Rollback(w) PROVE TurnsInv'
  BY <1>3, <1>4 DEF Rollback, stored, vars
<1>5. ASSUME NEW w \in Workers, CommitSetAllocation(w) PROVE TurnsInv'
  BY <1>3, <1>5 DEF CommitSetAllocation, commit, membershipVars
<1>6. ASSUME NEW w \in Workers, CommitRedistribute(w) PROVE TurnsInv'
  BY <1>3, <1>6 DEF CommitRedistribute, commit, membershipVars
<1>7. ASSUME Surroundings, UNCHANGED tx PROVE TurnsInv'
  <2>1. periods' = periods /\ archived \subseteq archived'
    BY <1>7 DEF Surroundings, Join, Leave, Archive, Tick, membershipVars
  <2>2. QED
    BY <1>1, <1>7, <2>1, TurnsQuiet
<1>8. ASSUME UNCHANGED txVars PROVE TurnsInv'
  <2>1. periods' = periods /\ archived' = archived /\ tx' = tx
    BY <1>8 DEF txVars, stored, vars
  <2>2. QED
    BY <1>1, <2>1, TurnsQuiet
<1>9. QED
  BY <1>2, <1>4, <1>5, <1>6, <1>7, <1>8, CommitRecordTurns, CommitRolloverTurns DEF TxNext

\* At first there are no periods, and nobody has read anything.
LEMMA InitTurnsInv == TxInit => TurnsInv
<1>1. TxInit => TxIInv /\ PeriodsInv
  BY TxInitIInv, InitIInv DEF TxInit, IInv
<1>2. TxInit => \A w \in Workers : stands(tx[w], periods, plans, archived)
  BY IdleStands DEF TxInit
<1>3. QED
  BY <1>1, <1>2 DEF TurnsInv

\* So it holds always.
LEMMA TurnsInductive == TxSpec /\ []PeriodCommandsTakeTurns => []TurnsInv
<1>1. TurnsInv /\ PeriodCommandsTakeTurns /\ [TxNext]_txVars => TurnsInv'
  BY NextTurnsInv
<1>2. QED
  BY <1>1, InitTurnsInv, PTL DEF TxSpec

\* The periods of a profile follow each other, whatever else overlaps, as long as its
\* records and rollovers do not.
THEOREM PeriodsAreAChainInTurns ==
  TxSpec /\ []PeriodCommandsTakeTurns => []PeriodsAreAChain
<1>1. TurnsInv => PeriodsAreAChain
  BY OfProfile DEF TurnsInv, TxIInv, IInv, PeriodsAreAChain, isSound
<1>2. QED
  BY <1>1, TurnsInductive, PTL

\* And what a closed period announces is the sum of its records.
THEOREM ClosedReconcilesInTurns ==
  TxSpec /\ []PeriodCommandsTakeTurns => []ClosedReconciles
<1>1. TurnsInv => ClosedReconciles
  BY OfProfile DEF TurnsInv, TxIInv, IInv, ClosedReconciles, isSound, isClosedOff
<1>2. QED
  BY <1>1, TurnsInductive, PTL

-----------------------------------------------------------------------------
(* Commands that take turns on the plan of a profile. *)

\* A percentage is not set while the plan is redistributed.
RedistributionsTakeTurns ==
  \A v, w \in Workers :
    tx[v].cmd = "setAllocation" /\ tx[w].cmd = "redistribute" => tx[v].p # tx[w].p

\* The version that was read is still the current one, unless it was none.
VersionsInv ==
  \A w \in Workers :
    tx[w].cmd = "setAllocation" => tx[w].version \in {0, Len(plans[tx[w].p])}

\* What a percentage writes when it ends.
LEMMA AllocationCommitted ==
  ASSUME TxIInv, NEW w \in Workers, CommitSetAllocation(w), NEW t, t = tx[w]
  PROVE  /\ t.cmd = "setAllocation" /\ t.p \in Profiles /\ t.u \in Users
         /\ t.bp \in 0..FullAllocationBp /\ t.version \in 0..Len(plans[t.p])
         /\ t.version = 0 => plans[t.p] = <<>>
         /\ plans'[t.p] = inPlan(plans[t.p], t.version, t.u, t.bp)
         /\ \A q \in Profiles : q # t.p => plans'[q] = plans[q]
         /\ role' = role /\ tx' = [tx EXCEPT ![w] = Idle]
<1>1. t.cmd = "setAllocation" /\ isSetAllocation(t) /\ t.version <= Len(plans[t.p])
  BY Kinds DEF CommitSetAllocation, commit
<1>2. /\ t.p \in Profiles /\ t.u \in Users /\ t.bp \in 0..FullAllocationBp
      /\ t.version \in Nat
  BY <1>1 DEF isSetAllocation
<1>3. Len(plans[t.p]) \in Nat
  BY <1>2 DEF TxIInv, ShapeInv
<1>4. /\ t.version = 0 => plans[t.p] = <<>>
      /\ plans' = [plans EXCEPT ![t.p] = inPlan(plans[t.p], t.version, t.u, t.bp)]
      /\ role' = role /\ tx' = [tx EXCEPT ![w] = Idle]
  BY <1>2 DEF CommitSetAllocation, commit, membershipVars, TxIInv, ShapeInv
<1>5. /\ plans'[t.p] = inPlan(plans[t.p], t.version, t.u, t.bp)
      /\ \A q \in Profiles : q # t.p => plans'[q] = plans[q]
  BY <1>2, <1>4 DEF TxIInv, ShapeInv
<1>6. QED
  BY <1>1, <1>2, <1>3, <1>4, <1>5

\* What a redistribution writes when it ends.
LEMMA RedistributionCommitted ==
  ASSUME TxIInv, NEW w \in Workers, CommitRedistribute(w), NEW t, t = tx[w]
  PROVE  /\ t.cmd = "redistribute" /\ t.p \in Profiles /\ t.allocations \in Allocations
         /\ plans'[t.p] = Append(plans[t.p], t.allocations)
         /\ \A q \in Profiles : q # t.p => plans'[q] = plans[q]
         /\ role' = role /\ tx' = [tx EXCEPT ![w] = Idle]
<1>1. t.cmd = "redistribute" /\ isRedistribute(t)
  BY Kinds DEF CommitRedistribute, commit
<1>2. t.p \in Profiles /\ t.allocations \in Allocations
  BY <1>1 DEF isRedistribute
<1>3. /\ plans' = [plans EXCEPT ![t.p] = Append(plans[t.p], t.allocations)]
      /\ role' = role /\ tx' = [tx EXCEPT ![w] = Idle]
  BY <1>2 DEF CommitRedistribute, commit, membershipVars, TxIInv, ShapeInv
<1>4. /\ plans'[t.p] = Append(plans[t.p], t.allocations)
      /\ \A q \in Profiles : q # t.p => plans'[q] = plans[q]
  BY <1>2, <1>3 DEF TxIInv, ShapeInv
<1>5. QED
  BY <1>1, <1>2, <1>3, <1>4

\* A command that reads the version, or is something else.
LEMMA BeginVersion ==
  ASSUME TxIInv, NEW w \in Workers, Begin(w)
  PROVE  /\ plans' = plans /\ role' = role
         /\ \A v \in Workers :
              \/ tx'[v] = tx[v]
              \/ tx'[v].cmd = "setAllocation" => tx'[v].version = Len(plans[tx'[v].p])
<1>1. tx = [v \in Workers |-> tx[v]]
  BY DEF TxIInv
<1>2. ASSUME NEW t, begin(w, t), t.cmd = "setAllocation" => t.version = Len(plans[t.p])
      PROVE  /\ plans' = plans /\ role' = role
             /\ \A v \in Workers :
                  \/ tx'[v] = tx[v]
                  \/ tx'[v].cmd = "setAllocation" => tx'[v].version = Len(plans[tx'[v].p])
  BY <1>1, <1>2 DEF begin, stored, vars
<1>3. ASSUME NEW p \in Profiles, NEW u \in Users, NEW bp \in 0..FullAllocationBp,
             BeginSetAllocation(w, p, u, bp)
      PROVE  \E t : begin(w, t) /\ (t.cmd = "setAllocation" => t.version = Len(plans[t.p]))
  BY <1>3 DEF BeginSetAllocation, currentVersion
<1>4. ASSUME NEW p \in Profiles, NEW u \in Users, NEW allocations \in Allocations,
             BeginRedistribute(w, p, u, allocations)
      PROVE  \E t : begin(w, t) /\ t.cmd # "setAllocation"
  BY <1>4 DEF BeginRedistribute
<1>5. ASSUME NEW p \in Profiles, NEW u \in Users, NEW amount \in 1..MaxAmount,
             BeginRecord(w, p, u, amount)
      PROVE  \E t : begin(w, t) /\ t.cmd # "setAllocation"
  BY <1>5 DEF BeginRecord
<1>6. ASSUME NEW S \in SUBSET Profiles, NEW batch \in [S -> 1..MaxPeriods],
             BeginRollover(w, batch)
      PROVE  \E t : begin(w, t) /\ t.cmd # "setAllocation"
  BY <1>6 DEF BeginRollover
<1>7. \E t : begin(w, t) /\ (t.cmd = "setAllocation" => t.version = Len(plans[t.p]))
  BY <1>3, <1>4, <1>5, <1>6 DEF Begin
<1>8. QED
  BY <1>2, <1>7

\* A step after which a profile has as many versions as before, or has its first, and
\* which nobody begins.
LEMMA VersionsStep ==
  ASSUME TxIInv, VersionsInv,
         \A w \in Workers : \/ tx'[w].cmd # "setAllocation"
                            \/ /\ tx'[w] = tx[w]
                               /\ \/ Len(plans[tx[w].p]) = 0
                                  \/ Len(plans'[tx[w].p]) = Len(plans[tx[w].p])
  PROVE  VersionsInv'
BY DEF VersionsInv

\* Versions are written when they are current, and added.
LEMMA NextVersionsInv ==
  ASSUME TxIInv, VersionsInv, RedistributionsTakeTurns, [TxNext]_txVars
  PROVE  VersionsInv' /\ \A p \in Profiles : keepsPlans(plans[p], plans'[p])
<1>1. /\ tx = [v \in Workers |-> tx[v]] /\ Idle.cmd # "setAllocation"
      /\ \A p \in Profiles : plans[p] \in Seq(Allocations)
  BY DEF TxIInv, ShapeInv, Idle
<1>2. ASSUME NEW w \in Workers, Begin(w)
      PROVE  VersionsInv' /\ \A p \in Profiles : keepsPlans(plans[p], plans'[p])
  BY <1>1, <1>2, BeginVersion, PlansKeepThemselves DEF VersionsInv
<1>3. ASSUME NEW w \in Workers, CommitSetAllocation(w)
      PROVE  VersionsInv' /\ \A p \in Profiles : keepsPlans(plans[p], plans'[p])
  <2>1. PICK t : t = tx[w]
    OBVIOUS
  <2>2. PICK p \in Profiles : p = t.p
    BY <1>3, <2>1, AllocationCommitted
  <2>3. PICK list \in Seq(Allocations) : list = plans[p]
    BY <1>1
  <2>4. PICK new : new = inPlan(list, Len(list), t.u, t.bp)
    OBVIOUS
  <2>5. t.version = Len(list)
    <3>1. t.version \in {0, Len(list)}
      BY <1>3, <2>1, <2>2, <2>3, AllocationCommitted DEF VersionsInv
    <3>2. t.version = 0 => list = <<>>
      BY <1>3, <2>1, <2>2, <2>3, AllocationCommitted
    <3>3. QED
      BY <3>1, <3>2
  <2>6. /\ plans'[p] = new /\ \A q \in Profiles : q # p => plans'[q] = plans[q]
        /\ t.u \in Users /\ t.bp \in 0..FullAllocationBp
        /\ tx' = [tx EXCEPT ![w] = Idle]
    BY <1>3, <2>1, <2>2, <2>3, <2>4, <2>5, AllocationCommitted
  <2>7. keepsPlans(list, new) /\ (list # <<>> => Len(new) = Len(list))
    BY <2>4, <2>6, InCurrentPlan
  <2>8. \A q \in Profiles : keepsPlans(plans[q], plans'[q])
    BY <1>1, <2>3, <2>6, <2>7, PlansKeepThemselves
  <2>9. Len(plans[p]) = 0 \/ Len(plans'[p]) = Len(plans[p])
    BY <2>3, <2>6, <2>7
  <2>10. ASSUME NEW v \in Workers, tx'[v].cmd = "setAllocation"
         PROVE  /\ tx'[v] = tx[v]
                /\ \/ Len(plans[tx[v].p]) = 0
                   \/ Len(plans'[tx[v].p]) = Len(plans[tx[v].p])
    <3>1. tx'[v] = tx[v]
      BY <1>1, <2>6, <2>10
    <3>2. tx[v].p \in Profiles
      BY <2>10, <3>1, Kinds DEF isSetAllocation
    <3>3. QED
      BY <2>6, <2>9, <3>1, <3>2
  <2>11. QED
    BY <2>8, <2>10, VersionsStep
<1>4. ASSUME NEW w \in Workers, CommitRedistribute(w)
      PROVE  VersionsInv' /\ \A p \in Profiles : keepsPlans(plans[p], plans'[p])
  <2>1. PICK t : t = tx[w]
    OBVIOUS
  <2>2. PICK p \in Profiles : p = t.p
    BY <1>4, <2>1, RedistributionCommitted
  <2>3. PICK plan \in Allocations : plan = t.allocations
    BY <1>4, <2>1, RedistributionCommitted
  <2>4. /\ plans'[p] = Append(plans[p], plan) /\ \A q \in Profiles : q # p => plans'[q] = plans[q]
        /\ tx' = [tx EXCEPT ![w] = Idle] /\ tx[w].cmd = "redistribute"
    BY <1>4, <2>1, <2>2, <2>3, RedistributionCommitted
  <2>5. \A q \in Profiles : keepsPlans(plans[q], plans'[q])
    BY <1>1, <2>4, PlanAppended, PlansKeepThemselves
  <2>6. ASSUME NEW v \in Workers, tx'[v].cmd = "setAllocation"
        PROVE  tx'[v] = tx[v] /\ Len(plans'[tx[v].p]) = Len(plans[tx[v].p])
    <3>1. tx'[v] = tx[v]
      BY <1>1, <2>4, <2>6
    <3>2. tx[v].p \in Profiles /\ tx[v].p # p
      BY <2>1, <2>2, <2>4, <2>6, <3>1, Kinds DEF isSetAllocation, RedistributionsTakeTurns
    <3>3. QED
      BY <2>4, <3>1, <3>2
  <2>7. QED
    BY <2>5, <2>6, VersionsStep
<1>5. ASSUME plans' = plans, \A w \in Workers : tx'[w] = tx[w] \/ tx'[w] = Idle
      PROVE  VersionsInv' /\ \A p \in Profiles : keepsPlans(plans[p], plans'[p])
  BY <1>1, <1>5, PlansKeepThemselves, VersionsStep
<1>6. ASSUME \/ \E w \in Workers : Rollback(w) \/ CommitRecord(w) \/ CommitRollover(w)
             \/ Surroundings /\ UNCHANGED tx
             \/ UNCHANGED txVars
      PROVE  plans' = plans /\ \A w \in Workers : tx'[w] = tx[w] \/ tx'[w] = Idle
  BY <1>1, <1>6
  DEF Rollback, CommitRecord, CommitRollover, commit, Surroundings, Join, Leave, Archive,
      Tick, membershipVars, stored, vars, txVars
<1>7. QED
  BY <1>2, <1>3, <1>4, <1>5, <1>6 DEF TxNext

\* As long as no percentage is set during a redistribution, the versions before the
\* current one are not written.
THEOREM SupersededPlansAreFrozenInTurns ==
  TxSpec /\ []RedistributionsTakeTurns => SupersededPlansAreFrozen
<1> DEFINE Frozen == \A p \in Profiles : \A v \in 1..(currentVersion(p) - 1) :
                       plans'[p][v] = plans[p][v]
<1>1. ASSUME TxIInv, VersionsInv, RedistributionsTakeTurns, [TxNext]_txVars
      PROVE  VersionsInv' /\ Frozen
  <2>1. \A p \in Profiles : Len(plans[p]) \in Nat
    BY <1>1 DEF TxIInv, ShapeInv
  <2>2. VersionsInv' /\ \A p \in Profiles : keepsPlans(plans[p], plans'[p])
    BY <1>1, NextVersionsInv
  <2>3. QED
    BY <2>1, <2>2 DEF keepsPlans, currentVersion
<1>2. TxInit => VersionsInv
  BY DEF TxInit, VersionsInv, Idle
<1>3. QED
  BY <1>1, <1>2, TxInductive, PTL DEF TxSpec, SupersededPlansAreFrozen

-----------------------------------------------------------------------------
(* Commands that take turns on a user's percentages. *)

\* A command that gives the user a percentage.
isAboutShareOf(t, u) ==
  \/ t.cmd = "setAllocation" /\ t.u = u
  \/ t.cmd = "redistribute" /\ u \in DOMAIN t.allocations

\* Percentages of the same user are not set at the same time.
ShareCommandsTakeTurns ==
  \A u \in Users, v, w \in Workers :
    isAboutShareOf(tx[v], u) /\ isAboutShareOf(tx[w], u) => v = w

\* The user is or was a member of the profile, and the percentage is within the cap.
fits(p, u, bp) ==
  /\ role[p][u] # "NONE"
  /\ committedByUser(u, Profiles \ {p}) + bp <= FullAllocationBp

\* A command is about to give the user this percentage in this profile.
gives(t, p, u, bp) ==
  /\ isAboutShareOf(t, u) /\ t.p = p
  /\ bp = IF t.cmd = "setAllocation" THEN t.bp ELSE t.allocations[u]

\* What a command gives still fits.
SharesInv ==
  /\ CapInv
  /\ \A w \in Workers, p \in Profiles, u \in Users, bp \in Nat :
       gives(tx[w], p, u, bp) => fits(p, u, bp)

\* The user's percentage in profile p is not more than it was.
shareFalls(p, u) ==
  \/ role'[p][u] \notin MemberRole
  \/ shareOf(plans'[p], u) = 0
  \/ isMember(p, u) /\ shareOf(plans'[p], u) = shareOf(plans[p], u)

\* Percentages are numbers, and there are finitely many.
LEMMA SharesAre ==
  ASSUME ShapeInv, NEW u \in Users, NEW among \in SUBSET Profiles
  PROVE  /\ committedByUser(u, among) = SumFunctionOnSet(shares(u), memberships(u) \cap among)
         /\ \A q \in Profiles : /\ shares(u)[q] = shareOf(plans[q], u)
                                /\ shareOf(plans[q], u) \in Nat
         /\ committedByUser(u, among) \in Nat
<1>1. committedByUser(u, among) = SumFunctionOnSet(shares(u), memberships(u) \cap among)
  BY CommittedIs DEF CommittedByShares
<1>2. ASSUME NEW q \in Profiles PROVE shareOf(plans[q], u) \in Nat
  <2>1. plans[q] \in Seq(Allocations)
    BY DEF ShapeInv
  <2>2. shareOf(plans[q], u) \in 0..FullAllocationBp
    BY <2>1, ShareType
  <2>3. QED
    BY <2>2, ContributionsAssumption
<1>3. \A q \in Profiles : shares(u)[q] = shareOf(plans[q], u)
  BY DEF shares
<1>4. PICK S \in SUBSET Profiles : S = memberships(u) \cap among
  OBVIOUS
<1>5. PICK fun : fun = shares(u)
  OBVIOUS
<1>6. SumFunctionOnSet(fun, S) \in Nat
  <2>1. IsFiniteSet(S)
    BY FS_Subset, ContributionsAssumption
  <2>2. \A q \in S : fun[q] \in Nat
    BY <1>2, <1>3, <1>5
  <2>3. QED
    BY <2>1, <2>2, SumType
<1>7. QED
  BY <1>1, <1>2, <1>3, <1>4, <1>5, <1>6

SharesAreNumbers ==
  ShapeInv => \A u \in Users, among \in SUBSET Profiles :
    /\ committedByUser(u, among) = SumFunctionOnSet(shares(u), memberships(u) \cap among)
    /\ \A q \in Profiles : /\ shares(u)[q] = shareOf(plans[q], u)
                           /\ shareOf(plans[q], u) \in Nat
    /\ committedByUser(u, among) \in Nat

\* The same, in a form that holds of the next state too.
LEMMA AlwaysNumbers == SharesAreNumbers
BY SharesAre DEF SharesAreNumbers

\* What a user has committed falls when one percentage falls.
LEMMA CommitmentFalls ==
  ASSUME ShapeInv, ShapeInv', NEW p \in Profiles, NEW u \in Users,
         \A q \in Profiles : q # p => role'[q] = role[q] /\ plans'[q] = plans[q],
         shareFalls(p, u), NEW among \in SUBSET Profiles
  PROVE  committedByUser(u, among)' <= committedByUser(u, among)
<1>1. PICK S \in SUBSET Profiles : S = memberships(u) \cap among
  OBVIOUS
<1>2. PICK T \in SUBSET Profiles : T = memberships(u)' \cap among
  OBVIOUS
<1>3. PICK fun : fun = shares(u)
  OBVIOUS
<1>4. PICK gun : gun = shares(u)'
  OBVIOUS
<1>5. /\ committedByUser(u, among) = SumFunctionOnSet(fun, S)
      /\ \A q \in Profiles : fun[q] = shareOf(plans[q], u) /\ fun[q] \in Nat
  BY <1>1, <1>3, SharesAre
<1>6. /\ committedByUser(u, among)' = SumFunctionOnSet(gun, T)
      /\ \A q \in Profiles : gun[q] = shareOf(plans'[q], u) /\ gun[q] \in Nat
  <2>1. SharesAreNumbers'
    BY AlwaysNumbers, PTL
  <2>2. QED
    BY <1>2, <1>4, <2>1 DEF SharesAreNumbers
<1>7. differAt(p, fun, S, gun, T)
  BY <1>1, <1>2, <1>5, <1>6 DEF differAt, memberships, isMember
<1>8. PICK rest : rest = S \ {p}
  OBVIOUS
<1>9. /\ p \in T => SumFunctionOnSet(gun, T) = gun[p] + SumFunctionOnSet(fun, rest)
      /\ p \notin T => SumFunctionOnSet(gun, T) = SumFunctionOnSet(fun, rest)
  BY <1>7, <1>8, OneShareChanges
<1>10. IsFiniteSet(S) /\ IsFiniteSet(rest) /\ rest \subseteq S
  BY <1>8, FS_Subset, ContributionsAssumption
<1>11. PICK before \in Nat : before = SumFunctionOnSet(fun, S)
  BY <1>5, <1>10, SumType
<1>12. PICK elsewhere \in Nat : elsewhere = SumFunctionOnSet(fun, rest)
  BY <1>5, <1>10, SumType
<1>13. elsewhere <= before
  BY <1>5, <1>10, <1>11, <1>12, SumOfSubset
<1>14. p \in S => before = fun[p] + elsewhere
  <2>1. p \in S => SumFunctionOnSet(fun, S) = fun[p] + SumFunctionOnSet(fun, S \ {p})
    BY <1>5, <1>10, SumRemove
  <2>2. QED
    BY <1>8, <1>11, <1>12, <2>1, Zenon
<1>15. /\ p \in S <=> isMember(p, u) /\ p \in among
       /\ p \in T <=> role'[p][u] \in MemberRole /\ p \in among
  BY <1>1, <1>2 DEF memberships, isMember
<1>16. p \notin T \/ gun[p] = 0 \/ (p \in S /\ gun[p] = fun[p])
  BY <1>5, <1>6, <1>15 DEF shareFalls
<1>17. SumFunctionOnSet(gun, T) <= before
  BY <1>5, <1>6, <1>9, <1>11, <1>12, <1>13, <1>14, <1>16
<1>18. QED
  BY <1>5, <1>6, <1>11, <1>17

\* What fits still does when nobody's role or plan is written.
LEMMA FitsStands ==
  ASSUME UNCHANGED <<role, plans>>, NEW p, NEW u, NEW bp, fits(p, u, bp)
  PROVE  fits(p, u, bp)'
BY DEF fits, committedByUser, currentAllocation, allocationIn, currentVersion, isMember

\* And when the user's percentage falls.
LEMMA FitsLater ==
  ASSUME ShapeInv, ShapeInv', NEW p \in Profiles, NEW u \in Users,
         \A q \in Profiles : q # p => role'[q] = role[q] /\ plans'[q] = plans[q],
         shareFalls(p, u), role[p][u] # "NONE" => role'[p][u] # "NONE",
         NEW q \in Profiles, NEW bp \in Nat, fits(q, u, bp)
  PROVE  fits(q, u, bp)'
<1>1. PICK among \in SUBSET Profiles : among = Profiles \ {q}
  OBVIOUS
<1>2. PICK before \in Nat : before = committedByUser(u, among)
  BY SharesAre
<1>3. PICK after \in Nat : after = committedByUser(u, among)'
  <2>1. SharesAreNumbers'
    BY AlwaysNumbers, PTL
  <2>2. QED
    BY <2>1 DEF SharesAreNumbers
<1>4. after <= before
  BY <1>2, <1>3, CommitmentFalls
<1>5. before + bp <= FullAllocationBp /\ FullAllocationBp \in Nat
  BY <1>1, <1>2, ContributionsAssumption DEF fits
<1>6. after + bp <= FullAllocationBp
  BY <1>4, <1>5
<1>7. role'[q][u] # "NONE"
  BY DEF fits
<1>8. QED
  BY <1>1, <1>3, <1>6, <1>7 DEF fits

\* A step that writes at most one profile's roles and plans, and raises nobody's
\* percentage that a command in flight is about.
LEMMA SharesStep ==
  ASSUME ShapeInv, ShapeInv', SharesInv, CapInv', NEW p \in Profiles,
         \A q \in Profiles : q # p => role'[q] = role[q] /\ plans'[q] = plans[q],
         \A u \in Users : role[p][u] # "NONE" => role'[p][u] # "NONE",
         \A w \in Workers :
           \/ tx'[w] = Idle
           \/ /\ tx'[w] = tx[w]
              /\ \A u \in Users : isAboutShareOf(tx[w], u) => shareFalls(p, u)
  PROVE  SharesInv'
<1>1. ASSUME NEW w \in Workers, NEW q \in Profiles, NEW u \in Users, NEW bp \in Nat,
             gives(tx'[w], q, u, bp)
      PROVE  fits(q, u, bp)'
  <2>1. tx'[w] # Idle
    BY <1>1 DEF gives, isAboutShareOf, Idle
  <2>2. tx'[w] = tx[w] /\ shareFalls(p, u) /\ fits(q, u, bp)
    BY <1>1, <2>1 DEF gives, SharesInv
  <2>3. QED
    BY <2>2, FitsLater
<1>2. QED
  BY <1>1 DEF SharesInv

\* A step that writes neither roles nor plans.
LEMMA SharesQuiet ==
  ASSUME SharesInv, UNCHANGED <<role, plans>>,
         \A w \in Workers :
           \/ tx'[w] \in {tx[w], Idle}
           \/ \A p \in Profiles, u \in Users, bp \in Nat :
                gives(tx'[w], p, u, bp) => fits(p, u, bp)
  PROVE  SharesInv'
<1>1. ASSUME NEW w \in Workers, NEW p \in Profiles, NEW u \in Users, NEW bp \in Nat,
             gives(tx'[w], p, u, bp)
      PROVE  fits(p, u, bp)'
  <2>1. tx'[w] # Idle
    BY <1>1 DEF gives, isAboutShareOf, Idle
  <2>2. fits(p, u, bp)
    BY <1>1, <2>1 DEF SharesInv
  <2>3. QED
    BY <2>2, FitsStands
<1>2. CapInv'
  BY CapStands DEF SharesInv
<1>3. QED
  BY <1>1, <1>2 DEF SharesInv

\* What a command gives fits when it reads it.
LEMMA BeginShares ==
  ASSUME TxIInv, SharesInv, NEW w \in Workers, Begin(w)
  PROVE  SharesInv'
<1>1. tx = [v \in Workers |-> tx[v]]
  BY DEF TxIInv
<1>2. ASSUME NEW t, begin(w, t),
             \A p \in Profiles, u \in Users, bp \in Nat :
               gives(t, p, u, bp) => fits(p, u, bp)
      PROVE  SharesInv'
  <2>1. /\ UNCHANGED <<role, plans>>
        /\ \A v \in Workers : tx'[v] = IF v = w THEN t ELSE tx[v]
    BY <1>1, <1>2 DEF begin, stored, vars
  <2>2. QED
    BY <1>2, <2>1, SharesQuiet
<1>3. ASSUME NEW p \in Profiles, NEW u \in Users, NEW bp \in 0..FullAllocationBp,
             BeginSetAllocation(w, p, u, bp)
      PROVE  SharesInv'
  <2>1. PICK t : t = [cmd |-> "setAllocation", p |-> p, u |-> u, bp |-> bp,
                      version |-> currentVersion(p)]
    OBVIOUS
  <2>2. begin(w, t)
    BY <1>3, <2>1 DEF BeginSetAllocation
  <2>3. fits(p, u, bp)
    BY <1>3 DEF BeginSetAllocation, mayContribute, checkAllocationWithinCap, fits
  <2>4. \A q \in Profiles, v \in Users, more \in Nat :
          gives(t, q, v, more) => q = p /\ v = u /\ more = bp
    BY <2>1 DEF gives, isAboutShareOf
  <2>5. QED
    BY <1>2, <2>2, <2>3, <2>4
<1>4. ASSUME NEW p \in Profiles, NEW u \in Users, NEW allocations \in Allocations,
             BeginRedistribute(w, p, u, allocations)
      PROVE  SharesInv'
  <2>1. PICK t : t = [cmd |-> "redistribute", p |-> p, allocations |-> allocations,
                      version |-> currentVersion(p)]
    OBVIOUS
  <2>2. begin(w, t)
    BY <1>4, <2>1 DEF BeginRedistribute
  <2>3. \A v \in DOMAIN allocations :
          isMember(p, v) /\ checkAllocationWithinCap(p, v, allocations[v])
    BY <1>4 DEF BeginRedistribute
  <2>4. \A v \in DOMAIN allocations : fits(p, v, allocations[v])
    BY <2>3 DEF isMember, MemberRole, checkAllocationWithinCap, fits
  <2>5. \A q \in Profiles, v \in Users, more \in Nat :
          gives(t, q, v, more) => q = p /\ v \in DOMAIN allocations /\ more = allocations[v]
    BY <2>1 DEF gives, isAboutShareOf
  <2>6. QED
    BY <1>2, <2>2, <2>4, <2>5
<1>5. ASSUME NEW t, begin(w, t), t.cmd \notin {"setAllocation", "redistribute"}
      PROVE  SharesInv'
  BY <1>2, <1>5 DEF gives, isAboutShareOf
<1>6. ASSUME NEW p \in Profiles, NEW u \in Users, NEW amount \in 1..MaxAmount,
             BeginRecord(w, p, u, amount)
      PROVE  \E t : begin(w, t) /\ t.cmd \notin {"setAllocation", "redistribute"}
  BY <1>6 DEF BeginRecord
<1>7. ASSUME NEW S \in SUBSET Profiles, NEW batch \in [S -> 1..MaxPeriods],
             BeginRollover(w, batch)
      PROVE  \E t : begin(w, t) /\ t.cmd \notin {"setAllocation", "redistribute"}
  BY <1>7 DEF BeginRollover
<1>8. QED
  BY <1>3, <1>4, <1>5, <1>6, <1>7 DEF Begin

\* A plan version that is not the current one gives nobody a percentage.
LEMMA ShareCommitted ==
  ASSUME NEW list \in Seq(Allocations), NEW u \in Users, NEW bp \in 0..FullAllocationBp,
         NEW version \in 0..Len(list), version = 0 => list = <<>>, NEW v \in Users,
         NEW new, new = inPlan(list, version, u, bp)
  PROVE  shareOf(new, v) = shareOf(list, v) \/ (v = u /\ shareOf(new, v) = bp)
<1>1. CASE version = Len(list)
  BY <1>1, ShareInCurrentPlan
<1>2. CASE version # Len(list)
  <2>1. version \in 1..Len(list) /\ version # 0
    BY <1>2
  <2>2. PICK plan \in Allocations : plan = upsertAllocation(list[version], u, bp)
    BY <2>1, ElementOfSeq, UpsertedIs
  <2>3. new = [list EXCEPT ![version] = plan]
    BY <2>1, <2>2 DEF inPlan
  <2>4. PICK n \in 1..Len(list) : n = Len(list)
    BY <2>1
  <2>5. Len(new) = n /\ new[n] = list[n] /\ new # <<>> /\ list # <<>>
    BY <1>2, <2>1, <2>3, <2>4, ExceptSeq
  <2>6. QED
    BY <2>4, <2>5 DEF shareOf
<1>3. QED
  BY <1>1, <1>2

\* A percentage that ends is within the cap.
LEMMA CommitSetAllocationShares ==
  ASSUME TxIInv, SharesInv, ShareCommandsTakeTurns, NEW w \in Workers, CommitSetAllocation(w)
  PROVE  SharesInv'
<1>1. PICK t : t = tx[w]
  OBVIOUS
<1>2. PICK p \in Profiles : p = t.p
  BY <1>1, AllocationCommitted
<1>3. PICK u \in Users : u = t.u
  BY <1>1, AllocationCommitted
<1>4. PICK bp \in 0..FullAllocationBp : bp = t.bp
  BY <1>1, AllocationCommitted
<1>5. PICK list \in Seq(Allocations) : list = plans[p]
  BY DEF TxIInv, ShapeInv
<1>6. PICK version \in 0..Len(list) : version = t.version
  BY <1>1, <1>2, <1>5, AllocationCommitted
<1>7. PICK new : new = inPlan(list, version, u, bp)
  OBVIOUS
<1>8. /\ version = 0 => list = <<>>
      /\ plans'[p] = new /\ \A q \in Profiles : q # p => plans'[q] = plans[q]
      /\ role' = role /\ tx' = [tx EXCEPT ![w] = Idle] /\ t.cmd = "setAllocation"
  BY <1>1, <1>2, <1>3, <1>4, <1>5, <1>6, <1>7, AllocationCommitted
<1>9. \A v \in Users : shareOf(new, v) = shareOf(list, v) \/ (v = u /\ shareOf(new, v) = bp)
  BY <1>7, <1>8, ShareCommitted
<1>10. fits(p, u, bp)
  <2>1. gives(t, p, u, bp) /\ bp \in Nat
    BY <1>2, <1>3, <1>4, <1>8, ContributionsAssumption DEF gives, isAboutShareOf
  <2>2. QED
    BY <1>1, <2>1 DEF SharesInv
<1>11. ShapeInv /\ ShapeInv'
  BY CommitSetAllocationIInv DEF TxIInv
<1>12. CapInv'
  <2>1. ASSUME NEW v \in Users
        PROVE  /\ role'[p][v] = "NONE" => shareOf(plans'[p], v) = 0
               /\ \/ committedByUser(v, Profiles \ {p}) + shareOf(plans'[p], v) <= FullAllocationBp
                  \/ role'[p][v] \notin MemberRole
                  \/ isMember(p, v) /\ shareOf(plans'[p], v) = shareOf(plans[p], v)
    <3>1. CASE shareOf(new, v) = shareOf(list, v)
      BY <1>5, <1>8, <3>1 DEF SharesInv, CapInv, StrangersInv, isMember
    <3>2. CASE v = u /\ shareOf(new, v) = bp
      BY <1>8, <1>10, <3>2 DEF fits
    <3>3. QED
      BY <1>9, <3>1, <3>2
  <2>2. QED
    BY <1>8, <1>11, <2>1, CapStep DEF SharesInv
<1>13. ASSUME NEW v \in Workers
       PROVE  \/ tx'[v] = Idle
              \/ /\ tx'[v] = tx[v]
                 /\ \A x \in Users : isAboutShareOf(tx[v], x) => shareFalls(p, x)
  <2>1. CASE v = w
    BY <1>8, <2>1 DEF TxIInv
  <2>2. CASE v # w
    <3>1. isAboutShareOf(tx[w], u)
      BY <1>1, <1>3, <1>8 DEF isAboutShareOf
    <3>2. \A x \in Users : isAboutShareOf(tx[v], x) => x # u
      BY <2>2, <3>1 DEF ShareCommandsTakeTurns
    <3>3. \A x \in Users : x # u => shareFalls(p, x)
      BY <1>5, <1>8, <1>9 DEF shareFalls, isMember
    <3>4. tx'[v] = tx[v]
      BY <1>8, <2>2 DEF TxIInv
    <3>5. QED
      BY <3>2, <3>3, <3>4
  <2>3. QED
    BY <2>1, <2>2
<1>14. QED
  BY <1>8, <1>11, <1>12, <1>13, SharesStep

\* So are the percentages of a redistribution, and who is left out has none.
LEMMA CommitRedistributeShares ==
  ASSUME TxIInv, SharesInv, ShareCommandsTakeTurns, NEW w \in Workers, CommitRedistribute(w)
  PROVE  SharesInv'
<1>1. PICK t : t = tx[w]
  OBVIOUS
<1>2. PICK p \in Profiles : p = t.p
  BY <1>1, RedistributionCommitted
<1>3. PICK plan \in Allocations : plan = t.allocations
  BY <1>1, RedistributionCommitted
<1>4. /\ plans'[p] = Append(plans[p], plan)
      /\ \A q \in Profiles : q # p => plans'[q] = plans[q]
      /\ role' = role /\ tx' = [tx EXCEPT ![w] = Idle] /\ t.cmd = "redistribute"
  BY <1>1, <1>2, <1>3, RedistributionCommitted
<1>5. \A v \in Users : shareOf(plans'[p], v) = IF v \in DOMAIN plan THEN plan[v] ELSE 0
  BY <1>4, ShareInAppended DEF TxIInv, ShapeInv
<1>6. ASSUME NEW v \in Users, v \in DOMAIN plan PROVE fits(p, v, plan[v])
  <2>1. plan[v] \in Nat
    BY <1>6, ContributionsAssumption DEF Allocations
  <2>2. gives(t, p, v, plan[v])
    BY <1>2, <1>3, <1>4, <1>6 DEF gives, isAboutShareOf
  <2>3. QED
    BY <1>1, <2>1, <2>2 DEF SharesInv
<1>7. ShapeInv /\ ShapeInv'
  BY CommitRedistributeIInv DEF TxIInv
<1>8. CapInv'
  <2>1. ASSUME NEW v \in Users
        PROVE  /\ role'[p][v] = "NONE" => shareOf(plans'[p], v) = 0
               /\ \/ committedByUser(v, Profiles \ {p}) + shareOf(plans'[p], v) <= FullAllocationBp
                  \/ shareOf(plans'[p], v) = 0
    BY <1>4, <1>5, <1>6 DEF fits
  <2>2. QED
    BY <1>4, <1>7, <2>1, CapStep DEF SharesInv
<1>9. ASSUME NEW v \in Workers
      PROVE  \/ tx'[v] = Idle
             \/ /\ tx'[v] = tx[v]
                /\ \A x \in Users : isAboutShareOf(tx[v], x) => shareFalls(p, x)
  <2>1. CASE v = w
    BY <1>4, <2>1 DEF TxIInv
  <2>2. CASE v # w
    <3>1. \A x \in DOMAIN plan : isAboutShareOf(tx[w], x)
      BY <1>1, <1>3, <1>4 DEF isAboutShareOf
    <3>2. \A x \in Users : isAboutShareOf(tx[v], x) => x \notin DOMAIN plan
      BY <2>2, <3>1 DEF ShareCommandsTakeTurns
    <3>3. \A x \in Users : x \notin DOMAIN plan => shareFalls(p, x)
      BY <1>5 DEF shareFalls
    <3>4. tx'[v] = tx[v]
      BY <1>4, <2>2 DEF TxIInv
    <3>5. QED
      BY <3>2, <3>3, <3>4
  <2>3. QED
    BY <2>1, <2>2
<1>10. QED
  BY <1>4, <1>7, <1>8, <1>9, SharesStep

\* As long as a user's percentages are set one after the other, they stay within the cap.
LEMMA NextSharesInv ==
  ASSUME TxIInv, SharesInv, ShareCommandsTakeTurns, [TxNext]_txVars
  PROVE  SharesInv'
<1>1. /\ ShapeInv /\ ShapeInv' /\ CapInv
      /\ tx = [v \in Workers |-> tx[v]]
  BY TxNextIInv DEF TxIInv, SharesInv
<1>2. ASSUME NEW p \in Profiles, NEW u \in Users, NEW r \in Roles, Join(p, u, r), tx' = tx
      PROVE  SharesInv'
  <2>1. /\ plans' = plans /\ \A q \in Profiles : q # p => role'[q] = role[q]
        /\ \A v \in Users : v # u => role'[p][v] = role[p][v]
        /\ role[p][u] = "NONE" /\ role'[p][u] = r
    BY <1>1, <1>2 DEF Join, ShapeInv
  <2>2. shareOf(plans'[p], u) = 0
    BY <1>1, <2>1 DEF CapInv, StrangersInv
  <2>3. \A v \in Users : shareFalls(p, v)
    BY <2>1, <2>2 DEF shareFalls, isMember
  <2>4. r # "NONE"
    BY ContributionsAssumption DEF MemberRole
  <2>5. \A v \in Users : role'[p][v] = "NONE" => shareOf(plans'[p], v) = 0
    BY <1>1, <2>1, <2>4 DEF CapInv, StrangersInv
  <2>6. CapInv'
    BY <1>1, <2>1, <2>3, <2>5, CapStep DEF shareFalls
  <2>7. QED
    BY <1>1, <1>2, <2>1, <2>3, <2>4, <2>6, SharesStep
<1>3. ASSUME NEW p \in Profiles, NEW u \in Users, Leave(p, u), tx' = tx
      PROVE  SharesInv'
  <2>1. /\ plans' = plans /\ \A q \in Profiles : q # p => role'[q] = role[q]
        /\ \A v \in Users : v # u => role'[p][v] = role[p][v]
        /\ role'[p][u] = "LEFT"
    BY <1>1, <1>3 DEF Leave, ShapeInv
  <2>2. \A v \in Users : shareFalls(p, v)
    BY <2>1 DEF shareFalls, isMember, MemberRole
  <2>3. \A v \in Users : role'[p][v] = "NONE" => shareOf(plans'[p], v) = 0
    BY <1>1, <2>1 DEF CapInv, StrangersInv
  <2>4. CapInv'
    BY <1>1, <2>1, <2>2, <2>3, CapStep DEF shareFalls
  <2>5. QED
    BY <1>1, <1>3, <2>1, <2>2, <2>4, SharesStep
<1>4. ASSUME UNCHANGED <<role, plans>>, \A w \in Workers : tx'[w] \in {tx[w], Idle}
      PROVE  SharesInv'
  BY <1>4, SharesQuiet
<1>5. ASSUME \/ \E w \in Workers : Rollback(w) \/ CommitRecord(w) \/ CommitRollover(w)
             \/ (Tick \/ \E p \in Profiles : Archive(p)) /\ UNCHANGED tx
             \/ UNCHANGED txVars
      PROVE  UNCHANGED <<role, plans>> /\ \A w \in Workers : tx'[w] \in {tx[w], Idle}
  BY <1>1, <1>5
  DEF Rollback, CommitRecord, CommitRollover, commit, Archive, Tick, membershipVars, stored,
      vars, txVars
<1>6. QED
  BY <1>2, <1>3, <1>4, <1>5, BeginShares, CommitSetAllocationShares, CommitRedistributeShares
  DEF TxNext, Surroundings

\* Nobody commits more than 100%, whatever else overlaps, as long as a user's
\* percentages are not set at the same time.
THEOREM CapRespectedInTurns == TxSpec /\ []ShareCommandsTakeTurns => []CapRespected
<1>1. TxIInv /\ SharesInv /\ ShareCommandsTakeTurns /\ [TxNext]_txVars => SharesInv'
  BY NextSharesInv
<1>2. TxInit => SharesInv
  BY InitCapInv DEF TxInit, SharesInv, gives, isAboutShareOf, Idle
<1>3. SharesInv => CapRespected
  BY DEF SharesInv, CapInv
<1>4. QED
  BY <1>1, <1>2, <1>3, TxInductive, PTL DEF TxSpec

-----------------------------------------------------------------------------
(* The read side, and what goes live. *)

\* One period is replaced by one with at least its records, and others may follow.
LEMMA RecordsKept ==
  ASSUME NEW list \in Seq(Period), NEW i \in 1..Len(list), NEW w \in Period,
         \A u \in Users : list[i].actual[u] <= w.actual[u],
         NEW later \in Period
  PROVE  /\ grows(list, [list EXCEPT ![i] = w])
         /\ grows(list, Append([list EXCEPT ![i] = w], later))
<1>1. PICK new \in Seq(Period) : new = [list EXCEPT ![i] = w]
  BY ExceptSeq
<1>2. /\ Len(new) = Len(list) /\ new[i] = w
      /\ \A j \in 1..Len(list) : j # i => new[j] = list[j]
  BY <1>1, ExceptSeq
<1>3. PICK more \in Seq(Period) : more = Append(new, later)
  BY AppendProperties
<1>4. Len(more) = Len(list) + 1 /\ \A j \in 1..Len(list) : more[j] = new[j]
  BY <1>2, <1>3, AppendProperties
<1>5. grows(list, list)
  BY GrowsItself
<1>6. grows(list, new)
  BY <1>2, <1>5 DEF grows
<1>7. grows(list, more)
  BY <1>2, <1>4, <1>6 DEF grows
<1>8. QED
  BY <1>1, <1>3, <1>6, <1>7

\* A contribution adds to what is recorded.
LEMMA RecordingGrows ==
  ASSUME IInv, NEW p \in Profiles, NEW u \in Users, NEW amount \in Nat,
         NEW i \in latestOpen(ensureOpenPeriod(p))
  PROVE  grows(periods[p], createRecord(ensureOpenPeriod(p), i, u, amount))
<1>1. PICK list \in Seq(Period) : list = ensureOpenPeriod(p) /\ grows(periods[p], list)
  <2>1. PICK old \in Seq(Period) : old = periods[p]
    BY OfProfile
  <2>2. PICK fresh \in Period : fresh = newPeriod(p, clock)
    BY NewPeriodIs DEF IInv, ShapeInv
  <2>3. PICK more \in Seq(Period) : more = Append(old, fresh)
    BY AppendProperties
  <2>4. Len(more) = Len(old) + 1 /\ \A j \in 1..Len(old) : more[j] = old[j]
    BY <2>3, AppendProperties
  <2>5. grows(old, old)
    BY GrowsItself
  <2>6. grows(old, more)
    BY <2>4, <2>5 DEF grows
  <2>7. ensureOpenPeriod(p) = old \/ ensureOpenPeriod(p) = more
    BY <2>1, <2>2, <2>3, Zenon DEF ensureOpenPeriod
  <2>8. QED
    BY <2>1, <2>5, <2>6, <2>7
<1>2. i \in 1..Len(list)
  BY <1>1, LenProperties DEF latestOpen
<1>3. PICK w \in Period : w = list[i]
  BY <1>2, ElementOfSeq
<1>4. PICK paid \in Nat : paid = w.actual[u] + amount
  BY PeriodFields
<1>5. PICK actual \in [Users -> Nat] : actual = [w.actual EXCEPT ![u] = paid]
  BY PeriodFields
<1>6. PICK more : more = [w EXCEPT !.actual = actual]
  OBVIOUS
<1>7. more \in Period /\ more.actual = actual
  BY <1>5, <1>6, Zenon DEF Period
<1>8. \A v \in Users : w.actual[v] <= actual[v]
  BY <1>4, <1>5, PeriodFields
<1>9. createRecord(list, i, u, amount) = [list EXCEPT ![i] = more]
  BY <1>3, <1>4, <1>5, <1>6 DEF createRecord
<1>10. PICK new : new = [list EXCEPT ![i] = more]
  OBVIOUS
<1>11. grows(list, new) /\ new \in Seq(Period)
  BY <1>2, <1>3, <1>7, <1>8, <1>10, RecordsKept, ExceptSeq
<1>12. grows(periods[p], new)
  BY <1>1, <1>11, OfProfile, GrowsFurther
<1>13. QED
  BY <1>1, <1>9, <1>10, <1>12

\* A rollover leaves the records as they are.
LEMMA RollingGrows ==
  ASSUME IInv, NEW p \in Profiles, NEW i \in DOMAIN periods[p]
  PROVE  grows(periods[p], rollOver(p, i))
<1>1. PICK list \in Seq(Period) : list = periods[p]
  BY OfProfile
<1>2. i \in 1..Len(list)
  BY <1>1, LenProperties
<1>3. PICK w \in Period : w = list[i]
  BY <1>2, ElementOfSeq
<1>4. PICK last \in Period : last = closed(w)
  BY ClosedIs
<1>5. last.actual = w.actual
  BY <1>4, Zenon DEF closed, Period
<1>6. \A u \in Users : w.actual[u] <= last.actual[u]
  BY <1>5, PeriodFields
<1>7. PICK later \in Period : later = newPeriod(p, w.endDate)
  BY NewPeriodIs, PeriodFields DEF IInv
<1>8. PICK new : new = [list EXCEPT ![i] = last]
  OBVIOUS
<1>9. rollOver(p, i) = new \/ rollOver(p, i) = Append(new, later)
  BY <1>1, <1>3, <1>4, <1>7, <1>8 DEF rollOver
<1>10. grows(list, new)
  BY <1>2, <1>3, <1>6, <1>8, RecordsKept
<1>11. grows(list, Append(new, later))
  BY <1>2, <1>3, <1>6, <1>8, RecordsKept
<1>12. QED
  BY <1>1, <1>9, <1>10, <1>11

\* Records are only added.
LEMMA NextGrows ==
  ASSUME IInv, [Next]_vars, NEW p \in Profiles
  PROVE  grows(periods[p], periods'[p])
<1>1. grows(periods[p], periods[p])
  BY OfProfile, GrowsItself
<1>2. ASSUME NEW q \in Profiles, NEW u \in Users, NEW amount \in 1..MaxAmount,
             RecordContribution(q, u, amount)
      PROVE  grows(periods[p], periods'[p])
  <2>1. PICK i \in latestOpen(ensureOpenPeriod(q)) :
          periods' = [periods EXCEPT ![q] = createRecord(ensureOpenPeriod(q), i, u, amount)]
    BY <1>2 DEF RecordContribution
  <2>2. PICK new : new = createRecord(ensureOpenPeriod(q), i, u, amount)
    OBVIOUS
  <2>3. amount \in Nat
    BY ContributionsAssumption
  <2>4. grows(periods[q], new)
    BY <2>2, <2>3, RecordingGrows
  <2>5. periods'[p] = IF p = q THEN new ELSE periods[p]
    BY <2>1, <2>2 DEF IInv, ShapeInv
  <2>6. QED
    BY <1>1, <2>4, <2>5
<1>3. ASSUME NEW S \in SUBSET Profiles, NEW batch \in [S -> 1..MaxPeriods],
             RolloverForTenant(batch)
      PROVE  grows(periods[p], periods'[p])
  <2>1. periods'[p] = IF p \in S THEN rollOver(p, batch[p]) ELSE periods[p]
    BY <1>3 DEF RolloverForTenant
  <2>2. p \in S => batch[p] \in DOMAIN periods[p]
    BY <1>3 DEF RolloverForTenant
  <2>3. QED
    BY <1>1, <2>1, <2>2, RollingGrows
<1>4. CASE periods' = periods
  BY <1>1, <1>4
<1>5. QED
  BY <1>2, <1>3, <1>4, ContributionsAssumption
  DEF Next, Rollover, Join, Leave, Archive, SetAllocation, Redistribute, SetDeclaredIncome,
      Tick, vars

-----------------------------------------------------------------------------
\* The tables as functions of the rows they are read from.
planOf(list) == IF list = <<>> THEN <<>> ELSE list[Len(list)]

foundIn(list) == IF latestOpen(list) = {} THEN 0 ELSE CHOOSE i \in latestOpen(list) : TRUE

shareIn(list, version, u) ==
  IF version \in DOMAIN list /\ u \in DOMAIN list[version] THEN list[version][u] ELSE 0

liveOf(roles, incomes, plan) ==
  [u \in {v \in Users : roles[v] \in MemberRole} |->
     [income |-> incomes[u], bp |-> percentageIn(plan, u)]]

snapshotIn(period, versions) ==
  [u \in DOMAIN period.income |->
     [income |-> period.income[u], bp |-> shareIn(versions, period.planVersion, u)]]

membersIn(i, roles, incomes, versions, list) ==
  IF i = 0 THEN liveOf(roles, incomes, planOf(versions)) ELSE snapshotIn(list[i], versions)

PoolIsOfRows ==
  /\ foundPeriod = foundIn(periods[profile])
  /\ currentPlan = planOf(plans[profile])
  /\ \A i \in Nat :
       snapshotOf(i) = membersIn(i, role[profile], income[profile], plans[profile],
                                 periods[profile])
  /\ poolTotal = poolExpectedTotal(membersIn(foundIn(periods[profile]), role[profile],
                                     income[profile], plans[profile], periods[profile]))

\* What is read is such a function of the rows.
LEMMA PoolIs == PoolIsOfRows
<1>1. foundPeriod = foundIn(periods[profile])
  BY DEF foundPeriod, openPeriods, foundIn
<1>2. currentPlan = planOf(plans[profile])
  BY DEF currentPlan, planOf, currentVersion
<1>3. liveMembers(currentPlan) = liveOf(role[profile], income[profile], planOf(plans[profile]))
  BY <1>2, Zenon DEF liveMembers, activeMembers, liveOf, isMember
<1>4. ASSUME NEW i
      PROVE  snapshotOf(i) = membersIn(i, role[profile], income[profile], plans[profile],
                                       periods[profile])
  <2>1. snapshotMembers(periods[profile][i]) = snapshotIn(periods[profile][i], plans[profile])
    BY Zenon DEF snapshotMembers, snapshotIn, allocationIn, shareIn
  <2>2. QED
    BY <1>3, <2>1, Zenon DEF snapshotOf, membersIn
<1>5. QED
  BY <1>1, <1>2, <1>4, Zenon DEF PoolIsOfRows, poolTotal

\* Where the rows stand, what is read does.
LEMMA PoolStands ==
  ASSUME UNCHANGED <<role, income, plans, periods>>
  PROVE  /\ foundPeriod' = foundPeriod /\ currentPlan' = currentPlan /\ poolTotal' = poolTotal
         /\ \A i \in Nat : snapshotOf(i)' = snapshotOf(i)
<1>1. PoolIsOfRows'
  BY PoolIs, PTL
<1>2. QED
  BY <1>1, PoolIs, Zenon DEF PoolIsOfRows

\* There is a profile to read the pool of.
LEMMA ProfileIsOne == profile \in Profiles
BY LivePoolAssumption DEF profile

\* The snapshot of a period stands as long as the plans do.
LEMMA SnapshotStands ==
  ASSUME IInv, HistoryStep, plans' = plans, NEW i \in 1..Len(periods[profile])
  PROVE  snapshotOf(i)' = snapshotOf(i)
<1>1. /\ periods'[profile][i].income = periods[profile][i].income
      /\ periods'[profile][i].planVersion = periods[profile][i].planVersion
  BY ProfileIsOne DEF HistoryStep, keeps
<1>2. snapshotIn(periods'[profile][i], plans[profile]) = snapshotIn(periods[profile][i], plans[profile])
  BY <1>1, Zenon DEF snapshotIn
<1>3. PoolIsOfRows'
  BY PoolIs, PTL
<1>4. i \in Nat /\ i # 0
  OBVIOUS
<1>5. snapshotOf(i) = snapshotIn(periods[profile][i], plans[profile])
  BY <1>4, PoolIs, Zenon DEF PoolIsOfRows, membersIn
<1>6. snapshotOf(i)' = snapshotIn(periods'[profile][i], plans'[profile])
  BY <1>3, <1>4, Zenon DEF PoolIsOfRows, membersIn
<1>7. QED
  BY <1>2, <1>5, <1>6, Zenon

\* There are no fewer periods than there were.
LEMMA PeriodsRemain ==
  ASSUME IInv, IInv', HistoryStep, NEW n \in 0..Len(periods[profile])
  PROVE  n \in 0..Len(periods'[profile])
<1>1. Len(periods[profile]) \in Nat
  BY ProfileIsOne, OfProfile
<1>2. Len(periods'[profile]) \in Nat
  BY ProfileIsOne, LenProperties DEF IInv, ShapeInv
<1>3. n \in 1..Len(periods[profile]) => n \in 1..Len(periods'[profile])
  BY ProfileIsOne DEF HistoryStep, keeps
<1>4. QED
  BY <1>1, <1>2, <1>3

\* Of numbers for each of finitely many members the total is a number.
LEMMA TotalType ==
  ASSUME NEW members, IsFiniteSet(DOMAIN members),
         \A u \in DOMAIN members : members[u].income \in Nat /\ members[u].bp \in Nat
  PROVE  poolExpectedTotal(members) \in Nat
<1>1. PICK expected : expected = [u \in DOMAIN members |-> expectedFor(members[u])]
  OBVIOUS
<1>2. \A u \in DOMAIN members : expected[u] \in Nat
  <2> TAKE u \in DOMAIN members
  <2>1. PICK i \in Nat, b \in Nat : i = members[u].income /\ b = members[u].bp
    OBVIOUS
  <2>2. i * b \in Nat
    OBVIOUS
  <2>3. QED
    BY <1>1, <2>1, <2>2 DEF expectedFor
<1>3. DOMAIN expected = DOMAIN members
  BY <1>1
<1>4. SumFunctionOnSet(expected, DOMAIN members) \in Nat
  BY <1>2, SumType
<1>5. QED
  BY <1>1, <1>3, <1>4 DEF poolExpectedTotal, SumFunction

\* A share is a number.
LEMMA PlanShares ==
  ASSUME NEW plan \in Allocations \cup {<<>>}, NEW u \in DOMAIN plan
  PROVE  plan[u] \in Nat
<1>1. CASE plan = <<>>
  BY <1>1
<1>2. CASE plan \in Allocations
  <2>1. PICK S \in SUBSET Users : plan \in [S -> 0..FullAllocationBp]
    BY <1>2 DEF Allocations
  <2>2. QED
    BY <2>1, ContributionsAssumption
<1>3. QED
  BY <1>1, <1>2

\* Without an open period the total is a number.
LEMMA LiveTotalType ==
  ASSUME IInv, NEW plan \in Allocations \cup {<<>>}
  PROVE  poolExpectedTotal(liveMembers(plan)) \in Nat
<1>1. PICK members : members = liveMembers(plan)
  OBVIOUS
<1>2. DOMAIN members = {v \in Users : isMember(profile, v)}
  BY <1>1 DEF liveMembers, activeMembers
<1>3. IsFiniteSet(DOMAIN members)
  BY <1>2, FS_Subset, ContributionsAssumption
<1>4. ASSUME NEW u \in DOMAIN members
      PROVE  members[u].income \in Nat /\ members[u].bp \in Nat
  <2>1. u \in Users
    BY <1>2
  <2>2. income[profile][u] \in Nat
    BY <2>1, ProfileIsOne, ContributionsAssumption DEF IInv, ShapeInv
  <2>3. members[u] = [income |-> income[profile][u], bp |-> percentageIn(plan, u)]
    BY <1>1, <1>2 DEF liveMembers, activeMembers
  <2>4. percentageIn(plan, u) \in Nat
    BY PlanShares DEF percentageIn
  <2>5. QED
    BY <2>2, <2>3, <2>4
<1>5. QED
  BY <1>1, <1>3, <1>4, TotalType

\* The plan in force.
LEMMA CurrentPlanIs == ASSUME IInv PROVE currentPlan \in Allocations \cup {<<>>}
<1>1. PICK list \in Seq(Allocations) : list = plans[profile]
  BY ProfileIsOne DEF IInv, ShapeInv
<1>2. CASE list = <<>>
  BY <1>1, <1>2 DEF currentPlan
<1>3. CASE list # <<>>
  <2>1. Len(list) \in 1..Len(list)
    BY <1>3, EmptySeq, LenProperties
  <2>2. list[Len(list)] \in Allocations
    BY <2>1, ElementOfSeq
  <2>3. QED
    BY <1>1, <1>3, <2>2 DEF currentPlan, currentVersion
<1>4. QED
  BY <1>2, <1>3

\* The snapshot of a period has numbers for some of the users.
LEMMA SnapshotIs ==
  ASSUME IInv, NEW i \in 1..Len(periods[profile])
  PROVE  poolExpectedTotal(snapshotOf(i)) \in Nat
<1>1. PICK period \in Period : period = periods[profile][i]
  BY ProfileIsOne, OfProfile, ElementOfSeq
<1>2. period.income \in UNION {[S -> 0..MaxIncome] : S \in SUBSET Users}
  BY Zenon DEF Period
<1>3. PICK S \in SUBSET Users : period.income \in [S -> 0..MaxIncome]
  BY <1>2
<1>4. PICK members : members = snapshotOf(i)
  OBVIOUS
<1>5. members = [u \in S |-> [income |-> period.income[u],
                              bp |-> allocationIn(profile, period.planVersion, u)]]
  <2>1. i # 0 /\ DOMAIN period.income = S
    BY <1>3
  <2>2. QED
    BY <1>1, <1>4, <2>1, Zenon DEF snapshotOf, snapshotMembers
<1>6. IsFiniteSet(S) /\ DOMAIN members = S
  BY <1>5, FS_Subset, ContributionsAssumption
<1>7. ASSUME NEW u \in S
      PROVE  members[u].income \in Nat /\ members[u].bp \in Nat
  <2>1. period.income[u] \in Nat
    BY <1>3, ContributionsAssumption
  <2>2. allocationIn(profile, period.planVersion, u) \in Nat
    <3>1. PICK list \in Seq(Allocations) : list = plans[profile]
      BY ProfileIsOne DEF IInv, ShapeInv
    <3>2. PICK version : version = period.planVersion
      OBVIOUS
    <3>3. CASE version \in DOMAIN list /\ u \in DOMAIN list[version]
      <4>1. list[version] \in Allocations
        BY <3>3, LenProperties, ElementOfSeq
      <4>2. list[version][u] \in Nat
        BY <3>3, <4>1, PlanShares
      <4>3. QED
        BY <3>1, <3>2, <3>3, <4>2 DEF allocationIn
    <3>4. CASE ~(version \in DOMAIN list /\ u \in DOMAIN list[version])
      BY <3>1, <3>2, <3>4 DEF allocationIn
    <3>5. QED
      BY <3>3, <3>4
  <2>3. QED
    BY <1>5, <2>1, <2>2
<1>8. QED
  BY <1>4, <1>6, <1>7, TotalType

\* So the total of what is read for a period, or for none, is a number.
LEMMA SnapshotTotalType ==
  ASSUME IInv, NEW i \in 0..Len(periods[profile])
  PROVE  poolExpectedTotal(snapshotOf(i)) \in Nat
<1>1. CASE i = 0
  BY <1>1, CurrentPlanIs, LiveTotalType DEF snapshotOf
<1>2. CASE i # 0
  BY <1>2, SnapshotIs, ProfileIsOne, OfProfile
<1>3. QED
  BY <1>1, <1>2

\* What is found is a period, or none.
LEMMA FoundIs ==
  ASSUME IInv
  PROVE  foundPeriod \in 0..Len(periods[profile]) /\ foundPeriod \in Nat
<1>1. PICK n \in Nat : n = Len(periods[profile]) /\ DOMAIN periods[profile] = 1..n
  BY ProfileIsOne, OfProfile
<1>2. openPeriods \subseteq 1..n
  BY <1>1 DEF openPeriods, latestOpen
<1>3. PICK found : found = foundPeriod
  OBVIOUS
<1>4. found = 0 \/ found \in openPeriods
  BY <1>3, Zenon DEF foundPeriod
<1>5. CASE found = 0
  BY <1>1, <1>3, <1>5
<1>6. CASE found \in 1..n
  <2>1. PICK i \in 1..n : i = found
    BY <1>6
  <2>2. i \in 0..n /\ i \in Nat
    OBVIOUS
  <2>3. QED
    BY <1>1, <1>3, <2>1, <2>2
<1>7. QED
  BY <1>2, <1>4, <1>5, <1>6

-----------------------------------------------------------------------------
(* What goes live. *)

Request ==
  [at : {"idle", "committed", "found", "planned", "totalled"}, period : Nat,
   plan : Allocations \cup {<<>>}, pool : Nat]

\* Requests and topics are such; who is idle keeps nothing.
RequestInv ==
  /\ published \in Seq(Nat)
  /\ request \in [Resolvers -> Request]
  /\ \A w \in Resolvers : /\ request[w].at = "idle" => request[w] = NoRequest
                          /\ request[w].period \in 0..Len(periods[profile])
  /\ mark \in Nat /\ mark <= Len(published)

\* q, the request of the last mutation, has read the pool as it is, or is going to: of
\* the period found, the plan and the total there are, the total of the period that q
\* has found, and the topic since mark.
isCurrent(q, found, plan, its, total, topic, since) ==
  /\ q.at = "found" => IF q.period = 0 THEN found = 0 ELSE its = total
  /\ q.at = "planned" => found = 0 /\ q.plan = plan
  /\ q.at = "totalled" => q.pool = total
  /\ q.at = "idle" => \E i \in (since + 1)..Len(topic) : topic[i] = total

isLast(q) ==
  isCurrent(q, foundPeriod, currentPlan, poolExpectedTotal(snapshotOf(q.period)), poolTotal,
            published, mark)

\* The request of the last mutation, if it may still publish, is current.
LastInv ==
  lastBy # "none" =>
    lastBy \in Resolvers /\ \E q \in Request : q = request[lastBy] /\ isLast(q)

LiveInv == IInv /\ RequestInv /\ LastInv

\* Initially nothing was committed.
LEMMA TablesInitInv == TablesInit => IInv
<1> SUFFICES ASSUME TablesInit PROVE IInv
  OBVIOUS
<1> USE DEF TablesInit
<1>1. ShapeInv
  <2>1. "ADMIN" \in MemberRole
    BY DEF MemberRole
  <2>2. QED
    BY <2>1, ContributionsAssumption DEF ShapeInv
<1>2. ASSUME NEW p \in Profiles PROVE isSound(periods[p], Len(plans[p]), p \in archived)
  <2>1. periods[p] = <<>> /\ Len(<<>>) = 0
    OBVIOUS
  <2>2. QED
    BY <2>1 DEF isSound
<1>3. QED
  BY <1>1, <1>2 DEF IInv, PeriodsInv

\* Nor has anybody read anything.
LEMMA LiveInitInv == LiveInit => LiveInv
<1> SUFFICES ASSUME LiveInit PROVE LiveInv
  OBVIOUS
<1> USE DEF LiveInit
<1>1. IInv
  BY TablesInitInv
<1>2. NoRequest \in Request /\ NoRequest.period = 0
  BY Zenon DEF NoRequest, Request
<1>3. Len(periods[profile]) = 0
  BY ProfileIsOne DEF TablesInit
<1>4. published \in Seq(Nat) /\ Len(published) = 0
  BY EmptySeq
<1>5. RequestInv
  BY <1>2, <1>3, <1>4 DEF RequestInv
<1>6. LastInv
  BY DEF LastInv
<1>7. QED
  BY <1>1, <1>5, <1>6 DEF LiveInv

\* A mutation, and a commit that announces nothing, is a step of Contributions.
LEMMA CommitIsContributions ==
  ASSUME (\E u \in Users : Mutation(u)) \/ SomethingUnannounced \/ Archive(profile)
  PROVE  Next
<1>1. profile \in Profiles /\ profile \in Funded
  BY ProfileIsOne, LivePoolAssumption
<1>2. ASSUME NEW u \in Users, Mutation(u) PROVE Next
  BY <1>1, <1>2 DEF Mutation, Next
<1>3. ASSUME SomethingUnannounced PROVE Next
  BY <1>1, <1>3 DEF SomethingUnannounced, Next
<1>4. QED
  BY <1>1, <1>2, <1>3 DEF Next

\* What happens to the rows is such a step.
LEMMA LiveIsContributions == ASSUME [LiveNext]_liveVars PROVE [Next]_vars
<1>1. CASE UNCHANGED liveVars
  BY <1>1 DEF liveVars
<1>2. CASE Announced \/ Unannounced
  BY <1>2, CommitIsContributions DEF Announced, Unannounced
<1>3. ASSUME NEW w \in Resolvers,
             ReadPeriod(w) \/ ReadPlan(w) \/ ReadMembers(w) \/ Publish(w) \/ FailAfterCommit(w)
      PROVE  UNCHANGED vars
  BY <1>3 DEF ReadPeriod, ReadPlan, ReadMembers, Publish, FailAfterCommit, advance, vars
<1>4. QED
  BY <1>1, <1>2, <1>3 DEF LiveNext

\* A request is current as long as rows and topic stand.
LEMMA LastStands ==
  ASSUME NEW q \in Request, isLast(q), UNCHANGED <<role, income, plans, periods>>,
         published' = published, mark' = mark
  PROVE  isLast(q)'
<1>1. q.period \in Nat
  BY DEF Request
<1>2. snapshotOf(q.period)' = snapshotOf(q.period)
  BY <1>1, PoolStands
<1>3. foundPeriod' = foundPeriod /\ currentPlan' = currentPlan /\ poolTotal' = poolTotal
  BY PoolStands
<1>4. QED
  BY <1>2, <1>3, Zenon DEF isLast

\* A request moves on, and if it is the last one's, it is current still.
LEMMA AdvanceStep ==
  ASSUME LiveInv, NEW w \in Resolvers, NEW q \in Request, q.at # "idle", advance(w, q),
         q.period \in 0..Len(periods[profile]),
         lastBy = w /\ lastBy # "none" => isLast(q)
  PROVE  RequestInv' /\ LastInv'
<1> USE DEF LiveInv
<1>1. /\ request' = [request EXCEPT ![w] = q] /\ UNCHANGED <<role, income, plans, periods>>
      /\ published' = published /\ mark' = mark /\ lastBy' = lastBy
  BY DEF advance, vars
<1>2. /\ request' \in [Resolvers -> Request] /\ request'[w] = q
      /\ \A v \in Resolvers : v # w => request'[v] = request[v]
  BY <1>1 DEF RequestInv
<1>3. RequestInv'
  BY <1>1, <1>2 DEF RequestInv
<1>4. LastInv'
  <2> SUFFICES ASSUME lastBy # "none"
               PROVE  /\ lastBy \in Resolvers
                      /\ \E r \in Request : r = request'[lastBy] /\ isLast(r)'
    BY <1>1 DEF LastInv
  <2>1. PICK r \in Request : lastBy \in Resolvers /\ r = request[lastBy] /\ isLast(r)
    BY DEF LastInv
  <2>2. CASE lastBy = w
    <3>1. isLast(q)'
      BY <1>1, <2>2, LastStands
    <3>2. QED
      BY <1>2, <2>1, <2>2, <3>1, Zenon
  <2>3. CASE lastBy # w
    <3>1. isLast(r)'
      BY <1>1, <2>1, LastStands
    <3>2. QED
      BY <1>2, <2>1, <2>3, <3>1, Zenon
  <2>4. QED
    BY <2>2, <2>3
<1>5. QED
  BY <1>3, <1>4

\* What is read of the request of the last mutation.
LEMMA LastOfWIs ==
  ASSUME LiveInv, NEW w \in Resolvers, lastBy = w, lastBy # "none"
  PROVE  isLast(request[w])
<1>1. PICK q \in Request : q = request[lastBy] /\ isLast(q)
  BY DEF LiveInv, LastInv
<1>2. QED
  BY <1>1, Zenon DEF isLast

\* Idle is a request.
LEMMA NoRequestIs == NoRequest \in Request /\ NoRequest.at = "idle" /\ NoRequest.period = 0
BY Zenon DEF NoRequest, Request

\* A mutation that is committed announces the pool that it leaves behind.
LEMMA AnnouncedStep ==
  ASSUME LiveInv, Announced, IInv', HistoryStep
  PROVE  RequestInv' /\ LastInv'
<1> USE DEF LiveInv
<1>1. PICK w : w = CHOOSE v \in freeResolvers : TRUE
  OBVIOUS
<1>2. w \in Resolvers
  BY <1>1 DEF Announced, goesLive, freeResolvers
<1>3. PICK old \in Request : old = request[w] /\ old.period \in 0..Len(periods[profile])
  BY <1>2 DEF RequestInv
<1>4. PICK q : q = [old EXCEPT !.at = "committed"]
  OBVIOUS
<1>5. q \in Request /\ q.at = "committed" /\ q.period = old.period
  BY <1>4, Zenon DEF Request
<1>6. /\ request' = [request EXCEPT ![w] = q] /\ lastBy' = w
      /\ mark' = Len(published) /\ published' = published
  BY <1>1, <1>2, <1>3, <1>4 DEF Announced, goesLive, RequestInv
<1>7. /\ request' \in [Resolvers -> Request] /\ request'[w] = q
      /\ \A v \in Resolvers : v # w => request'[v] = request[v]
  BY <1>2, <1>5, <1>6 DEF RequestInv
<1>8. Len(published) \in Nat
  BY LenProperties DEF RequestInv
<1>9. ASSUME NEW v \in Resolvers PROVE request'[v].period \in 0..Len(periods'[profile])
  <2>1. PICK n \in 0..Len(periods[profile]) : n = request'[v].period
    BY <1>3, <1>5, <1>7 DEF RequestInv
  <2>2. QED
    BY <2>1, PeriodsRemain
<1>10. RequestInv'
  BY <1>5, <1>6, <1>7, <1>8, <1>9 DEF RequestInv
<1>11. isLast(q)'
  BY <1>5, Zenon DEF isLast, isCurrent
<1>12. LastInv'
  BY <1>2, <1>5, <1>6, <1>7, <1>11, Zenon DEF LastInv
<1>13. QED
  BY <1>10, <1>12

\* Who has no open period gets none from the job: a due period is open.
LEMMA RolloverOpensNone ==
  ASSUME IInv, Rollover, foundPeriod = 0
  PROVE  periods'[profile] = periods[profile]
<1>1. PICK S \in SUBSET Profiles : \E batch \in [S -> 1..MaxPeriods] : RolloverForTenant(batch)
  BY DEF Rollover
<1>2. PICK batch \in [S -> 1..MaxPeriods] : RolloverForTenant(batch)
  BY <1>1
<1>3. PICK list \in Seq(Period) : list = periods[profile]
  BY ProfileIsOne DEF IInv, ShapeInv
<1>4. DOMAIN list = 1..Len(list)
  BY LenProperties
<1>5. \A i, j \in 1..Len(list) : isOpen(list[i]) /\ isOpen(list[j]) => i = j
  <2>1. \A i \in 1..Len(list) : isOpen(list[i]) => i = Len(list)
    BY <1>3, ProfileIsOne DEF IInv, PeriodsInv, isSound
  <2>2. QED
    BY <2>1
<1>6. \A i \in 1..Len(list) : list[i].startDate <= list[i].startDate
  <2> TAKE i \in 1..Len(list)
  <2>1. list[i].startDate \in Nat
    BY ElementOfSeq, PeriodFields
  <2>2. QED
    BY <2>1
<1>7. latestOpen(list) = {}
  <2> SUFFICES ASSUME NEW i \in latestOpen(list) PROVE FALSE
    OBVIOUS
  <2>1. foundPeriod \in latestOpen(list)
    BY <1>3, Zenon DEF foundPeriod, openPeriods
  <2>2. 0 \in 1..Len(list)
    BY <1>4, <2>1 DEF latestOpen
  <2>3. QED
    BY <2>2
<1>8. \A i \in 1..Len(list) : ~isOpen(list[i])
  <2> SUFFICES ASSUME NEW i \in 1..Len(list), isOpen(list[i]) PROVE FALSE
    OBVIOUS
  <2>1. \A j \in DOMAIN list : isOpen(list[j]) => j = i
    BY <1>4, <1>5
  <2>2. \A j \in DOMAIN list : isOpen(list[j]) => list[j].startDate <= list[i].startDate
    BY <1>6, <2>1
  <2>3. i \in latestOpen(list)
    BY <1>4, <2>2 DEF latestOpen
  <2>4. QED
    BY <1>7, <2>3
<1>9. profile \notin S
  BY <1>2, <1>3, <1>4, <1>8 DEF RolloverForTenant, isDue
<1>10. QED
  BY <1>2, <1>9, ProfileIsOne DEF RolloverForTenant

\* What is not announced leaves the pool as it was, or has no last mutation.
LEMMA UnannouncedStep ==
  ASSUME LiveInv, Unannounced, IInv', HistoryStep
  PROVE  RequestInv' /\ LastInv'
<1> USE DEF LiveInv
<1>1. UNCHANGED <<published, request, mark>> /\ plans' = plans
  BY DEF Unannounced, SomethingUnannounced, SetDeclaredIncome, Join, Leave, Rollover,
         RolloverForTenant, Tick
<1>2. RequestInv'
  <2>1. ASSUME NEW v \in Resolvers PROVE request'[v].period \in 0..Len(periods'[profile])
    <3>1. PICK n \in 0..Len(periods[profile]) : n = request'[v].period
      BY <1>1 DEF RequestInv
    <3>2. QED
      BY <3>1, PeriodsRemain
  <2>2. QED
    BY <1>1, <2>1 DEF RequestInv
<1>3. foundPeriod = 0 => foundPeriod' = 0
  <2> SUFFICES ASSUME foundPeriod = 0 PROVE foundPeriod' = 0
    OBVIOUS
  <2>1. periods'[profile] = periods[profile]
    <3>1. CASE Rollover
      BY <3>1, RolloverOpensNone
    <3>2. CASE periods' = periods
      BY <3>2
    <3>3. QED
      BY <3>1, <3>2 DEF Unannounced, SomethingUnannounced, SetDeclaredIncome, Join, Leave, Tick
  <2>2. foundPeriod' = foundIn(periods'[profile])
    <3>1. PoolIsOfRows'
      BY PoolIs, PTL
    <3>2. QED
      BY <3>1 DEF PoolIsOfRows
  <2>3. foundPeriod = foundIn(periods[profile])
    BY PoolIs DEF PoolIsOfRows
  <2>4. QED
    BY <2>1, <2>2, <2>3
<1>4. currentPlan' = currentPlan
  BY <1>1 DEF currentPlan, currentVersion
<1>5. LastInv'
  <2> SUFFICES ASSUME lastBy' # "none"
               PROVE  /\ lastBy' \in Resolvers
                      /\ \E q \in Request : q = request[lastBy'] /\ isLast(q)'
    BY <1>1 DEF LastInv
  <2>1. lastBy' = lastBy /\ lastBy # "none" /\ poolTotal' = poolTotal
    BY DEF Unannounced
  <2>2. PICK q \in Request : lastBy \in Resolvers /\ q = request[lastBy] /\ isLast(q)
    BY <2>1 DEF LastInv
  <2>3. q.period # 0 => snapshotOf(q.period)' = snapshotOf(q.period)
    <3>1. PICK i \in 0..Len(periods[profile]) : i = q.period
      BY <2>2 DEF RequestInv
    <3>2. i # 0 => i \in 1..Len(periods[profile])
      BY ProfileIsOne, OfProfile
    <3>3. i # 0 => snapshotOf(i)' = snapshotOf(i)
      BY <1>1, <3>2, SnapshotStands
    <3>4. QED
      BY <3>1, <3>3
  <2>4. isLast(q)'
    BY <1>1, <1>3, <1>4, <2>1, <2>2, <2>3 DEF isLast, isCurrent
  <2>5. QED
    BY <2>1, <2>2, <2>4
<1>6. QED
  BY <1>2, <1>5

\* The fields of a request.
LEMMA RequestFields ==
  ASSUME NEW q \in Request
  PROVE  q.period \in Nat /\ q.plan \in Allocations \cup {<<>>} /\ q.pool \in Nat
BY DEF Request

\* The period is looked for.
LEMMA ReadPeriodStep ==
  ASSUME LiveInv, NEW w \in Resolvers, ReadPeriod(w)
  PROVE  RequestInv' /\ LastInv'
<1> USE DEF LiveInv
<1>1. PICK old \in Request : old = request[w]
  BY DEF RequestInv
<1>2. PICK i \in Nat : i = foundPeriod /\ i \in 0..Len(periods[profile])
  BY FoundIs
<1>3. PICK q : q = [old EXCEPT !.at = "found", !.period = i]
  OBVIOUS
<1>4. q \in Request /\ q.at = "found" /\ q.period = i
  BY <1>3, Zenon DEF Request
<1>5. advance(w, q)
  BY <1>1, <1>2, <1>3, Zenon DEF ReadPeriod
<1>6. i # 0 => snapshotOf(q.period) = snapshotOf(foundPeriod)
  BY <1>2, <1>4, Zenon
<1>7. isLast(q)
  BY <1>2, <1>4, <1>6 DEF isLast, isCurrent, poolTotal
<1>8. QED
  BY <1>2, <1>4, <1>5, <1>7, AdvanceStep

\* The plan is read where there is no open period, else the total.
LEMMA ReadPlanStep ==
  ASSUME LiveInv, NEW w \in Resolvers, ReadPlan(w)
  PROVE  RequestInv' /\ LastInv'
<1> USE DEF LiveInv
<1>1. PICK old \in Request :
        old = request[w] /\ old.at = "found" /\ old.period \in 0..Len(periods[profile])
  BY DEF RequestInv, ReadPlan
<1>2. lastBy = w /\ lastBy # "none" => isLast(old)
  BY <1>1, LastOfWIs, Zenon DEF isLast
<1>3. CASE old.period = 0
  <2>1. PICK plan \in Allocations \cup {<<>>} : plan = currentPlan
    BY CurrentPlanIs
  <2>2. PICK q : q = [old EXCEPT !.at = "planned", !.plan = plan]
    OBVIOUS
  <2>3. q \in Request /\ q.at = "planned" /\ q.plan = plan /\ q.period = old.period
    BY <2>2, Zenon DEF Request
  <2>4. advance(w, q)
    BY <1>1, <1>3, <2>1, <2>2, Zenon DEF ReadPlan
  <2>5. lastBy = w /\ lastBy # "none" => isLast(q)
    BY <1>1, <1>2, <1>3, <2>1, <2>3 DEF isLast, isCurrent
  <2>6. QED
    BY <1>1, <2>3, <2>4, <2>5, AdvanceStep
<1>4. CASE old.period # 0
  <2>1. PICK total \in Nat : total = poolExpectedTotal(snapshotOf(old.period))
    BY <1>1, SnapshotTotalType
  <2>2. PICK q : q = [old EXCEPT !.at = "totalled", !.pool = total]
    OBVIOUS
  <2>3. q \in Request /\ q.at = "totalled" /\ q.pool = total /\ q.period = old.period
    BY <2>2, Zenon DEF Request
  <2>4. advance(w, q)
    BY <1>1, <1>4, <2>1, <2>2, Zenon DEF ReadPlan
  <2>5. lastBy = w /\ lastBy # "none" => isLast(q)
    BY <1>1, <1>2, <1>4, <2>1, <2>3 DEF isLast, isCurrent
  <2>6. QED
    BY <1>1, <2>3, <2>4, <2>5, AdvanceStep
<1>5. QED
  BY <1>3, <1>4

\* The members are read, for the plan that is in force still.
LEMMA ReadMembersStep ==
  ASSUME LiveInv, NEW w \in Resolvers, ReadMembers(w)
  PROVE  RequestInv' /\ LastInv'
<1> USE DEF LiveInv
<1>1. PICK old \in Request :
        old = request[w] /\ old.at = "planned" /\ old.period \in 0..Len(periods[profile])
  BY DEF RequestInv, ReadMembers
<1>2. lastBy = w /\ lastBy # "none" => isLast(old)
  BY <1>1, LastOfWIs, Zenon DEF isLast
<1>3. PICK total \in Nat : total = poolExpectedTotal(liveMembers(old.plan))
  BY RequestFields, LiveTotalType
<1>4. PICK q : q = [old EXCEPT !.at = "totalled", !.plan = <<>>, !.pool = total]
  OBVIOUS
<1>5. q \in Request /\ q.at = "totalled" /\ q.pool = total /\ q.period = old.period
  BY <1>4, Zenon DEF Request
<1>6. advance(w, q)
  BY <1>1, <1>3, <1>4, Zenon DEF ReadMembers
<1>7. ASSUME lastBy = w, lastBy # "none" PROVE isLast(q)
  <2>1. foundPeriod = 0 /\ old.plan = currentPlan
    BY <1>1, <1>2, <1>7 DEF isLast, isCurrent
  <2>2. total = poolTotal
    BY <1>3, <2>1, Zenon DEF poolTotal, snapshotOf
  <2>3. QED
    BY <1>5, <2>2 DEF isLast, isCurrent
<1>8. QED
  BY <1>1, <1>5, <1>6, <1>7, AdvanceStep

\* What goes out is added to the topic.
LEMMA PublishStep ==
  ASSUME LiveInv, NEW w \in Resolvers, Publish(w)
  PROVE  RequestInv' /\ LastInv'
<1> USE DEF LiveInv
<1>1. PICK old \in Request : old = request[w] /\ old.at = "totalled"
  BY DEF RequestInv, Publish
<1>2. PICK topic \in Seq(Nat) : topic = published
  BY DEF RequestInv
<1>3. PICK total \in Nat : total = old.pool
  BY RequestFields
<1>4. PICK more : more = Append(topic, total)
  OBVIOUS
<1>5. /\ more \in Seq(Nat) /\ Len(more) = Len(topic) + 1 /\ more[Len(topic) + 1] = total
      /\ \A i \in 1..Len(topic) : more[i] = topic[i]
  BY <1>4, AppendProperties
<1>6. published' = more
  BY <1>1, <1>2, <1>3, <1>4, Zenon DEF Publish
<1>7. /\ request' = [request EXCEPT ![w] = NoRequest] /\ UNCHANGED <<role, income, plans, periods>>
      /\ mark' = mark /\ lastBy' = lastBy
  BY DEF Publish, vars
<1>8. /\ request' \in [Resolvers -> Request] /\ request'[w] = NoRequest
      /\ \A v \in Resolvers : v # w => request'[v] = request[v]
  BY <1>7, NoRequestIs DEF RequestInv
<1>9. Len(topic) \in Nat /\ mark \in Nat /\ mark <= Len(topic)
  BY <1>2, LenProperties DEF RequestInv
<1>10. RequestInv'
  <2>1. mark' \in Nat /\ mark' <= Len(more)
    BY <1>5, <1>7, <1>9
  <2>2. ASSUME NEW v \in Resolvers
        PROVE  /\ request'[v].at = "idle" => request'[v] = NoRequest
               /\ request'[v].period \in 0..Len(periods'[profile])
    <3>1. CASE v = w
      BY <1>7, <1>8, <3>1, NoRequestIs, ProfileIsOne, OfProfile
    <3>2. CASE v # w
      BY <1>7, <1>8, <3>2 DEF RequestInv
    <3>3. QED
      BY <3>1, <3>2
  <2>3. QED
    BY <1>5, <1>6, <1>8, <2>1, <2>2 DEF RequestInv
<1>11. foundPeriod' = foundPeriod /\ currentPlan' = currentPlan /\ poolTotal' = poolTotal
  BY <1>7, PoolStands
<1>12. LastInv'
  <2> SUFFICES ASSUME lastBy # "none"
               PROVE  /\ lastBy \in Resolvers
                      /\ \E r \in Request : r = request'[lastBy] /\ isLast(r)'
    BY <1>7 DEF LastInv
  <2>1. PICK r \in Request : lastBy \in Resolvers /\ r = request[lastBy] /\ isLast(r)
    BY DEF LastInv
  <2>2. CASE lastBy = w
    <3>1. total = poolTotal
      BY <1>1, <1>3, <2>1, <2>2 DEF isLast, isCurrent
    <3>2. Len(topic) + 1 \in (mark + 1)..Len(more)
      BY <1>5, <1>9
    <3>3. isLast(NoRequest)'
      BY <1>5, <1>6, <1>7, <1>11, <3>1, <3>2, NoRequestIs DEF isLast, isCurrent
    <3>4. QED
      BY <1>8, <2>1, <2>2, <3>3, NoRequestIs, Zenon
  <2>3. CASE lastBy # w
    <3>1. \A i \in (mark + 1)..Len(topic) : i \in (mark + 1)..Len(more) /\ more[i] = topic[i]
      BY <1>5, <1>9
    <3>2. snapshotOf(r.period)' = snapshotOf(r.period)
      BY <1>7, PoolStands, RequestFields
    <3>3. isLast(r)'
      BY <1>2, <1>6, <1>7, <1>11, <2>1, <3>1, <3>2 DEF isLast, isCurrent
    <3>4. QED
      BY <1>8, <2>1, <2>3, <3>3, Zenon
  <2>4. QED
    BY <2>2, <2>3
<1>13. QED
  BY <1>10, <1>12

\* Who fails does not publish any more.
LEMMA FailStep ==
  ASSUME LiveInv, NEW w \in Resolvers, FailAfterCommit(w)
  PROVE  RequestInv' /\ LastInv'
<1> USE DEF LiveInv
<1>1. /\ request' = [request EXCEPT ![w] = NoRequest] /\ UNCHANGED <<role, income, plans, periods>>
      /\ published' = published /\ mark' = mark
      /\ lastBy' = IF lastBy = w THEN "none" ELSE lastBy
  BY DEF FailAfterCommit, vars
<1>2. /\ request' \in [Resolvers -> Request] /\ request'[w] = NoRequest
      /\ \A v \in Resolvers : v # w => request'[v] = request[v]
  BY <1>1, NoRequestIs DEF RequestInv
<1>3. RequestInv'
  <2>1. ASSUME NEW v \in Resolvers
        PROVE  /\ request'[v].at = "idle" => request'[v] = NoRequest
               /\ request'[v].period \in 0..Len(periods'[profile])
    <3>1. CASE v = w
      BY <1>1, <1>2, <3>1, NoRequestIs, ProfileIsOne, OfProfile
    <3>2. CASE v # w
      BY <1>1, <1>2, <3>2 DEF RequestInv
    <3>3. QED
      BY <3>1, <3>2
  <2>2. QED
    BY <1>1, <1>2, <2>1 DEF RequestInv
<1>4. LastInv'
  <2> SUFFICES ASSUME lastBy' # "none"
               PROVE  /\ lastBy' \in Resolvers
                      /\ \E r \in Request : r = request'[lastBy'] /\ isLast(r)'
    BY DEF LastInv
  <2>1. lastBy' = lastBy /\ lastBy # w /\ lastBy # "none"
    BY <1>1
  <2>2. PICK r \in Request : lastBy \in Resolvers /\ r = request[lastBy] /\ isLast(r)
    BY <2>1 DEF LastInv
  <2>3. isLast(r)'
    BY <1>1, <2>2, LastStands
  <2>4. QED
    BY <1>2, <2>1, <2>2, <2>3, Zenon
<1>5. QED
  BY <1>3, <1>4

\* Every step keeps the invariant.
LEMMA LiveNextInv == LiveInv /\ [LiveNext]_liveVars => LiveInv'
<1> SUFFICES ASSUME LiveInv, [LiveNext]_liveVars PROVE LiveInv'
  OBVIOUS
<1>1. IInv' /\ HistoryStep
  <2>1. IInv /\ [Next]_vars
    BY LiveIsContributions DEF LiveInv
  <2>2. QED
    BY <2>1, NextIInv
<1>2. CASE UNCHANGED liveVars
  <2>1. UNCHANGED <<role, income, plans, periods>> /\ UNCHANGED <<published, request, mark, lastBy>>
    BY <1>2 DEF liveVars, vars
  <2>2. RequestInv'
    BY <2>1 DEF LiveInv, RequestInv
  <2>3. LastInv'
    <3>1. CASE lastBy # "none"
      <4>1. PICK r \in Request : lastBy \in Resolvers /\ r = request[lastBy] /\ isLast(r)
        BY <3>1 DEF LiveInv, LastInv
      <4>2. isLast(r)'
        BY <2>1, <4>1, LastStands
      <4>3. QED
        BY <2>1, <4>1, <4>2 DEF LastInv
    <3>2. CASE lastBy = "none"
      BY <2>1, <3>2 DEF LastInv
    <3>3. QED
      BY <3>1, <3>2
  <2>4. QED
    BY <1>1, <2>2, <2>3 DEF LiveInv
<1>3. CASE Announced \/ Unannounced
  BY <1>1, <1>3, AnnouncedStep, UnannouncedStep DEF LiveInv
<1>4. ASSUME NEW w \in Resolvers,
             ReadPeriod(w) \/ ReadPlan(w) \/ ReadMembers(w) \/ Publish(w) \/ FailAfterCommit(w)
      PROVE  RequestInv' /\ LastInv'
  BY <1>4, ReadPeriodStep, ReadPlanStep, ReadMembersStep, PublishStep, FailStep
<1>5. QED
  BY <1>1, <1>2, <1>3, <1>4 DEF LiveNext, LiveInv

\* The invariant holds for ever.
LEMMA LiveInductive == LiveSpec => []LiveInv
BY LiveInitInv, LiveNextInv, PTL DEF LiveSpec

\* Requests, topic and the rows they are read from have their types.
THEOREM LiveTypeCorrect == LiveSpec => []LiveTypeOK
<1>1. LiveInv => LiveTypeOK
  <2> SUFFICES ASSUME LiveInv PROVE LiveTypeOK
    OBVIOUS
  <2>1. TypeOK
    BY DEF LiveInv, IInv, ShapeInv, TypeOK
  <2>2. ASSUME NEW w \in Resolvers
        PROVE  /\ request[w].at \in {"idle", "committed", "found", "planned", "totalled"}
               /\ request[w].at = "idle" => request[w] = NoRequest
    <3>1. request[w] \in Request
      BY DEF LiveInv, RequestInv
    <3>2. request[w].at \in {"idle", "committed", "found", "planned", "totalled"}
      BY <3>1 DEF Request
    <3>3. QED
      BY <3>2 DEF LiveInv, RequestInv
  <2>3. QED
    BY <2>1, <2>2 DEF LiveTypeOK, LiveInv, RequestInv
<1>2. QED
  BY <1>1, LiveInductive, PTL

\* The subscribers receive the total as it is, whoever commits between the reads.
THEOREM NewestTotalIsPublishedHolds == LiveSpec => []NewestTotalIsPublished
<1>1. LiveInv => NewestTotalIsPublished
  BY DEF LiveInv, LastInv, isLast, isCurrent, NewestTotalIsPublished, isQuiet
<1>2. QED
  BY <1>1, LiveInductive, PTL

-----------------------------------------------------------------------------
(* Queries. *)

\* What the first of two statements read is what S is made of.
halfOf(r, S) ==
  IF r.what = "coaching" THEN r.first = [u \in DOMAIN S |-> S[u].income]
  ELSE \A u \in DOMAIN S : percentageIn(r.first, u) = S[u].bp

\* The fields of a query.
isQuery(r) ==
  /\ r = [what |-> r.what, of |-> r.of, at |-> r.at, period |-> r.period, first |-> r.first,
          snapshot |-> r.snapshot, actual |-> r.actual, recorded |-> r.recorded,
          moments |-> r.moments]
  /\ r.at \in {"idle", "asked", "found", "half", "snapshot"} /\ r.period \in Nat
  /\ r.at = "idle" => r = NoReading

\* The period that was found is one of the list, with the records it had at least.
periodOf(r, list) ==
  /\ r.period \in 0..Len(list)
  /\ r.period # 0 => /\ r.recorded \in [Users -> Nat]
                     /\ \A u \in Users : r.recorded[u] <= list[r.period].actual[u]

\* The answer so far: the snapshot is of one moment if it has to be, and the records
\* are bounded by those that were found and those of the list.
answerOf(r, list) ==
  /\ \/ r.snapshot \in r.moments
     \/ r.period = 0 /\ \A m \in r.moments : r.moments # {m}
  /\ \A u \in DOMAIN r.actual :
       /\ u \in Users /\ r.actual[u] \in Nat /\ r.period # 0
       /\ r.recorded[u] <= r.actual[u] /\ r.actual[u] <= list[r.period].actual[u]

\* A query among the periods of the list, while force is the snapshot of its period.
isSoundQuery(r, list, force) ==
  /\ isQuery(r)
  /\ r.at # "snapshot" => r.actual = <<>>
  /\ r.at \in {"found", "half", "snapshot"} => periodOf(r, list)
  /\ r.at \in {"found", "half"} => force \in r.moments
  /\ r.at = "half" => r.period = 0 /\ \A S \in r.moments : r.moments = {S} => halfOf(r, S)
  /\ r.at = "snapshot" => answerOf(r, list)

isSoundNow(r) == isSoundQuery(r, periods[profile], snapshotOf(r.period))

ReadingInv == IInv /\ \E r : r = reading /\ isSoundNow(r)

\* Nothing is asked yet.
LEMMA NoReadingIs ==
  /\ isQuery(NoReading) /\ NoReading.at = "idle" /\ NoReading.actual = <<>>
  /\ NoReading.period = 0
BY Zenon DEF NoReading, isQuery

\* So it is at first.
LEMMA ReadingInitInv == ReadingInit => ReadingInv
<1> SUFFICES ASSUME ReadingInit PROVE ReadingInv
  OBVIOUS
<1>1. IInv
  BY TablesInitInv DEF ReadingInit
<1>2. isSoundNow(NoReading)
  BY NoReadingIs DEF isSoundNow, isSoundQuery
<1>3. QED
  BY <1>1, <1>2 DEF ReadingInit, ReadingInv

\* A later list of periods, with more records, bounds what it did.
LEMMA PeriodOfLater ==
  ASSUME NEW list \in Seq(Period), NEW more \in Seq(Period), grows(list, more),
         NEW r, isQuery(r), periodOf(r, list)
  PROVE  periodOf(r, more)
<1>1. PICK i \in Nat : i = r.period
  BY DEF isQuery
<1>2. i \in 0..Len(list) /\ Len(list) \in Nat /\ Len(more) \in Nat
  BY <1>1, LenProperties DEF periodOf
<1>3. CASE i = 0
  BY <1>1, <1>2, <1>3 DEF periodOf
<1>4. CASE i # 0
  <2>1. i \in 1..Len(list) /\ i \in 1..Len(more)
    BY <1>2, <1>4 DEF grows
  <2>2. PICK old \in [Users -> Nat] : old = list[i].actual
    BY <2>1, ElementOfSeq, PeriodFields
  <2>3. PICK new \in [Users -> Nat] : new = more[i].actual
    BY <2>1, ElementOfSeq, PeriodFields
  <2>4. PICK recorded \in [Users -> Nat] : recorded = r.recorded
    BY <1>1, <1>4 DEF periodOf
  <2>5. \A u \in Users : recorded[u] <= old[u] /\ old[u] <= new[u]
    BY <1>1, <1>4, <2>1, <2>2, <2>3, <2>4 DEF periodOf, grows
  <2>6. \A u \in Users : recorded[u] <= new[u]
    BY <2>5
  <2>7. i \in 0..Len(more)
    BY <1>2, <2>1
  <2>8. QED
    BY <1>1, <2>3, <2>4, <2>6, <2>7 DEF periodOf
<1>5. QED
  BY <1>3, <1>4

\* So it does what was answered.
LEMMA AnswerOfLater ==
  ASSUME NEW list \in Seq(Period), NEW more \in Seq(Period), grows(list, more),
         NEW r, isQuery(r), periodOf(r, list), answerOf(r, list)
  PROVE  answerOf(r, more)
<1>1. PICK i \in Nat : i = r.period
  BY DEF isQuery
<1>2. i \in 0..Len(list) /\ Len(list) \in Nat
  BY <1>1, LenProperties DEF periodOf
<1>3. ASSUME NEW u \in DOMAIN r.actual
      PROVE  r.actual[u] <= more[r.period].actual[u]
  <2>1. u \in Users /\ r.actual[u] \in Nat /\ i # 0 /\ r.actual[u] <= list[i].actual[u]
    BY <1>1 DEF answerOf
  <2>2. i \in 1..Len(list) /\ i \in 1..Len(more)
    BY <1>2, <2>1 DEF grows
  <2>3. PICK old \in [Users -> Nat] : old = list[i].actual
    BY <2>2, ElementOfSeq, PeriodFields
  <2>4. PICK new \in [Users -> Nat] : new = more[i].actual
    BY <2>2, ElementOfSeq, PeriodFields
  <2>5. old[u] <= new[u]
    BY <2>1, <2>2, <2>3, <2>4 DEF grows
  <2>6. PICK n \in Nat : n = r.actual[u]
    BY <2>1
  <2>7. old[u] \in Nat /\ new[u] \in Nat /\ n <= old[u]
    BY <2>1, <2>3, <2>4, <2>6
  <2>8. n <= new[u]
    BY <2>5, <2>7
  <2>9. QED
    BY <1>1, <2>4, <2>6, <2>8
<1>4. QED
  BY <1>3 DEF answerOf

\* Others commit, and what is in force then is remembered.
LEMMA OtherCommitStep ==
  ASSUME ReadingInv, OtherCommit
  PROVE  ReadingInv'
<1>1. IInv /\ [Next]_vars
  BY CommitIsContributions DEF OtherCommit, ReadingInv
<1>2. IInv' /\ grows(periods[profile], periods'[profile])
  BY <1>1, ProfileIsOne, NextIInv, NextGrows
<1>3. PICK r : r = reading /\ isSoundNow(r)
  BY DEF ReadingInv
<1>4. PICK list \in Seq(Period) : list = periods[profile]
  BY <1>1, ProfileIsOne, OfProfile
<1>5. PICK more \in Seq(Period) : more = periods'[profile]
  BY <1>2, ProfileIsOne DEF IInv, ShapeInv
<1>6. grows(list, more) /\ isSoundQuery(r, list, snapshotOf(r.period)) /\ isQuery(r)
  BY <1>2, <1>3, <1>4, <1>5 DEF isSoundNow, isSoundQuery
<1>7. r.at \in {"found", "half", "snapshot"} => periodOf(r, more)
  BY <1>6, PeriodOfLater DEF isSoundQuery
<1>8. CASE r.at \in {"found", "half"}
  <2>1. PICK force : force = snapshotOf(r.period)'
    OBVIOUS
  <2>2. PICK q : q = [r EXCEPT !.moments = r.moments \cup {force}]
    OBVIOUS
  <2>3. reading' = q
    <3>1. \E i \in {reading.period} :
             reading' = [reading EXCEPT !.moments = @ \cup {snapshotOf(i)'}]
      BY <1>3, <1>8 DEF OtherCommit, observed
    <3>2. PICK i : i = r.period /\ reading' = [reading EXCEPT !.moments = @ \cup {snapshotOf(i)'}]
      BY <1>3, <3>1
    <3>3. snapshotOf(i)' = force
      BY <2>1, <3>2, Zenon
    <3>4. QED
      BY <1>3, <2>2, <3>2, <3>3
  <2>4. /\ q.what = r.what /\ q.at = r.at /\ q.period = r.period /\ q.first = r.first
        /\ q.actual = r.actual /\ q.recorded = r.recorded /\ q.moments = r.moments \cup {force}
    BY <1>6, <2>2 DEF isQuery
  <2>5. isQuery(q)
    <3>1. r.at # "idle"
      BY <1>8
    <3>2. q = [what |-> q.what, of |-> q.of, at |-> q.at, period |-> q.period,
               first |-> q.first, snapshot |-> q.snapshot, actual |-> q.actual,
               recorded |-> q.recorded, moments |-> q.moments]
      BY <1>6, <2>2, Zenon DEF isQuery
    <3>3. QED
      BY <1>6, <2>4, <3>1, <3>2 DEF isQuery
  <2>6. periodOf(q, more)
    BY <1>7, <1>8, <2>4 DEF periodOf
  <2>7. ASSUME r.at = "half", NEW S \in q.moments, q.moments = {S}
        PROVE  halfOf(q, S)
    <3>1. snapshotOf(r.period) \in r.moments
      BY <1>6, <1>8 DEF isSoundQuery
    <3>2. r.moments = {S}
      BY <2>4, <2>7, <3>1
    <3>3. halfOf(r, S)
      BY <1>6, <2>7, <3>2 DEF isSoundQuery
    <3>4. QED
      BY <2>4, <3>3 DEF halfOf
  <2>8. r.at = "half" => q.period = 0
    BY <1>6, <2>4 DEF isSoundQuery
  <2>9. q.actual = <<>> /\ force \in q.moments /\ q.at # "snapshot"
    BY <1>6, <1>8, <2>4 DEF isSoundQuery
  <2>10. isSoundQuery(q, more, force)
    BY <1>8, <2>4, <2>5, <2>6, <2>7, <2>8, <2>9 DEF isSoundQuery
  <2>11. force = snapshotOf(q.period)'
    BY <2>1, <2>4, Zenon
  <2>12. isSoundNow(q)'
    BY <1>5, <2>10, <2>11 DEF isSoundNow
  <2>13. QED
    BY <1>2, <2>3, <2>12 DEF ReadingInv
<1>9. CASE r.at \notin {"found", "half"}
  <2>1. reading' = r
    BY <1>3, <1>9 DEF OtherCommit, observed
  <2>2. r.at = "snapshot" => answerOf(r, more)
    BY <1>6, AnswerOfLater DEF isSoundQuery
  <2>3. isSoundQuery(r, more, snapshotOf(r.period)')
    BY <1>6, <1>7, <1>9, <2>2 DEF isSoundQuery
  <2>4. isSoundNow(r)'
    BY <1>5, <2>3 DEF isSoundNow
  <2>5. QED
    BY <1>2, <2>1, <2>4 DEF ReadingInv
<1>10. QED
  BY <1>8, <1>9

\* A query moves on while the rows stand.
LEMMA ProceedStep ==
  ASSUME IInv, NEW q, proceed(q), isQuery(q),
         isSoundQuery(q, periods[profile], snapshotOf(q.period))
  PROVE  ReadingInv'
<1>1. UNCHANGED vars /\ reading' = q
  BY DEF proceed
<1>2. IInv'
  BY <1>1, NextIInv
<1>3. q.period \in Nat
  BY DEF isQuery
<1>4. snapshotOf(q.period)' = snapshotOf(q.period) /\ periods' = periods
  BY <1>1, <1>3, PoolStands DEF vars
<1>5. isSoundNow(q)'
  BY <1>4 DEF isSoundNow
<1>6. QED
  BY <1>1, <1>2, <1>5 DEF ReadingInv

\* Who has nothing read is sound.
LEMMA NothingReadStep ==
  ASSUME IInv, NEW q, proceed(q), isQuery(q), q.at \in {"idle", "asked"}, q.actual = <<>>
  PROVE  ReadingInv'
<1>1. isSoundQuery(q, periods[profile], snapshotOf(q.period))
  BY DEF isSoundQuery
<1>2. QED
  BY <1>1, ProceedStep

\* A query is asked, or ends.
LEMMA AskOrEndStep ==
  ASSUME ReadingInv, (\E what, of : AskFor(what, of)) \/ EndReading
  PROVE  ReadingInv'
<1>1. IInv
  BY DEF ReadingInv
<1>2. CASE EndReading
  BY <1>1, <1>2, NothingReadStep, NoReadingIs DEF EndReading
<1>3. ASSUME NEW what, NEW of, AskFor(what, of) PROVE ReadingInv'
  <2>1. PICK q : q = [NoReading EXCEPT !.what = what, !.of = of, !.at = "asked"]
    OBVIOUS
  <2>2. isQuery(q) /\ q.at = "asked" /\ q.actual = <<>>
    <3>1. q = [what |-> what, of |-> of, at |-> "asked", period |-> 0, first |-> <<>>,
               snapshot |-> <<>>, actual |-> <<>>, recorded |-> <<>>, moments |-> {}]
      BY <2>1 DEF NoReading
    <3>2. QED
      BY <3>1 DEF isQuery
  <2>3. proceed(q)
    BY <1>3, <2>1 DEF AskFor
  <2>4. QED
    BY <1>1, <2>2, <2>3, NothingReadStep
<1>4. QED
  BY <1>2, <1>3

\* The period is looked for.
LEMMA FindPeriodStep ==
  ASSUME ReadingInv, FindPeriod
  PROVE  ReadingInv'
<1>1. PICK r : IInv /\ r = reading /\ isSoundNow(r) /\ r.at = "asked"
  BY DEF ReadingInv, FindPeriod
<1>2. PICK i \in Nat : i = foundPeriod /\ i \in 0..Len(periods[profile])
  BY <1>1, FoundIs
<1>3. PICK recorded : recorded = IF i = 0 THEN <<>> ELSE periods[profile][i].actual
  OBVIOUS
<1>4. PICK q : q = [r EXCEPT !.at = "found", !.period = i, !.recorded = recorded,
                             !.moments = {snapshotOf(i)}]
  OBVIOUS
<1>5. proceed(NoReading) \/ proceed(q)
  BY <1>1, <1>2, <1>3, <1>4, Zenon DEF FindPeriod
<1>6. ASSUME proceed(q) PROVE ReadingInv'
  <2>1. isQuery(r) /\ r.actual = <<>>
    BY <1>1 DEF isSoundNow, isSoundQuery
  <2>2. /\ q.at = "found" /\ q.period = i /\ q.actual = r.actual /\ q.recorded = recorded
        /\ q.moments = {snapshotOf(i)}
    BY <1>4, <2>1 DEF isQuery
  <2>3. isQuery(q)
    <3>1. q = [what |-> q.what, of |-> q.of, at |-> q.at, period |-> q.period,
               first |-> q.first, snapshot |-> q.snapshot, actual |-> q.actual,
               recorded |-> q.recorded, moments |-> q.moments]
      BY <1>4, <2>1, Zenon DEF isQuery
    <3>2. QED
      BY <2>2, <3>1 DEF isQuery
  <2>4. periodOf(q, periods[profile])
    <3>1. CASE i = 0
      BY <1>2, <2>2, <3>1 DEF periodOf
    <3>2. CASE i # 0
      <4>1. PICK list \in Seq(Period) : list = periods[profile]
        BY <1>1, ProfileIsOne, OfProfile
      <4>2. i \in 1..Len(list)
        BY <1>2, <3>2, <4>1, LenProperties
      <4>3. PICK actual \in [Users -> Nat] : actual = list[i].actual
        BY <4>2, ElementOfSeq, PeriodFields
      <4>4. \A u \in Users : actual[u] <= actual[u]
        BY <4>3
      <4>5. q.recorded = actual
        BY <1>3, <2>2, <3>2, <4>1, <4>3
      <4>6. QED
        BY <1>2, <2>2, <4>1, <4>3, <4>4, <4>5 DEF periodOf
    <3>3. QED
      BY <3>1, <3>2
  <2>5. snapshotOf(q.period) \in q.moments
    BY <2>2, Zenon
  <2>6. isSoundQuery(q, periods[profile], snapshotOf(q.period))
    BY <2>1, <2>2, <2>3, <2>4, <2>5 DEF isSoundQuery
  <2>7. QED
    BY <1>1, <1>6, <2>3, <2>6, ProceedStep
<1>7. QED
  BY <1>1, <1>5, <1>6, NothingReadStep, NoReadingIs

\* The first of two statements reads a part of what is in force.
LEMMA HalfStep ==
  ASSUME ReadingInv, ReadPlanFirst \/ ReadMembersFirst
  PROVE  ReadingInv'
<1>1. PICK r : IInv /\ r = reading /\ isSoundNow(r) /\ r.at = "found" /\ r.period = 0
               /\ r.what \in {"pool", "coaching"}
  BY DEF ReadingInv, ReadPlanFirst, ReadMembersFirst
<1>2. PICK first : /\ first = IF r.what = "coaching"
                              THEN [u \in activeMembers |-> income[profile][u]]
                              ELSE currentPlan
  OBVIOUS
<1>3. PICK q : q = [r EXCEPT !.at = "half", !.first = first]
  OBVIOUS
<1>4. proceed(q)
  BY <1>1, <1>2, <1>3, Zenon DEF ReadPlanFirst, ReadMembersFirst
<1>5. /\ isQuery(r) /\ r.actual = <<>> /\ periodOf(r, periods[profile])
      /\ snapshotOf(r.period) \in r.moments
  BY <1>1 DEF isSoundNow, isSoundQuery
<1>6. /\ q.what = r.what /\ q.at = "half" /\ q.period = 0 /\ q.first = first
      /\ q.actual = r.actual /\ q.recorded = r.recorded /\ q.moments = r.moments
  BY <1>1, <1>3, <1>5 DEF isQuery
<1>7. isQuery(q)
  <2>1. q = [what |-> q.what, of |-> q.of, at |-> q.at, period |-> q.period,
             first |-> q.first, snapshot |-> q.snapshot, actual |-> q.actual,
             recorded |-> q.recorded, moments |-> q.moments]
    BY <1>3, <1>5, Zenon DEF isQuery
  <2>2. QED
    BY <1>6, <2>1 DEF isQuery
<1>8. periodOf(q, periods[profile])
  BY <1>1, <1>5, <1>6 DEF periodOf
<1>9. ASSUME NEW S \in q.moments, q.moments = {S} PROVE halfOf(q, S)
  <2>1. S = snapshotOf(0)
    BY <1>1, <1>5, <1>6, <1>9, Zenon
  <2>2. S = liveMembers(currentPlan)
    BY <2>1 DEF snapshotOf
  <2>3. S = [u \in activeMembers |-> [income |-> income[profile][u],
                                      bp |-> percentageIn(currentPlan, u)]]
    BY <2>2 DEF liveMembers
  <2>4. CASE r.what = "coaching"
    <3>1. [u \in DOMAIN S |-> S[u].income] = [u \in activeMembers |-> income[profile][u]]
      BY <2>3
    <3>2. QED
      BY <1>2, <1>6, <2>4, <3>1 DEF halfOf
  <2>5. CASE r.what # "coaching"
    <3>1. \A u \in DOMAIN S : percentageIn(currentPlan, u) = S[u].bp
      BY <2>3
    <3>2. QED
      BY <1>2, <1>6, <2>5, <3>1 DEF halfOf
  <2>6. QED
    BY <2>4, <2>5
<1>10. snapshotOf(q.period) \in q.moments
  BY <1>1, <1>5, <1>6, Zenon
<1>11. isSoundQuery(q, periods[profile], snapshotOf(q.period))
  BY <1>5, <1>6, <1>7, <1>8, <1>9, <1>10 DEF isSoundQuery
<1>12. QED
  BY <1>1, <1>4, <1>7, <1>11, ProceedStep

\* A snapshot that has been read is of one moment, if it has to be.
LEMMA SnapshotStep ==
  ASSUME ReadingInv, NEW members, proceed(withSnapshot(members)),
         reading.at \in {"found", "half"},
         \/ members \in reading.moments
         \/ reading.period = 0 /\ \A m \in reading.moments : reading.moments # {m}
  PROVE  ReadingInv'
<1>1. PICK r : IInv /\ r = reading /\ isSoundNow(r)
  BY DEF ReadingInv
<1>2. PICK q : q = [r EXCEPT !.at = "snapshot", !.first = <<>>, !.snapshot = members]
  OBVIOUS
<1>3. proceed(q)
  BY <1>1, <1>2 DEF withSnapshot
<1>4. isQuery(r) /\ r.actual = <<>> /\ periodOf(r, periods[profile])
  BY <1>1 DEF isSoundNow, isSoundQuery
<1>5. /\ q.at = "snapshot" /\ q.period = r.period /\ q.snapshot = members
      /\ q.actual = r.actual /\ q.recorded = r.recorded /\ q.moments = r.moments
  BY <1>2, <1>4 DEF isQuery
<1>6. isQuery(q)
  <2>1. q = [what |-> q.what, of |-> q.of, at |-> q.at, period |-> q.period,
             first |-> q.first, snapshot |-> q.snapshot, actual |-> q.actual,
             recorded |-> q.recorded, moments |-> q.moments]
    BY <1>2, <1>4, Zenon DEF isQuery
  <2>2. QED
    BY <1>4, <1>5, <2>1 DEF isQuery
<1>7. periodOf(q, periods[profile])
  BY <1>4, <1>5 DEF periodOf
<1>8. answerOf(q, periods[profile])
  <2>1. DOMAIN q.actual = {}
    BY <1>4, <1>5
  <2>2. QED
    BY <1>1, <1>5, <2>1 DEF answerOf
<1>9. isSoundQuery(q, periods[profile], snapshotOf(q.period))
  BY <1>5, <1>6, <1>7, <1>8 DEF isSoundQuery
<1>10. QED
  BY <1>1, <1>3, <1>6, <1>9, ProceedStep

\* The snapshot of a period is the one that is in force.
LEMMA ReadSnapshotStep ==
  ASSUME ReadingInv, ReadSnapshot
  PROVE  ReadingInv'
<1>1. PICK r : r = reading /\ isSoundNow(r) /\ r.at = "found" /\ r.period # 0
  BY DEF ReadingInv, ReadSnapshot
<1>2. PICK members : members = snapshotMembers(periods[profile][r.period])
  OBVIOUS
<1>3. proceed(withSnapshot(members))
  BY <1>1, <1>2, Zenon DEF ReadSnapshot
<1>4. snapshotOf(r.period) \in r.moments
  BY <1>1 DEF isSoundNow, isSoundQuery
<1>5. snapshotOf(r.period) = members
  BY <1>1, <1>2, Zenon DEF snapshotOf
<1>6. reading.at \in {"found", "half"} /\ members \in reading.moments
  BY <1>1, <1>4, <1>5
<1>7. QED
  BY <1>3, <1>6, SnapshotStep

\* The second of two statements completes what was in force all the time, if anything
\* was.
LEMMA WholeStep ==
  ASSUME ReadingInv, ReadMembersLast \/ ReadPlanLast
  PROVE  ReadingInv'
<1>1. PICK r : /\ r = reading /\ isSoundNow(r) /\ r.at = "half"
               /\ r.what \in {"pool", "coaching"}
  BY DEF ReadingInv, ReadMembersLast, ReadPlanLast
<1>2. PICK members :
        members = IF r.what = "coaching"
                  THEN [u \in DOMAIN r.first |->
                          [income |-> r.first[u], bp |-> percentageIn(currentPlan, u)]]
                  ELSE liveMembers(r.first)
  OBVIOUS
<1>3. proceed(withSnapshot(members))
  BY <1>1, <1>2, Zenon DEF ReadMembersLast, ReadPlanLast
<1>4. /\ r.period = 0 /\ snapshotOf(r.period) \in r.moments
      /\ \A S \in r.moments : r.moments = {S} => halfOf(r, S)
  BY <1>1 DEF isSoundNow, isSoundQuery
<1>5. ASSUME NEW S \in r.moments, r.moments = {S} PROVE members = S
  <2>1. S = snapshotOf(0) /\ halfOf(r, S)
    BY <1>4, <1>5, Zenon
  <2>2. S = liveMembers(currentPlan)
    BY <2>1 DEF snapshotOf
  <2>3. S = [u \in activeMembers |-> [income |-> income[profile][u],
                                      bp |-> percentageIn(currentPlan, u)]]
    BY <2>2 DEF liveMembers
  <2>4. CASE r.what = "coaching"
    <3>1. r.first = [u \in DOMAIN S |-> S[u].income]
      BY <2>1, <2>4 DEF halfOf
    <3>2. r.first = [u \in activeMembers |-> income[profile][u]]
      BY <2>3, <3>1
    <3>3. QED
      BY <1>2, <2>3, <2>4, <3>2
  <2>5. CASE r.what # "coaching"
    <3>1. \A u \in DOMAIN S : percentageIn(r.first, u) = S[u].bp
      BY <2>1, <2>5 DEF halfOf
    <3>2. \A u \in activeMembers : percentageIn(r.first, u) = percentageIn(currentPlan, u)
      BY <2>3, <3>1
    <3>3. members = [u \in activeMembers |-> [income |-> income[profile][u],
                                              bp |-> percentageIn(r.first, u)]]
      BY <1>2, <2>5 DEF liveMembers
    <3>4. QED
      BY <2>3, <3>2, <3>3
  <2>6. QED
    BY <2>4, <2>5
<1>6. \/ members \in r.moments
      \/ r.period = 0 /\ \A m \in r.moments : r.moments # {m}
  BY <1>4, <1>5
<1>7. reading.at \in {"found", "half"}
  BY <1>1
<1>8. QED
  BY <1>1, <1>3, <1>6, <1>7, SnapshotStep

\* The records of a member are those of the period that was found.
LEMMA ReadActualStep ==
  ASSUME ReadingInv, NEW u \in Users, ReadActual(u)
  PROVE  ReadingInv'
<1>1. PICK r : IInv /\ r = reading /\ isSoundNow(r) /\ r.at = "snapshot"
  BY DEF ReadingInv, ReadActual
<1>2. isQuery(r) /\ periodOf(r, periods[profile]) /\ answerOf(r, periods[profile])
  BY <1>1 DEF isSoundNow, isSoundQuery
<1>3. r.period # 0
  BY <1>1 DEF ReadActual, summed
<1>4. PICK list \in Seq(Period) : list = periods[profile]
  BY <1>1, ProfileIsOne, OfProfile
<1>5. PICK i \in 1..Len(list) : i = r.period
  BY <1>2, <1>3, <1>4, LenProperties DEF periodOf, isQuery
<1>6. PICK now \in [Users -> Nat] : now = list[i].actual
  BY ElementOfSeq, PeriodFields
<1>7. PICK actual :
        actual = [v \in DOMAIN r.actual \cup {u} |-> IF v = u THEN now[u] ELSE r.actual[v]]
  OBVIOUS
<1>8. PICK q : q = [r EXCEPT !.actual = actual]
  OBVIOUS
<1>9. proceed(q)
  BY <1>1, <1>4, <1>5, <1>6, <1>7, <1>8, Zenon DEF ReadActual
<1>10. /\ q.at = "snapshot" /\ q.period = r.period /\ q.snapshot = r.snapshot
       /\ q.actual = actual /\ q.recorded = r.recorded /\ q.moments = r.moments
  BY <1>1, <1>2, <1>8 DEF isQuery
<1>11. isQuery(q)
  <2>1. q = [what |-> q.what, of |-> q.of, at |-> q.at, period |-> q.period,
             first |-> q.first, snapshot |-> q.snapshot, actual |-> q.actual,
             recorded |-> q.recorded, moments |-> q.moments]
    BY <1>2, <1>8, Zenon DEF isQuery
  <2>2. QED
    BY <1>2, <1>10, <2>1 DEF isQuery
<1>12. periodOf(q, list)
  BY <1>2, <1>4, <1>10 DEF periodOf
<1>13. answerOf(q, list)
  <2>1. ASSUME NEW v \in DOMAIN actual
        PROVE  /\ v \in Users /\ actual[v] \in Nat
               /\ r.recorded[v] <= actual[v] /\ actual[v] <= now[v]
    <3>1. CASE v = u
      <4>1. actual[v] = now[u] /\ now[u] \in Nat /\ now[u] <= now[u]
        BY <1>6, <1>7, <3>1
      <4>2. r.recorded[u] <= now[u]
        BY <1>2, <1>3, <1>4, <1>5, <1>6 DEF periodOf
      <4>3. QED
        BY <3>1, <4>1, <4>2
    <3>2. CASE v # u
      <4>1. v \in DOMAIN r.actual /\ actual[v] = r.actual[v]
        BY <1>7, <3>2
      <4>2. QED
        BY <1>2, <1>4, <1>5, <1>6, <4>1 DEF answerOf
    <3>3. QED
      BY <3>1, <3>2
  <2>2. \/ q.snapshot \in q.moments
        \/ q.period = 0 /\ \A m \in q.moments : q.moments # {m}
    BY <1>2, <1>10 DEF answerOf
  <2>3. QED
    BY <1>3, <1>5, <1>6, <1>10, <2>1, <2>2 DEF answerOf
<1>14. isSoundQuery(q, periods[profile], snapshotOf(q.period))
  BY <1>4, <1>10, <1>11, <1>12, <1>13 DEF isSoundQuery
<1>15. QED
  BY <1>1, <1>9, <1>11, <1>14, ProceedStep

\* Every step keeps the invariant.
LEMMA ReadingNextInv == ReadingInv /\ [ReadingNext]_readingVars => ReadingInv'
<1> SUFFICES ASSUME ReadingInv, [ReadingNext]_readingVars PROVE ReadingInv'
  OBVIOUS
<1>1. CASE UNCHANGED readingVars
  <2>1. PICK r : IInv /\ r = reading /\ isSoundNow(r)
    BY DEF ReadingInv
  <2>2. proceed(r) /\ isQuery(r) /\ isSoundQuery(r, periods[profile], snapshotOf(r.period))
    BY <1>1, <2>1 DEF readingVars, proceed, isSoundNow, isSoundQuery
  <2>3. QED
    BY <2>1, <2>2, ProceedStep
<1>2. CASE OtherCommit
  BY <1>2, OtherCommitStep
<1>3. CASE (\E what, of : AskFor(what, of)) \/ EndReading
  BY <1>3, AskOrEndStep
<1>4. CASE FindPeriod
  BY <1>4, FindPeriodStep
<1>5. CASE ReadPlanFirst \/ ReadMembersFirst
  BY <1>5, HalfStep
<1>6. CASE ReadSnapshot
  BY <1>6, ReadSnapshotStep
<1>7. CASE ReadMembersLast \/ ReadPlanLast
  BY <1>7, WholeStep
<1>8. ASSUME NEW u \in Users, ReadActual(u) PROVE ReadingInv'
  BY <1>8, ReadActualStep
<1>9. QED
  BY <1>1, <1>2, <1>3, <1>4, <1>5, <1>6, <1>7, <1>8 DEF ReadingNext

\* The invariant holds for ever.
LEMMA ReadingInductive == ReadingSpec => []ReadingInv
BY ReadingInitInv, ReadingNextInv, PTL DEF ReadingSpec

\* Queries have their type.
THEOREM ReadingTypeCorrect == ReadingSpec => []ReadingTypeOK
<1>1. ReadingInv => ReadingTypeOK
  <2> SUFFICES ASSUME ReadingInv PROVE ReadingTypeOK
    OBVIOUS
  <2>1. TypeOK
    BY DEF ReadingInv, IInv, ShapeInv, TypeOK
  <2>2. PICK r : r = reading /\ isSoundNow(r)
    BY DEF ReadingInv
  <2>3. \A u \in DOMAIN r.actual : r.actual[u] \in Nat
    BY <2>2 DEF isSoundNow, isSoundQuery, answerOf
  <2>4. QED
    BY <2>1, <2>2, <2>3 DEF ReadingTypeOK, isSoundNow, isSoundQuery, isQuery
<1>2. QED
  BY <1>1, ReadingInductive, PTL

\* What pool, standing and coaching answer is of one moment in a period, and without
\* one if nothing is committed meanwhile, and the records are the period's, whatever is
\* committed between the statements.
THEOREM AnswersAgreeHolds == ReadingSpec => []AnswersAgree
<1>1. ReadingInv => AnswersAgree
  <2> SUFFICES ASSUME ReadingInv PROVE AnswersAgree
    OBVIOUS
  <2>1. PICK r : r = reading /\ isSoundNow(r)
    BY DEF ReadingInv
  <2>2. r.at = "snapshot" => answerOf(r, periods[profile])
    BY <2>1 DEF isSoundNow, isSoundQuery
  <2>3. QED
    BY <2>1, <2>2 DEF AnswersAgree, isAnswered, answerOf
<1>2. QED
  BY <1>1, ReadingInductive, PTL

=============================================================================
