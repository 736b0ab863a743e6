-------------------------- MODULE ContributionsTx --------------------------
(***************************************************************************)
(* The contribution use cases as transactions that overlap.  A use case    *)
(* reads what it decides on, then writes, and its writes become visible    *)
(* together at the commit; in between, READ COMMITTED lets any other       *)
(* transaction commit.  The reads of one transaction are taken together.   *)
(* Nothing here takes a lock or a version, so that a command is stopped    *)
(* after its reads only by the unique index on a profile's plan versions,  *)
(* or by an error or a crash (Rollback).                                   *)
(***************************************************************************)
EXTENDS Contributions

CONSTANTS
  Workers,   \* requests and jobs in flight at the same time
  Commands   \* the commands that are issued

ASSUME ContributionsTxAssumption ==
  Commands \subseteq {"setAllocation", "redistribute", "recordContribution", "rollover"}

VARIABLE tx   \* what each worker has read and is about to write

stored == vars
txVars == <<stored, tx>>

Idle == [cmd |-> "idle"]

\* version: the plan version read; index: the open period read, 0 if none;
\* fresh: the period to be created, if any; rolls: per profile, the due period
\* read, the total of its records and its successor.
Roll == [index : Nat \ {0}, total : Nat, fresh : Seq(Period)]

isSetAllocation(t) ==
  t \in [cmd : {"setAllocation"}, p : Profiles, u : Users, bp : 0..FullAllocationBp,
         version : Nat]

isRedistribute(t) ==
  t \in [cmd : {"redistribute"}, p : Profiles, allocations : Allocations, version : Nat]

isRecord(t) ==
  t \in [cmd : {"recordContribution"}, p : Profiles, u : Users, amount : Nat \ {0},
         index : Nat, fresh : Seq(Period)]

isRollover(t) ==
  /\ t = [cmd |-> "rollover", rolls |-> t.rolls]
  /\ DOMAIN t.rolls \subseteq Profiles
  /\ \A p \in DOMAIN t.rolls : t.rolls[p] \in Roll

TxTypeOK ==
  /\ TypeOK
  /\ \A w \in Workers :
       \/ tx[w] = Idle
       \/ isSetAllocation(tx[w]) \/ isRedistribute(tx[w])
       \/ isRecord(tx[w]) \/ isRollover(tx[w])

TxInit == Init /\ tx = [w \in Workers |-> Idle]

-----------------------------------------------------------------------------
(* Reads and decisions. *)

begin(w, t) ==
  /\ tx[w] = Idle
  /\ t.cmd \in Commands
  /\ tx' = [tx EXCEPT ![w] = t]
  /\ UNCHANGED stored

BeginSetAllocation(w, p, u, bp) ==
  /\ mayContribute(p, u)
  /\ checkAllocationWithinCap(p, u, bp)
  /\ begin(w, [cmd |-> "setAllocation", p |-> p, u |-> u, bp |-> bp,
               version |-> currentVersion(p)])

BeginRedistribute(w, p, actor, allocations) ==
  /\ mayRedistribute(p, actor)
  /\ p \notin archived
  /\ validateRedistribution(allocations)
  /\ \A u \in DOMAIN allocations :
       isMember(p, u) /\ checkAllocationWithinCap(p, u, allocations[u])
  /\ begin(w, [cmd |-> "redistribute", p |-> p, allocations |-> allocations,
               version |-> currentVersion(p)])

BeginRecord(w, p, u, amount) ==
  /\ mayContribute(p, u)
  /\ p \notin archived
  /\ \E i \in IF latestOpen(periods[p]) = {} THEN {0} ELSE latestOpen(periods[p]) :
       begin(w, [cmd |-> "recordContribution", p |-> p, u |-> u, amount |-> amount,
                 index |-> i,
                 fresh |-> IF i = 0 THEN <<newPeriod(p, clock)>> ELSE <<>>])

\* Faulty: the records are summed without their period.
rollOfAllPeriods(p, i) ==
  [index |-> i, total |-> SumFunction([j \in DOMAIN periods[p] |-> poolActual(periods[p][j])]),
   fresh |-> IF p \in archived THEN <<>> ELSE <<newPeriod(p, periods[p][i].endDate)>>]

\* What the sweep reads of one due period.
rollOf(p, i) ==
  [index |-> i, total |-> poolActual(periods[p][i]),
   fresh |-> IF p \in archived THEN <<>> ELSE <<newPeriod(p, periods[p][i].endDate)>>]

BeginRollover(w, batch) ==
  /\ JobBypassesRls
  /\ DOMAIN batch # {}
  /\ \A p \in DOMAIN batch : batch[p] \in DOMAIN periods[p] /\ isDue(periods[p][batch[p]])
  /\ begin(w, [cmd |-> "rollover", rolls |-> [p \in DOMAIN batch |-> rollOf(p, batch[p])]])

-----------------------------------------------------------------------------
(* Commits. *)

commit(w, cmd) ==
  /\ tx[w].cmd = cmd
  /\ tx' = [tx EXCEPT ![w] = Idle]

\* The allocation goes to the version that was read; the insert of a first plan
\* fails if there is one by now.
CommitSetAllocation(w) ==
  LET t == tx[w]
  IN  /\ commit(w, "setAllocation")
      /\ t.version = 0 => plans[t.p] = <<>>
      /\ plans' = [plans EXCEPT ![t.p] = inPlan(@, t.version, t.u, t.bp)]
      /\ UNCHANGED <<membershipVars, income, periods, clock>>

CommitRedistribute(w) ==
  LET t == tx[w]
  IN  /\ commit(w, "redistribute")
      /\ currentVersion(t.p) = t.version
      /\ currentVersion(t.p) < MaxPlans
      /\ plans' = [plans EXCEPT ![t.p] = Append(@, t.allocations)]
      /\ UNCHANGED <<membershipVars, income, periods, clock>>

\* The record goes to the period that was read, whatever became of it.
CommitRecord(w) ==
  LET t == tx[w]
      list == periods[t.p] \o t.fresh
      i == IF t.index = 0 THEN Len(list) ELSE t.index
  IN  /\ commit(w, "recordContribution")
      /\ Len(list) <= MaxPeriods
      /\ list[i].actual[t.u] + t.amount <= MaxAmount
      /\ periods' = [periods EXCEPT ![t.p] = createRecord(list, i, t.u, t.amount)]
      /\ UNCHANGED <<membershipVars, income, plans, clock>>

\* closePeriod writes the status of the row, and only that.
closeAs(period, total) == [period EXCEPT !.status = "CLOSED", !.reconciled = total]

CommitRollover(w) ==
  LET rolls == tx[w].rolls
      rolled(p) ==
        [periods[p] EXCEPT ![rolls[p].index] = closeAs(@, rolls[p].total)] \o rolls[p].fresh
  IN  /\ commit(w, "rollover")
      /\ \A p \in DOMAIN rolls : Len(rolled(p)) <= MaxPeriods
      /\ periods' = [p \in Profiles |-> IF p \in DOMAIN rolls THEN rolled(p) ELSE periods[p]]
      /\ UNCHANGED <<membershipVars, income, plans, clock>>

Rollback(w) ==
  /\ tx[w] # Idle
  /\ tx' = [tx EXCEPT ![w] = Idle]
  /\ UNCHANGED stored

-----------------------------------------------------------------------------
Begin(w) ==
  \/ \E p \in Profiles, u \in Users :
       \/ \E bp \in 0..FullAllocationBp : BeginSetAllocation(w, p, u, bp)
       \/ \E allocations \in Allocations : BeginRedistribute(w, p, u, allocations)
       \/ \E amount \in 1..MaxAmount : BeginRecord(w, p, u, amount)
  \/ \E S \in SUBSET Profiles : \E batch \in [S -> 1..MaxPeriods] : BeginRollover(w, batch)

\* Membership, the profile row and the clock move while commands are in flight.
Surroundings ==
  \/ \E p \in Profiles, u \in Users :
       \/ \E r \in Roles : Join(p, u, r)
       \/ Leave(p, u)
  \/ \E p \in Profiles : Archive(p)
  \/ Tick

TxNext ==
  \/ \E w \in Workers :
       \/ Begin(w) \/ Rollback(w)
       \/ CommitSetAllocation(w) \/ CommitRedistribute(w)
       \/ CommitRecord(w) \/ CommitRollover(w)
  \/ Surroundings /\ UNCHANGED tx

TxSpec == TxInit /\ [][TxNext]_txVars

-----------------------------------------------------------------------------
(* Properties.  CapRespected, PeriodsAreAChain and ClosedReconciles of       *)
(* Contributions, which hold of commands that do not overlap, are checked    *)
(* here again.                                                               *)

\* A record, once committed, stays in its period: neither a rollover that read
\* the period before nor another record undoes it (FR-019: "no lost ... amounts").
RecordsAreKept ==
  [][\A p \in Profiles : \A i \in DOMAIN periods[p], u \in Users :
       periods'[p][i].actual[u] >= periods[p][i].actual[u]]_txVars

\* The announced total of a closed period may miss a late record, but never
\* counts one that does not exist (FR-019: "no ... phantom ... amounts").
NoPhantomTotal ==
  \A p \in Profiles : \A i \in DOMAIN periods[p] :
    periods[p][i].reconciled <= poolActual(periods[p][i])

\* redistribution.ts: "prior and current periods keep referencing their original
\* version's allocations, so history is provably preserved": a plan version is
\* not written once there is a later one.
SupersededPlansAreFrozen ==
  [][\A p \in Profiles : \A v \in 1..(currentVersion(p) - 1) :
       plans'[p][v] = plans[p][v]]_txVars

=============================================================================
