------------------------ MODULE DebtResponsibilities ------------------------
(***************************************************************************)
(* Who answers for a shared debt: its responsibility rows from the debt's  *)
(* creation on, under overrides by managers and under the MemberLeft       *)
(* consumer, several of them in flight.  Both replace the whole set: they  *)
(* read it, compute the new set, delete what they see and insert.  An      *)
(* override also bumps the version of the debt, the consumer does not.     *)
(*                                                                         *)
(* Under READ COMMITTED a DELETE sees the rows that are committed when it  *)
(* starts.  If others have deleted some of them but not committed, it      *)
(* waits for them, and does not see what they insert.  Rows carry the      *)
(* number of the commit that wrote them, so that a transaction can keep    *)
(* the rows its DELETE saw.                                                *)
(*                                                                         *)
(* The event travels as Outbox says; here a departure is pending until it  *)
(* is handled.  What the debt amounts to is in Balances.                   *)
(***************************************************************************)
EXTENDS LargestRemainder, Integers

CONSTANTS
  Users, FULL_BP,         \* memberships, as numbers, and 100% responsibility
  Workers,                \* requests and consumers in flight at the same time
  MaxWrites, MaxVersion   \* model bounds

ASSUME DebtResponsibilitiesAssumption ==
  /\ Users \subseteq Nat /\ IsFiniteSet(Users)
  /\ FULL_BP \in Nat \ {0}
  /\ {MaxWrites, MaxVersion} \subseteq Nat

VARIABLES
  status,      \* the status of each membership: "NONE", "ACTIVE" or "LEFT"
  archived,    \* the profile is archived
  departures,  \* the MemberLeft events that are not handled
  version,     \* the version of the debt, or NoDebt
  rows,        \* the responsibility rows
  writes,      \* how many replacements were committed
  tx           \* what each worker is at

people == <<status, archived>>
vars == <<people, departures, version, rows, writes, tx>>

NoDebt == -1

Idle == [cmd |-> "idle"]

Row == [member : Users, bp : 0..FULL_BP, writtenBy : 0..MaxWrites]

\* seen: the rows the DELETE found; behind: those who locked some of them before;
\* set is what will be inserted.
isTx(t) ==
  /\ t.cmd \in {"override", "reassign"} /\ t.step \in {"read", "deleted"}
  /\ t.member \in Users /\ t.expected \in 0..MaxVersion
  /\ DOMAIN t.set \subseteq Users
  /\ t.seen \subseteq Row
  /\ t.behind \subseteq Workers

TypeOK ==
  /\ status \in [Users -> {"NONE", "ACTIVE", "LEFT"}]
  /\ archived \in BOOLEAN
  /\ departures \subseteq Users
  /\ version \in {NoDebt} \cup 0..MaxVersion
  /\ rows \subseteq Row
  /\ writes \in 0..MaxWrites
  /\ \A w \in Workers : tx[w] = Idle \/ isTx(tx[w])

\* Faulty: percent where basis points are due.
rowsOfInPercent(set, n) ==
  {[member |-> m, bp |-> 100 * set[m], writtenBy |-> n] : m \in DOMAIN set}

rowsOf(set, n) == {[member |-> m, bp |-> set[m], writtenBy |-> n] : m \in DOMAIN set}

holders(rs) == {r.member : r \in rs}

sharesOf(rs) == [m \in holders(rs) |-> (CHOOSE r \in rs : r.member = m).bp]

Init ==
  /\ status \in [Users -> {"NONE", "ACTIVE"}]
  /\ archived = FALSE
  /\ departures = {}
  /\ version = NoDebt
  /\ rows = {}
  /\ writes = 0
  /\ tx = [w \in Workers |-> Idle]

activeMembers == {u \in Users : status[u] = "ACTIVE"}

-----------------------------------------------------------------------------
(* What the profiles component does to the rows read here.  A manager who    *)
(* passes the guard is there as long as the profile is active.               *)

Join(u) ==
  /\ status[u] = "NONE"
  /\ status' = [status EXCEPT ![u] = "ACTIVE"]
  /\ UNCHANGED <<archived, departures, version, rows, writes, tx>>

\* An owner hands over before leaving, so that somebody stays.
Leave(u) ==
  /\ status[u] = "ACTIVE"
  /\ activeMembers # {u}
  /\ status' = [status EXCEPT ![u] = "LEFT"]
  /\ departures' = departures \cup {u}
  /\ UNCHANGED <<archived, version, rows, writes, tx>>

Archive ==
  /\ ~archived
  /\ Cardinality(activeMembers) <= 1
  /\ archived' = TRUE
  /\ UNCHANGED <<status, departures, version, rows, writes, tx>>

-----------------------------------------------------------------------------
\* The shares start from the members' percentages in the current plan.
CreateSharedDebt(percentages) ==
  /\ version = NoDebt /\ ~archived
  /\ activeMembers # {}
  /\ version' = 0
  /\ rows' = rowsOf(allocateBp(FULL_BP, Restrict(percentages, activeMembers)), 0)
  /\ UNCHANGED <<people, departures, writes, tx>>

begin(w, cmd, m, expected, set) ==
  /\ tx' = [tx EXCEPT ![w] = [cmd |-> cmd, step |-> "read", member |-> m,
                              expected |-> expected, set |-> set,
                              seen |-> {}, behind |-> {}]]
  /\ UNCHANGED <<people, departures, version, rows, writes>>

mayHold(m, bp) == holders(rows) \ {m} # {} \/ bp = FULL_BP

\* setDebtResponsibility up to its sum check.  The caller expects a version that
\* it was shown; that m is an ACTIVE member is not asked.
BeginOverride(w, m, bp, expected) ==
  LET set == withShare(FULL_BP, sharesOf(rows), m, bp)
  IN  /\ tx[w] = Idle
      /\ ~archived /\ status[m] # "NONE"
      /\ expected <= version
      /\ mayHold(m, bp)
      /\ sumsTo100(FULL_BP, set)
      /\ begin(w, "override", m, expected, set)

\* The consumer is delivered a departure once; while it runs, nobody else has it.
BeginReassign(w, u) ==
  /\ tx[w] = Idle
  /\ u \in departures
  /\ \A v \in Workers : tx[v].cmd = "reassign" => tx[v].member # u
  /\ u \in holders(rows)
  /\ begin(w, "reassign", u, 0, reassignOnLeave(FULL_BP, sharesOf(rows), u))

\* The leaver holds nothing: handled.
SkipReassign(u) ==
  /\ u \in departures \ holders(rows)
  /\ \A v \in Workers : tx[v].cmd = "reassign" => tx[v].member # u
  /\ departures' = departures \ {u}
  /\ UNCHANGED <<people, version, rows, writes, tx>>

\* It deleted rows that are still there for everybody else.
holdsLocks(v) == tx[v] # Idle /\ tx[v].step = "deleted" /\ tx[v].seen \cap rows # {}

\* w ends, and whoever waited for it goes on.
finish(w) ==
  tx' = [v \in Workers |->
           IF v = w \/ tx[v] = Idle THEN Idle
           ELSE [tx[v] EXCEPT !.behind = @ \ {w}]]

\* An override updates the debt row first, which it keeps locked, and is refused
\* if the version has moved on.
Delete(w) ==
  /\ tx[w] # Idle /\ tx[w].step = "read"
  /\ tx[w].cmd = "override" =>
       /\ tx[w].expected = version
       /\ \A v \in Workers : tx[v].cmd = "override" => tx[v].step = "read"
  /\ tx' = [tx EXCEPT ![w].step = "deleted", ![w].seen = rows,
                      ![w].behind = {v \in Workers : holdsLocks(v)}]
  /\ UNCHANGED <<people, departures, version, rows, writes>>

\* Faulty: an insert overwrites a row of the same member, as an upsert would.
CommitUpserting(w) ==
  LET t == tx[w]
      left == {r \in rows \ t.seen : r.member \notin DOMAIN t.set}
  IN  /\ t # Idle /\ t.step = "deleted" /\ t.behind = {}
      /\ writes < MaxWrites
      /\ rows' = left \cup rowsOf(t.set, writes + 1)
      /\ writes' = writes + 1
      /\ IF t.cmd = "override"
         THEN version < MaxVersion /\ version' = version + 1 /\ UNCHANGED departures
         ELSE departures' = departures \ {t.member} /\ UNCHANGED version
      /\ finish(w)
      /\ UNCHANGED people

\* The inserts fail on a member who has a row that the DELETE did not see.
Commit(w) ==
  LET t == tx[w]
      left == rows \ t.seen
  IN  /\ t # Idle /\ t.step = "deleted" /\ t.behind = {}
      /\ holders(left) \cap DOMAIN t.set = {}
      /\ writes < MaxWrites
      /\ rows' = left \cup rowsOf(t.set, writes + 1)
      /\ writes' = writes + 1
      /\ IF t.cmd = "override"
         THEN version < MaxVersion /\ version' = version + 1 /\ UNCHANGED departures
         ELSE departures' = departures \ {t.member} /\ UNCHANGED version
      /\ finish(w)
      /\ UNCHANGED people

\* Refused or failed; the event of a consumer is delivered again.
Rollback(w) ==
  /\ tx[w] # Idle
  /\ finish(w)
  /\ UNCHANGED <<people, departures, version, rows, writes>>

Next ==
  \/ \E u \in Users : Join(u) \/ Leave(u) \/ SkipReassign(u)
  \/ Archive
  \/ \E percentages \in [Users -> 0..FULL_BP] : CreateSharedDebt(percentages)
  \/ \E w \in Workers :
       \/ Delete(w) \/ Commit(w) \/ Rollback(w)
       \/ \E u \in Users : BeginReassign(w, u)
       \/ \E m \in Users, bp \in 0..FULL_BP, v \in 0..MaxVersion : BeginOverride(w, m, bp, v)

Spec == Init /\ [][Next]_vars

-----------------------------------------------------------------------------
(* Properties. *)

\* Overrides among themselves, and overrides against one departure, leave a set
\* that adds up to the whole in every interleaving: overrides serialise on the
\* version of the debt, and a departure and an override that overlap insert a row
\* of the same member, which the unique index refuses (FR-020a, FR-024a).
SumHoldsUntilTwoLeave ==
  (rows # {} /\ Cardinality({u \in Users : status[u] = "LEFT"}) <= 1) =>
    sumsTo100(FULL_BP, sharesOf(rows))

\* Whoever leaves next takes from nobody who stays: those who stay answer for the
\* whole, and every share grows to the same proportion of it, to within one unit,
\* however the split rounds (FR-020a, FR-024a).
isFair(shares, leaver, after) ==
  LET kept == FULL_BP - shares[leaver]
  IN  /\ DOMAIN after # {} => sumsTo100(FULL_BP, after)
      /\ \A m \in DOMAIN shares \ {leaver} :
           /\ after[m] >= shares[m]
           /\ kept > 0 => /\ after[m] * kept < shares[m] * FULL_BP + kept
                          /\ shares[m] * FULL_BP < after[m] * kept + kept

ReassignmentIsFair ==
  LET shares == sharesOf(rows)
  IN  sumsTo100(FULL_BP, shares) =>
        \A u \in DOMAIN shares : isFair(shares, u, reassignOnLeave(FULL_BP, shares, u))

\* FR-020a: "Responsibility percentages for a given shared debt MUST sum to 100%".
SharesSumTo100 == rows # {} => sumsTo100(FULL_BP, sharesOf(rows))

\* FR-006a: "a write submitted against a stale version MUST be rejected with a
\* conflict error (no silent lost updates)": a rewrite that leaves the version
\* alone is the reassignment of the set that is stored, not of an older one.
NoLostOverride ==
  [][(rows' # rows /\ version' = version) =>
       \E u \in departures :
         sharesOf(rows') = reassignOnLeave(FULL_BP, sharesOf(rows), u)]_vars

\* FR-020a: "When a member leaves, their responsibility share on each
\* outstanding shared debt MUST be reassigned to the remaining members": once
\* the consumer has handled a departure, the leaver holds nothing.
LeaversHoldNothing ==
  \A u \in holders(rows) : status[u] = "ACTIVE" \/ u \in departures

\* FR-020a: "so the set continues to sum to 100%": while the profile has
\* members, a debt has somebody to answer for it.
DebtIsHeld == version # NoDebt => rows # {}

=============================================================================
