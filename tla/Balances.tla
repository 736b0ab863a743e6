------------------------------ MODULE Balances ------------------------------
(***************************************************************************)
(* The rows that hold money, under concurrent requests: the goals, debts,  *)
(* budgets and investments of one shared profile, and the personal         *)
(* accounts its members contribute from.  A handler reads the row, decides *)
(* on what it read, and writes the amount it computed; reading and writing *)
(* are separate steps here.                                                *)
(*                                                                         *)
(* The rows of the profile are written by updateWithOptimisticLock: the    *)
(* UPDATE also matches the version that the client expects.  Accounts have *)
(* no version: setBalance writes whatever the handler computed.            *)
(*                                                                         *)
(* A profile always has members that pass the guards, so that of the       *)
(* callers only the owner of an account is looked at.  What a contribution *)
(* does to periods is in Contributions, the shares of a debt are in        *)
(* DebtResponsibilities.                                                   *)
(***************************************************************************)
EXTENDS Integers

CONSTANTS
  Rows,                   \* the ids of the rows
  Target,                 \* the targetAmount of a goal
  Workers,                \* requests in flight at the same time
  MaxCents, MaxVersion    \* model bounds

Kind == {"goal", "debt", "budget", "investment", "account"}

ASSUME BalancesAssumption ==
  /\ Target \in Nat \ {0}
  /\ {MaxCents, MaxVersion} \subseteq Nat

VARIABLES
  archived,    \* the profile is archived
  enrolled,    \* the owner of the accounts is a member who may contribute
  periodOpen,  \* a contribution period is open
  row,         \* "amount" is fundedAmount, outstandingBalance, spent, currentValue, balance
  opening,     \* the amount each row was created with
  moved,       \* the sum of the accepted requests, by row: for an account, its records
  tx           \* what each worker is at

surroundings == <<archived, enrolled, periodOpen>>
vars == <<surroundings, row, opening, moved, tx>>

Amount == 0..MaxCents
GoalStatus == {"ACTIVE", "ACHIEVED"}

\* foreign: an account in another currency than the profile's.
NoRow == [kind |-> "none", amount |-> 0, status |-> "ACTIVE", version |-> 0, foreign |-> FALSE]
Row == [kind : Kind \cup {"none"}, amount : Amount, status : GoalStatus,
        version : 0..MaxVersion, foreign : BOOLEAN]

Idle == [at |-> "idle"]
Request == [at : {"decided"}, on : Rows, cents : Amount, expected : 0..MaxVersion,
            amount : Amount, status : GoalStatus]

TypeOK ==
  /\ {archived, enrolled, periodOpen} \subseteq BOOLEAN
  /\ row \in [Rows -> Row]
  /\ opening \in [Rows -> Amount]
  /\ moved \in [Rows -> Nat]
  /\ tx \in [Workers -> {Idle} \cup Request]

Init ==
  /\ archived = FALSE
  /\ enrolled = TRUE
  /\ periodOpen = FALSE
  /\ row = [r \in Rows |-> NoRow]
  /\ opening = [r \in Rows |-> 0]
  /\ moved = [r \in Rows |-> 0]
  /\ tx = [w \in Workers |-> Idle]

-----------------------------------------------------------------------------
insert(r, kind, cents, foreign) ==
  /\ row[r] = NoRow
  /\ row' = [row EXCEPT ![r] = [NoRow EXCEPT !.kind = kind, !.amount = cents, !.foreign = foreign]]
  /\ opening' = [opening EXCEPT ![r] = cents]
  /\ UNCHANGED <<surroundings, moved, tx>>

\* A goal and a budget start at zero; a budget needs an open period.
CreateSharedElement(r, kind, cents) ==
  /\ ~archived
  /\ kind \in {"goal", "budget"} => cents = 0
  /\ kind = "budget" => periodOpen
  /\ insert(r, kind, cents, FALSE)

\* An account has nothing to do with the shared profile.
CreatePersonalAccount(r, cents, foreign) == insert(r, "account", cents, foreign)

\* fundGoal, recordSpend, payDebt, withdrawForContribution, updateInvestmentValue:
\* the amount to be written for cents on a row that holds held.
newAmount(kind, held, cents) ==
  CASE kind \in {"goal", "budget"} -> held + cents
    [] kind \in {"debt", "account"} -> held - cents
    [] kind = "investment" -> cents

\* Faulty: overpayment is accepted.
isAcceptedBeyondBalance(kind, held, cents) == kind # "investment" => cents > 0

\* What they refuse: nothing or less (but an investment may be worth nothing), and
\* more than a debt or an account holds.
isAccepted(kind, held, cents) ==
  /\ kind # "investment" => cents > 0
  /\ kind \in {"debt", "account"} => cents <= held

goalStatus(kind, amount) ==
  IF kind = "goal" /\ amount >= Target THEN "ACHIEVED" ELSE "ACTIVE"

guard(r) == row[r] # NoRow /\ ~archived

\* No conversion ever happens between currencies.
isOfProfileCurrency(r) == ~row[r].foreign

mayContributeFrom(r) == row[r].kind = "account" => enrolled /\ isOfProfileCurrency(r)

\* fundGoal, paySharedDebt, recordBudgetSpend, updateInvestmentValue and
\* contributeFromAccount up to their write.  The client expects a version that it
\* was shown.
Decide(w, r, cents, expected) ==
  LET amount == newAmount(row[r].kind, row[r].amount, cents)
  IN  /\ tx[w] = Idle
      /\ guard(r)
      /\ mayContributeFrom(r)
      /\ expected <= row[r].version
      /\ isAccepted(row[r].kind, row[r].amount, cents)
      /\ amount <= MaxCents
      /\ tx' = [tx EXCEPT ![w] =
                  [at |-> "decided", on |-> r, cents |-> cents, expected |-> expected,
                   amount |-> amount, status |-> goalStatus(row[r].kind, amount)]]
      /\ UNCHANGED <<surroundings, row, opening, moved>>

\* Faulty: the WHERE clause names the id alone.
isCurrentAlways(r, expected) == TRUE

isCurrent(r, expected) == row[r].version = expected

\* Faulty: the status is left as it was.
versionedUpdateOfAmount(r, amount, status) ==
  row' = [row EXCEPT ![r].amount = amount, ![r].version = @ + 1]

versionedUpdate(r, amount, status) ==
  row' = [row EXCEPT ![r].amount = amount, ![r].status = status, ![r].version = @ + 1]

CommitVersioned(w) ==
  LET t == tx[w]
  IN  /\ t # Idle /\ row[t.on].kind # "account"
      /\ isCurrent(t.on, t.expected)
      /\ row[t.on].version < MaxVersion
      /\ versionedUpdate(t.on, t.amount, t.status)
      /\ moved' = [moved EXCEPT ![t.on] = IF row[t.on].kind = "investment" THEN @ ELSE @ + t.cents]
      /\ tx' = [tx EXCEPT ![w] = Idle]
      /\ UNCHANGED <<surroundings, opening>>

\* Faulty: the debit is committed without its record.
CommitDebitAlone(w) ==
  LET t == tx[w]
  IN  /\ t # Idle /\ row[t.on].kind = "account"
      /\ row' = [row EXCEPT ![t.on].amount = t.amount]
      /\ tx' = [tx EXCEPT ![w] = Idle]
      /\ UNCHANGED <<surroundings, opening, moved>>

\* setBalance and createRecord become visible together.
CommitContribution(w) ==
  LET t == tx[w]
  IN  /\ t # Idle /\ row[t.on].kind = "account"
      /\ moved[t.on] + t.cents <= 2 * MaxCents
      /\ row' = [row EXCEPT ![t.on].amount = t.amount]
      /\ moved' = [moved EXCEPT ![t.on] = @ + t.cents]
      /\ tx' = [tx EXCEPT ![w] = Idle]
      /\ UNCHANGED <<surroundings, opening>>

\* The UPDATE matched no row, CONFLICT; or the transaction failed.
Rollback(w) ==
  /\ tx[w] # Idle
  /\ tx' = [tx EXCEPT ![w] = Idle]
  /\ UNCHANGED <<surroundings, row, opening, moved>>

\* setDebtResponsibility bumps the version alone.
TouchDebt(r) ==
  /\ guard(r) /\ row[r].kind = "debt"
  /\ row[r].version < MaxVersion
  /\ row' = [row EXCEPT ![r].version = @ + 1]
  /\ UNCHANGED <<surroundings, opening, moved, tx>>

-----------------------------------------------------------------------------
(* Surroundings: a first period opens, the profile is archived, the owner of  *)
(* the accounts leaves or becomes a VIEWER.                                  *)

OpenPeriod ==
  /\ periodOpen' = TRUE
  /\ UNCHANGED <<archived, enrolled, row, opening, moved, tx>>

Archive ==
  /\ archived' = TRUE
  /\ UNCHANGED <<enrolled, periodOpen, row, opening, moved, tx>>

Withdraw ==
  /\ enrolled' = FALSE
  /\ UNCHANGED <<archived, periodOpen, row, opening, moved, tx>>

Next ==
  \/ \E r \in Rows, cents \in Amount :
       \/ \E kind \in Kind \ {"account"} : CreateSharedElement(r, kind, cents)
       \/ \E foreign \in BOOLEAN : CreatePersonalAccount(r, cents, foreign)
  \/ \E w \in Workers :
       \/ \E r \in Rows, cents \in Amount, v \in 0..MaxVersion : Decide(w, r, cents, v)
       \/ CommitVersioned(w) \/ CommitContribution(w) \/ Rollback(w)
  \/ \E r \in Rows : TouchDebt(r)
  \/ OpenPeriod \/ Archive \/ Withdraw

Spec == Init /\ [][Next]_vars

-----------------------------------------------------------------------------
(* Properties. *)

\* What a row should hold, going by the requests that were accepted.
dueAmount(r) ==
  CASE row[r].kind \in {"goal", "budget"} -> moved[r]
    [] row[r].kind \in {"debt", "account"} -> opening[r] - moved[r]
    [] OTHER -> row[r].amount

\* FR-018, FR-020, FR-020b: the goals, debts and budgets of a profile reflect
\* exactly the requests that were accepted, none lost and none counted twice,
\* whatever overlapped (optimistic locking, FR-006a).
AmountsAreExact ==
  \A r \in Rows : row[r].kind # "account" => row[r].amount = dueAmount(r)

\* A goal is ACHIEVED exactly when what it holds reaches its target: the status
\* and the amount are written together, from one read.
AchievedIsFunded ==
  \A r \in Rows :
    row[r].kind = "goal" => (row[r].status = "ACHIEVED" <=> row[r].amount >= Target)

\* Contributions from one account that overlap never cost its owner more than
\* the pools received: a debit may be lost, a record is not.
NoMoneyIsLost ==
  \A r \in Rows : row[r].kind = "account" => row[r].amount >= dueAmount(r)

\* accounts.service.ts: contributing "moves ONLY the contributed amount into the
\* shared pool ... and debits the account by that same amount".
DebitsMatchRecords ==
  \A r \in Rows : row[r].kind = "account" => row[r].amount = dueAmount(r)

\* FR-007c: "An archived profile MUST become read-only: future contributions,
\* allocations, and shared-element changes are frozen".
FrozenOnceArchived ==
  [][archived => \A r \in Rows : row'[r].kind # "account" => row'[r] = row[r]]_vars

=============================================================================
