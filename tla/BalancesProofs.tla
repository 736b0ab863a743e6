--------------------------- MODULE BalancesProofs ---------------------------
(***************************************************************************)
(* Proofs about Balances, for any rows, requests and bounds.               *)
(*                                                                         *)
(* That the amounts are exact says nothing of the requests in flight, and  *)
(* so is not inductive: a request writes what it computed some time ago.   *)
(* Of a versioned row it matters that a request still computes what it     *)
(* computed while the row has the version it expects, and that a request   *)
(* which expects an older version stays refused.  Of an account it matters *)
(* that a stale amount only errs in the owner's favour.                    *)
(*                                                                         *)
(* If the requests on an account take turns, no amount is stale.           *)
(***************************************************************************)
EXTENDS Balances, TLAPS

\* Every row that has a kind was inserted.
VacantInv == \A r \in Rows : row[r].kind = "none" => row[r] = NoRow

\* What a request of a versioned row is about to write, if it is not refused.
isFresh(t) ==
  t.expected = row[t.on].version =>
    /\ t.amount = newAmount(row[t.on].kind, row[t.on].amount, t.cents)
    /\ t.status = goalStatus(row[t.on].kind, t.amount)

\* A request of an account writes no less than it should.
isInFavour(t) == t.amount >= opening[t.on] - moved[t.on] - t.cents

RequestOK(t) ==
  /\ row[t.on].kind # "none"
  /\ t.expected <= row[t.on].version
  /\ row[t.on].kind # "account" => isFresh(t)
  /\ row[t.on].kind = "account" => isInFavour(t)

RequestInv == \A w \in Workers : tx[w] # Idle => RequestOK(tx[w])

\* What the three properties say of one row.
RowOK(r) ==
  /\ row[r].kind \in {"none", "goal", "budget"} => row[r].amount = moved[r]
  /\ row[r].kind = "debt" => row[r].amount = opening[r] - moved[r]
  /\ row[r].kind = "account" => row[r].amount >= opening[r] - moved[r]
  /\ row[r].kind = "goal" => (row[r].status = "ACHIEVED" <=> row[r].amount >= Target)

IInv == /\ TypeOK
        /\ VacantInv
        /\ RequestInv
        /\ \A r \in Rows : RowOK(r)

-----------------------------------------------------------------------------
(* Lemmas about the rows and the requests. *)

\* The row that a place holds before the insert.
LEMMA NoRowFields ==
  /\ NoRow.kind = "none" /\ NoRow.amount = 0 /\ NoRow.status = "ACTIVE"
  /\ NoRow.version = 0 /\ NoRow.foreign = FALSE
BY DEF NoRow

\* A request in flight is a well-formed one; an idle worker has none.
LEMMA InFlight ==
  ASSUME TypeOK, NEW w \in Workers, tx[w] # Idle
  PROVE  /\ tx[w] \in Request
         /\ tx[w].on \in Rows /\ tx[w].cents \in Amount /\ tx[w].amount \in Amount
         /\ tx[w].expected \in 0..MaxVersion /\ tx[w].status \in GoalStatus
<1>1. tx[w] \in Request
  BY DEF TypeOK
<1>2. QED
  BY <1>1 DEF Request

\* A row that is there has one of the kinds.
LEMMA RowFields ==
  ASSUME TypeOK, NEW r \in Rows
  PROVE  /\ row[r] \in Row
         /\ row[r].kind \in Kind \cup {"none"} /\ row[r].amount \in Amount
         /\ row[r].status \in GoalStatus /\ row[r].version \in 0..MaxVersion
         /\ row[r].foreign \in BOOLEAN
         /\ opening[r] \in Amount /\ moved[r] \in Nat
<1>1. row[r] \in Row /\ opening[r] \in Amount /\ moved[r] \in Nat
  BY DEF TypeOK
<1>2. QED
  BY <1>1 DEF Row

\* The row that an insert writes.
newRow(kind, cents, foreign) ==
  [NoRow EXCEPT !.kind = kind, !.amount = cents, !.foreign = foreign]

\* A new row holds what it is created with.
LEMMA NewRowFields ==
  ASSUME NEW kind \in Kind, NEW cents \in Amount, NEW foreign \in BOOLEAN
  PROVE  /\ newRow(kind, cents, foreign) \in Row
         /\ newRow(kind, cents, foreign).kind = kind
         /\ newRow(kind, cents, foreign).amount = cents
         /\ newRow(kind, cents, foreign).status = "ACTIVE"
         /\ newRow(kind, cents, foreign).version = 0
<1>1. 0 \in 0..MaxVersion /\ 0 \in Amount
  BY BalancesAssumption DEF Amount
<1>2. NoRow \in Row
  BY <1>1, Zenon DEF NoRow, Row, GoalStatus
<1>3. QED
  BY <1>2, NoRowFields DEF newRow, Row

\* An account whose balance is written keeps the rest of its row.
LEMMA DebitedRowFields ==
  ASSUME NEW old \in Row, NEW amount \in Amount
  PROVE  LET new == [old EXCEPT !.amount = amount]
         IN  /\ new \in Row
             /\ new.kind = old.kind /\ new.amount = amount
             /\ new.status = old.status /\ new.version = old.version
BY DEF Row

\* A row that only gets a new version keeps what it is about.
LEMMA TouchedRowFields ==
  ASSUME NEW old \in Row, old.version < MaxVersion
  PROVE  LET new == [old EXCEPT !.version = @ + 1]
         IN  /\ new \in Row
             /\ new.kind = old.kind /\ new.amount = old.amount
             /\ new.status = old.status /\ new.version = old.version + 1
<1>1. old.version + 1 \in 0..MaxVersion
  BY BalancesAssumption DEF Row
<1>2. QED
  BY <1>1 DEF Row

-----------------------------------------------------------------------------
(* What a step has to show: the rows it does not write stay what they were,  *)
(* and so do the requests on them.                                           *)

\* A row that a step does not write stays right.
LEMMA OtherRows ==
  ASSUME NEW r \in Rows, RowOK(r),
         row'[r] = row[r], opening'[r] = opening[r], moved'[r] = moved[r]
  PROVE  RowOK(r)'
BY DEF RowOK

\* A request in flight stays right if neither it nor its row is written.
LEMMA OtherRequests ==
  ASSUME NEW w \in Workers, RequestOK(tx[w]), tx'[w] = tx[w],
         row'[tx[w].on] = row[tx[w].on],
         opening'[tx[w].on] = opening[tx[w].on], moved'[tx[w].on] = moved[tx[w].on]
  PROVE  RequestOK(tx[w])'
BY DEF RequestOK, isFresh, isInFavour

\* Nothing is stored and nothing is in flight at first.
LEMMA InitIInv == Init => IInv
<1> SUFFICES ASSUME Init PROVE IInv
  OBVIOUS
<1>1. 0 \in 0..MaxVersion /\ 0 \in Amount
  BY BalancesAssumption DEF Amount
<1>2. NoRow \in Row
  BY <1>1, Zenon DEF NoRow, Row, GoalStatus
<1>3. TypeOK
  <2>1. {archived, enrolled, periodOpen} \subseteq BOOLEAN
    BY DEF Init
  <2>2. QED
    BY <1>1, <1>2, <2>1 DEF Init, TypeOK
<1>4. RequestInv
  BY DEF Init, RequestInv
<1>5. QED
  BY <1>3, <1>4, NoRowFields DEF Init, IInv, VacantInv, RowOK

-----------------------------------------------------------------------------
(* The actions, those that write a row first.                                *)

\* A row is inserted where none was: no request in flight is on it.
LEMMA InsertIInv ==
  ASSUME IInv, NEW r \in Rows, NEW kind \in Kind, NEW cents \in Amount,
         NEW foreign \in BOOLEAN, kind \in {"goal", "budget"} => cents = 0,
         insert(r, kind, cents, foreign)
  PROVE  IInv'
<1>1. PICK new : /\ new = newRow(kind, cents, foreign)
                 /\ new \in Row /\ new.kind = kind /\ new.amount = cents
                 /\ new.status = "ACTIVE" /\ new.version = 0
  BY NewRowFields
<1>2. /\ row[r] = NoRow /\ moved[r] = 0
      /\ row' = [row EXCEPT ![r] = new] /\ opening' = [opening EXCEPT ![r] = cents]
      /\ UNCHANGED <<archived, enrolled, periodOpen, moved, tx>>
  BY <1>1, NoRowFields DEF insert, newRow, surroundings, IInv, RowOK
<1>3. /\ row'[r] = new /\ opening'[r] = cents
      /\ \A s \in Rows \ {r} : row'[s] = row[s] /\ opening'[s] = opening[s]
      /\ row' \in [Rows -> Row] /\ opening' \in [Rows -> Amount]
  BY <1>1, <1>2 DEF IInv, TypeOK
<1>4. TypeOK'
  <2>1. {archived, enrolled, periodOpen}' \subseteq BOOLEAN
    BY <1>2 DEF IInv, TypeOK
  <2>2. QED
    BY <1>2, <1>3, <2>1 DEF IInv, TypeOK
<1>5. VacantInv'
  BY <1>1, <1>3 DEF IInv, VacantInv, Kind
<1>6. RequestInv'
  <2> SUFFICES ASSUME NEW w \in Workers, tx[w] # Idle
               PROVE  RequestOK(tx[w])'
    BY <1>2 DEF RequestInv
  <2>1. RequestOK(tx[w]) /\ tx[w].on \in Rows /\ tx'[w] = tx[w]
    BY <1>2, InFlight DEF IInv, RequestInv
  <2>2. tx[w].on # r
    BY <1>2, <2>1, NoRowFields DEF RequestOK
  <2>3. QED
    BY <1>2, <1>3, <2>1, <2>2, OtherRequests
<1>7. \A s \in Rows : RowOK(s)'
  <2> SUFFICES ASSUME NEW s \in Rows PROVE RowOK(s)'
    OBVIOUS
  <2>1. CASE s = r
    BY <1>1, <1>2, <1>3, <2>1, BalancesAssumption DEF RowOK, Kind, Amount
  <2>2. CASE s # r
    BY <1>2, <1>3, <2>2, OtherRows DEF IInv
  <2>3. QED
    BY <2>1, <2>2
<1>8. QED
  BY <1>4, <1>5, <1>6, <1>7 DEF IInv

\* A request that is admitted computes the amount from the row as it is.
LEMMA DecideIInv ==
  ASSUME IInv, NEW w \in Workers, NEW r \in Rows, NEW cents \in Amount,
         NEW v \in 0..MaxVersion, Decide(w, r, cents, v)
  PROVE  IInv'
<1>. DEFINE amount == newAmount(row[r].kind, row[r].amount, cents)
            t == [at |-> "decided", on |-> r, cents |-> cents, expected |-> v,
                  amount |-> amount, status |-> goalStatus(row[r].kind, amount)]
<1>1. /\ tx' = [tx EXCEPT ![w] = t]
      /\ row[r] # NoRow /\ v <= row[r].version /\ amount <= MaxCents
      /\ isAccepted(row[r].kind, row[r].amount, cents)
      /\ UNCHANGED <<archived, enrolled, periodOpen, row, opening, moved>>
  BY DEF Decide, guard, surroundings
<1>2. row[r].kind \in Kind /\ row[r].amount \in Amount /\ opening[r] \in Amount
      /\ moved[r] \in Nat
  BY <1>1, RowFields DEF IInv, VacantInv
<1>3. amount \in Amount
  BY <1>1, <1>2, BalancesAssumption DEF newAmount, isAccepted, Kind, Amount
<1>4. goalStatus(row[r].kind, amount) \in GoalStatus
  BY DEF goalStatus, GoalStatus
<1>5. /\ t \in Request /\ t.on = r /\ t.cents = cents /\ t.expected = v
      /\ t.amount = amount /\ t.status = goalStatus(row[r].kind, amount)
  BY <1>3, <1>4 DEF Request
<1>6. row[r].kind = "account" => amount >= opening[r] - moved[r] - cents
  BY <1>2, <1>3 DEF IInv, RowOK, newAmount, Amount
<1>. HIDE DEF amount, t
<1>7. TypeOK'
  <2>1. {archived, enrolled, periodOpen}' \subseteq BOOLEAN
    BY <1>1 DEF IInv, TypeOK
  <2>2. tx' \in [Workers -> {Idle} \cup Request]
    BY <1>1, <1>5 DEF IInv, TypeOK
  <2>3. QED
    BY <1>1, <2>1, <2>2 DEF IInv, TypeOK
<1>8. RequestInv'
  <2> SUFFICES ASSUME NEW u \in Workers, tx'[u] # Idle PROVE RequestOK(tx[u])'
    BY DEF RequestInv
  <2>1. CASE u = w
    <3>1. tx'[u] = t
      BY <1>1, <2>1 DEF IInv, TypeOK
    <3>2. isFresh(tx[u])'
      BY <1>1, <1>5, <3>1 DEF isFresh, amount
    <3>3. row[r].kind = "account" => isInFavour(tx[u])'
      BY <1>1, <1>5, <1>6, <3>1 DEF isInFavour
    <3>4. QED
      BY <1>1, <1>2, <1>5, <3>1, <3>2, <3>3 DEF RequestOK, Kind
  <2>2. CASE u # w
    <3>1. tx'[u] = tx[u]
      BY <1>1, <2>2 DEF IInv, TypeOK
    <3>2. QED
      BY <1>1, <3>1, OtherRequests DEF IInv, RequestInv
  <2>3. QED
    BY <2>1, <2>2
<1>9. VacantInv' /\ \A s \in Rows : RowOK(s)'
  BY <1>1, OtherRows DEF IInv, VacantInv
<1>10. QED
  BY <1>7, <1>8, <1>9 DEF IInv

\* The versioned write: the row still is what the request read, and the requests
\* that expect the version it had are stale from here on.
LEMMA CommitVersionedIInv ==
  ASSUME IInv, NEW w \in Workers, CommitVersioned(w)
  PROVE  IInv'
<1>. DEFINE t == tx[w]
            r == t.on
            new == [row[r] EXCEPT !.amount = t.amount, !.status = t.status, !.version = @ + 1]
<1>1. /\ t # Idle /\ row[r].kind # "account" /\ row[r].version = t.expected
      /\ row[r].version < MaxVersion
      /\ row' = [row EXCEPT ![r] = new]
      /\ moved' = [moved EXCEPT ![r] = IF row[r].kind = "investment" THEN @ ELSE @ + t.cents]
      /\ tx' = [tx EXCEPT ![w] = Idle]
      /\ UNCHANGED <<archived, enrolled, periodOpen, opening>>
  BY DEF CommitVersioned, versionedUpdate, isCurrent, surroundings
<1>2. /\ r \in Rows /\ t.cents \in Amount /\ t.amount \in Amount
      /\ t.status \in GoalStatus /\ RequestOK(t)
  BY <1>1, InFlight DEF IInv, RequestInv
<1>3. /\ row[r] \in Row /\ row[r].kind \in Kind /\ row[r].amount \in Amount
      /\ row[r].version \in Nat /\ opening[r] \in Amount /\ moved[r] \in Nat
  BY <1>2, RowFields, BalancesAssumption DEF IInv, RequestOK
<1>4. /\ t.amount = newAmount(row[r].kind, row[r].amount, t.cents)
      /\ t.status = goalStatus(row[r].kind, t.amount)
  BY <1>1, <1>2 DEF RequestOK, isFresh
<1>5. /\ new \in Row /\ new.kind = row[r].kind /\ new.amount = t.amount
      /\ new.status = t.status /\ new.version = row[r].version + 1
  <2>1. row[r].version + 1 \in 0..MaxVersion
    BY <1>1, <1>3, BalancesAssumption
  <2>. HIDE DEF r, t
  <2>2. QED
    BY <1>2, <1>3, <2>1 DEF Row
<1>. HIDE DEF new, r, t
<1>6. /\ row'[r] = new /\ tx'[w] = Idle
      /\ moved'[r] = IF row[r].kind = "investment" THEN moved[r] ELSE moved[r] + t.cents
      /\ \A s \in Rows \ {r} : row'[s] = row[s] /\ moved'[s] = moved[s]
      /\ \A u \in Workers \ {w} : tx'[u] = tx[u]
      /\ row' \in [Rows -> Row] /\ moved' \in [Rows -> Nat]
      /\ tx' \in [Workers -> {Idle} \cup Request]
  BY <1>1, <1>2, <1>3, <1>5 DEF IInv, TypeOK, Amount
<1>7. TypeOK'
  <2>1. {archived, enrolled, periodOpen}' \subseteq BOOLEAN
    BY <1>1 DEF IInv, TypeOK
  <2>2. QED
    BY <1>1, <1>6, <2>1 DEF IInv, TypeOK
<1>8. VacantInv'
  BY <1>3, <1>5, <1>6 DEF IInv, VacantInv, Kind
<1>9. RequestInv'
  <2> SUFFICES ASSUME NEW u \in Workers, tx'[u] # Idle PROVE RequestOK(tx[u])' /\ tx'[u] = tx[u]
    BY DEF RequestInv
  <2>1. u # w /\ tx'[u] = tx[u]
    BY <1>6
  <2>2. RequestOK(tx[u]) /\ tx[u].on \in Rows /\ tx[u].expected \in Nat
    BY <2>1, InFlight, BalancesAssumption DEF IInv, RequestInv
  <2>3. CASE tx[u].on = r
    BY <1>1, <1>3, <1>5, <1>6, <2>1, <2>2, <2>3 DEF RequestOK, isFresh
  <2>4. CASE tx[u].on # r
    BY <1>1, <1>6, <2>1, <2>2, <2>4, OtherRequests
  <2>5. QED
    BY <2>1, <2>3, <2>4
<1>10. \A s \in Rows : RowOK(s)'
  <2> SUFFICES ASSUME NEW s \in Rows PROVE RowOK(s)'
    OBVIOUS
  <2>1. CASE s = r
    <3>1. RowOK(r)
      BY <1>2 DEF IInv
    <3>2. QED
      BY <1>1, <1>2, <1>3, <1>4, <1>5, <1>6, <2>1, <3>1, BalancesAssumption
      DEF RowOK, newAmount, goalStatus, Kind, Amount
  <2>2. CASE s # r
    BY <1>1, <1>6, <2>2, OtherRows DEF IInv
  <2>3. QED
    BY <2>1, <2>2
<1>11. QED
  BY <1>7, <1>8, <1>9, <1>10 DEF IInv

\* The account's debit: what is due falls by what was recorded, and the amount
\* written is at least that; what the others are about to write is, too.
LEMMA CommitContributionIInv ==
  ASSUME IInv, NEW w \in Workers, CommitContribution(w)
  PROVE  IInv'
<1>. DEFINE t == tx[w]
            r == t.on
            new == [row[r] EXCEPT !.amount = t.amount]
<1>1. /\ t # Idle /\ row[r].kind = "account"
      /\ row' = [row EXCEPT ![r] = new]
      /\ moved' = [moved EXCEPT ![r] = @ + t.cents]
      /\ tx' = [tx EXCEPT ![w] = Idle]
      /\ UNCHANGED <<archived, enrolled, periodOpen, opening>>
  BY DEF CommitContribution, surroundings
<1>2. /\ r \in Rows /\ t.cents \in Amount /\ t.amount \in Amount /\ RequestOK(t)
  BY <1>1, InFlight DEF IInv, RequestInv
<1>3. /\ row[r] \in Row /\ row[r].version \in Nat
      /\ opening[r] \in Amount /\ moved[r] \in Nat
  BY <1>2, RowFields, BalancesAssumption DEF IInv
<1>4. t.amount >= opening[r] - moved[r] - t.cents
  BY <1>1, <1>2 DEF RequestOK, isInFavour
<1>5. /\ new \in Row /\ new.kind = row[r].kind /\ new.amount = t.amount
      /\ new.version = row[r].version
  BY <1>2, <1>3, DebitedRowFields
<1>. HIDE DEF new, r, t
<1>6. /\ row'[r] = new /\ tx'[w] = Idle /\ moved'[r] = moved[r] + t.cents
      /\ \A s \in Rows \ {r} : row'[s] = row[s] /\ moved'[s] = moved[s]
      /\ \A u \in Workers \ {w} : tx'[u] = tx[u]
      /\ row' \in [Rows -> Row] /\ moved' \in [Rows -> Nat]
      /\ tx' \in [Workers -> {Idle} \cup Request]
  BY <1>1, <1>2, <1>3, <1>5 DEF IInv, TypeOK, Amount
<1>7. TypeOK'
  <2>1. {archived, enrolled, periodOpen}' \subseteq BOOLEAN
    BY <1>1 DEF IInv, TypeOK
  <2>2. QED
    BY <1>1, <1>6, <2>1 DEF IInv, TypeOK
<1>8. VacantInv'
  BY <1>1, <1>5, <1>6 DEF IInv, VacantInv
<1>9. RequestInv'
  <2> SUFFICES ASSUME NEW u \in Workers, tx'[u] # Idle PROVE RequestOK(tx[u])' /\ tx'[u] = tx[u]
    BY DEF RequestInv
  <2>1. u # w /\ tx'[u] = tx[u]
    BY <1>6
  <2>2. RequestOK(tx[u]) /\ tx[u].on \in Rows /\ tx[u].cents \in Amount /\ tx[u].amount \in Amount
    BY <2>1, InFlight DEF IInv, RequestInv
  <2>3. CASE tx[u].on = r
    BY <1>1, <1>2, <1>3, <1>5, <1>6, <2>1, <2>2, <2>3 DEF RequestOK, isInFavour, Amount
  <2>4. CASE tx[u].on # r
    BY <1>1, <1>6, <2>1, <2>2, <2>4, OtherRequests
  <2>5. QED
    BY <2>1, <2>3, <2>4
<1>10. \A s \in Rows : RowOK(s)'
  <2> SUFFICES ASSUME NEW s \in Rows PROVE RowOK(s)'
    OBVIOUS
  <2>1. CASE s = r
    BY <1>1, <1>2, <1>3, <1>4, <1>5, <1>6, <2>1 DEF RowOK, Amount
  <2>2. CASE s # r
    BY <1>1, <1>6, <2>2, OtherRows DEF IInv
  <2>3. QED
    BY <2>1, <2>2
<1>11. QED
  BY <1>7, <1>8, <1>9, <1>10 DEF IInv

\* A request that fails is gone.
LEMMA RollbackIInv ==
  ASSUME IInv, NEW w \in Workers, Rollback(w)
  PROVE  IInv'
<1>1. /\ tx' = [tx EXCEPT ![w] = Idle]
      /\ UNCHANGED <<archived, enrolled, periodOpen, row, opening, moved>>
  BY DEF Rollback, surroundings
<1>2. tx' \in [Workers -> {Idle} \cup Request] /\ \A u \in Workers : tx'[u] \in {Idle, tx[u]}
  BY <1>1 DEF IInv, TypeOK
<1>3. TypeOK'
  <2>1. {archived, enrolled, periodOpen}' \subseteq BOOLEAN
    BY <1>1 DEF IInv, TypeOK
  <2>2. QED
    BY <1>1, <1>2, <2>1 DEF IInv, TypeOK
<1>4. RequestInv'
  <2> SUFFICES ASSUME NEW u \in Workers, tx'[u] # Idle PROVE RequestOK(tx[u])' /\ tx'[u] = tx[u]
    BY DEF RequestInv
  <2>1. QED
    BY <1>1, <1>2, OtherRequests DEF IInv, RequestInv
<1>5. QED
  BY <1>1, <1>3, <1>4, OtherRows DEF IInv, VacantInv

\* The version alone moves: a request that was current becomes stale, and no
\* stale one becomes current.
LEMMA TouchDebtIInv ==
  ASSUME IInv, NEW r \in Rows, TouchDebt(r)
  PROVE  IInv'
<1>. DEFINE new == [row[r] EXCEPT !.version = @ + 1]
<1>1. /\ row[r].kind = "debt" /\ row[r].version < MaxVersion
      /\ row' = [row EXCEPT ![r] = new]
      /\ UNCHANGED <<archived, enrolled, periodOpen, opening, moved, tx>>
  BY DEF TouchDebt, surroundings
<1>2. row[r] \in Row /\ row[r].version \in Nat
  BY RowFields, BalancesAssumption DEF IInv
<1>3. /\ new \in Row /\ new.kind = row[r].kind /\ new.amount = row[r].amount
      /\ new.status = row[r].status /\ new.version = row[r].version + 1
  BY <1>1, <1>2, TouchedRowFields
<1>. HIDE DEF new
<1>4. /\ row'[r] = new /\ \A s \in Rows \ {r} : row'[s] = row[s]
      /\ row' \in [Rows -> Row]
  BY <1>1, <1>3 DEF IInv, TypeOK
<1>5. TypeOK'
  <2>1. {archived, enrolled, periodOpen}' \subseteq BOOLEAN
    BY <1>1 DEF IInv, TypeOK
  <2>2. QED
    BY <1>1, <1>4, <2>1 DEF IInv, TypeOK
<1>6. VacantInv'
  BY <1>1, <1>3, <1>4 DEF IInv, VacantInv
<1>7. RequestInv'
  <2> SUFFICES ASSUME NEW u \in Workers, tx[u] # Idle PROVE RequestOK(tx[u])'
    BY <1>1 DEF RequestInv
  <2>1. RequestOK(tx[u]) /\ tx[u].on \in Rows /\ tx[u].expected \in Nat
    BY InFlight, BalancesAssumption DEF IInv, RequestInv
  <2>2. CASE tx[u].on = r
    BY <1>1, <1>2, <1>3, <1>4, <2>1, <2>2 DEF RequestOK, isFresh
  <2>3. CASE tx[u].on # r
    BY <1>1, <1>4, <2>1, <2>3, OtherRequests
  <2>4. QED
    BY <2>2, <2>3
<1>8. \A s \in Rows : RowOK(s)'
  <2> SUFFICES ASSUME NEW s \in Rows PROVE RowOK(s)'
    OBVIOUS
  <2>1. RowOK(s)
    BY DEF IInv
  <2>2. CASE s = r
    BY <1>1, <1>3, <1>4, <2>1, <2>2 DEF RowOK
  <2>3. CASE s # r
    BY <1>1, <1>4, <2>1, <2>3, OtherRows
  <2>4. QED
    BY <2>2, <2>3
<1>9. QED
  BY <1>5, <1>6, <1>7, <1>8 DEF IInv

\* Nothing of the invariant looks at the surroundings.
LEMMA SurroundingsIInv ==
  ASSUME IInv, {archived, enrolled, periodOpen}' \subseteq BOOLEAN,
         UNCHANGED <<row, opening, moved, tx>>
  PROVE  IInv'
<1>1. TypeOK'
  BY DEF IInv, TypeOK
<1>2. RequestInv'
  BY OtherRequests DEF IInv, RequestInv, TypeOK
<1>3. QED
  BY <1>1, <1>2, OtherRows DEF IInv, VacantInv

\* One case per action: whoever writes a row makes every other request on it stale, or
\* errs in favour of its owner.
LEMMA NextIInv == IInv /\ [Next]_vars => IInv'
<1> SUFFICES ASSUME IInv, [Next]_vars PROVE IInv'
  OBVIOUS
<1>0. {archived, enrolled, periodOpen} \subseteq BOOLEAN
  BY DEF IInv, TypeOK
<1>1. ASSUME NEW r \in Rows, NEW cents \in Amount, NEW kind \in Kind \ {"account"},
             CreateSharedElement(r, kind, cents)
      PROVE  IInv'
  BY <1>1, InsertIInv DEF CreateSharedElement
<1>2. ASSUME NEW r \in Rows, NEW cents \in Amount, NEW foreign \in BOOLEAN,
             CreatePersonalAccount(r, cents, foreign)
      PROVE  IInv'
  BY <1>2, InsertIInv DEF CreatePersonalAccount, Kind
<1>3. ASSUME NEW w \in Workers, NEW r \in Rows, NEW cents \in Amount,
             NEW v \in 0..MaxVersion, Decide(w, r, cents, v)
      PROVE  IInv'
  BY <1>3, DecideIInv
<1>4. ASSUME NEW w \in Workers, CommitVersioned(w) PROVE IInv'
  BY <1>4, CommitVersionedIInv
<1>5. ASSUME NEW w \in Workers, CommitContribution(w) PROVE IInv'
  BY <1>5, CommitContributionIInv
<1>6. ASSUME NEW w \in Workers, Rollback(w) PROVE IInv'
  BY <1>6, RollbackIInv
<1>7. ASSUME NEW r \in Rows, TouchDebt(r) PROVE IInv'
  BY <1>7, TouchDebtIInv
<1>8. CASE OpenPeriod \/ Archive \/ Withdraw
  BY <1>0, <1>8, SurroundingsIInv DEF OpenPeriod, Archive, Withdraw
<1>9. CASE UNCHANGED vars
  BY <1>0, <1>9, SurroundingsIInv DEF vars, surroundings
<1>10. QED
  BY <1>1, <1>2, <1>3, <1>4, <1>5, <1>6, <1>7, <1>8, <1>9 DEF Next

-----------------------------------------------------------------------------
(* The theorems. *)

\* The invariant holds of every behaviour.
LEMMA Inductive == Spec => []IInv
<1>1. Init => IInv
  BY InitIInv
<1>2. QED
  BY <1>1, NextIInv, PTL DEF Spec

\* The rows and the requests have their types, whatever requests overlap.
THEOREM TypeCorrect == Spec => []TypeOK
<1>1. IInv => TypeOK
  BY DEF IInv
<1>2. QED
  BY <1>1, Inductive, PTL

\* Goals, debts and budgets show exactly the requests that were accepted,
\* although a request reads and writes its row in two steps: updateWithOptimisticLock
\* refuses every request whose amount is out of date.
THEOREM AmountsAreExactHolds == Spec => []AmountsAreExact
<1>1. IInv => AmountsAreExact
  BY RowFields DEF IInv, RowOK, AmountsAreExact, dueAmount, Kind
<1>2. QED
  BY <1>1, Inductive, PTL

\* A goal is never shown ACHIEVED short of its target, nor ACTIVE beyond it.
THEOREM AchievedIsFundedHolds == Spec => []AchievedIsFunded
<1>1. IInv => AchievedIsFunded
  BY DEF IInv, RowOK, AchievedIsFunded
<1>2. QED
  BY <1>1, Inductive, PTL

\* An account, which setBalance writes without a version, never falls by more
\* than the contributions recorded from it, however many overlap.
THEOREM NoMoneyIsLostHolds == Spec => []NoMoneyIsLost
<1>1. IInv => NoMoneyIsLost
  BY DEF IInv, RowOK, NoMoneyIsLost, dueAmount
<1>2. QED
  BY <1>1, Inductive, PTL

-----------------------------------------------------------------------------
(* What a lock on the account row would restore.                             *)

\* No two requests on one account are in flight at the same time.
AccountsTakeTurns ==
  \A v, w \in Workers :
    /\ tx[v] # Idle /\ tx[w] # Idle
    /\ tx[v].on = tx[w].on /\ row[tx[v].on].kind = "account"
    => v = w

\* The request writes what its account holds, less what it moves.
isExact(t) ==
  row[t.on].kind = "account" => t.amount = opening[t.on] - moved[t.on] - t.cents

isSettled(r) == row[r].kind = "account" => row[r].amount = opening[r] - moved[r]

ExactInv == /\ \A w \in Workers : tx[w] # Idle => isExact(tx[w])
            /\ \A r \in Rows : isSettled(r)

\* A row that is not written keeps its requests exact, and is still settled.
LEMMA ExactElsewhere ==
  ASSUME ExactInv, NEW r \in Rows,
         row'[r] = row[r], opening'[r] = opening[r], moved'[r] = moved[r]
  PROVE  /\ isSettled(r)'
         /\ \A w \in Workers : tx[w] # Idle /\ tx'[w] = tx[w] /\ tx[w].on = r =>
              isExact(tx[w])'
BY DEF ExactInv, isSettled, isExact

\* Nothing is written, and no request is new.
LEMMA ExactIdle ==
  ASSUME IInv, ExactInv, UNCHANGED <<row, opening, moved>>,
         \A w \in Workers : tx'[w] \in {Idle, tx[w]}
  PROVE  ExactInv'
<1>1. \A w \in Workers : tx'[w] # Idle => tx[w] # Idle /\ tx'[w] = tx[w] /\ tx[w].on \in Rows
  BY InFlight DEF IInv
<1>2. QED
  BY <1>1, ExactElsewhere DEF ExactInv

\* One row is written; it stays settled, and so do the requests on it.
LEMMA ExactAt ==
  ASSUME IInv, ExactInv, NEW r \in Rows,
         \A s \in Rows \ {r} : row'[s] = row[s] /\ opening'[s] = opening[s]
                               /\ moved'[s] = moved[s],
         \A w \in Workers : tx'[w] \in {Idle, tx[w]},
         isSettled(r)',
         \A w \in Workers : tx'[w] # Idle /\ tx[w].on = r => isExact(tx[w])'
  PROVE  ExactInv'
<1>1. \A w \in Workers : tx'[w] # Idle => tx[w] # Idle /\ tx'[w] = tx[w] /\ tx[w].on \in Rows
  BY InFlight DEF IInv
<1>2. \A s \in Rows : isSettled(s)'
  BY ExactElsewhere
<1>3. ASSUME NEW w \in Workers, tx'[w] # Idle PROVE isExact(tx[w])' /\ tx'[w] = tx[w]
  <2>1. CASE tx[w].on = r
    BY <1>1, <1>3, <2>1
  <2>2. CASE tx[w].on # r
    BY <1>1, <1>3, <2>2, ExactElsewhere
  <2>3. QED
    BY <2>1, <2>2
<1>4. QED
  BY <1>2, <1>3 DEF ExactInv, isExact

\* A row that is new: nobody has a request on it, and nothing moved yet.
LEMMA InsertExact ==
  ASSUME IInv, ExactInv, NEW r \in Rows, NEW kind \in Kind, NEW cents \in Amount,
         NEW foreign \in BOOLEAN, insert(r, kind, cents, foreign)
  PROVE  ExactInv'
<1>1. PICK new : /\ new = newRow(kind, cents, foreign)
                 /\ new.kind = kind /\ new.amount = cents
  BY NewRowFields
<1>2. /\ row[r] = NoRow /\ moved[r] = 0
      /\ row' = [row EXCEPT ![r] = new] /\ opening' = [opening EXCEPT ![r] = cents]
      /\ UNCHANGED <<moved, tx>>
  BY <1>1, NoRowFields DEF insert, newRow, IInv, RowOK
<1>3. /\ row'[r] = new /\ opening'[r] = cents /\ moved'[r] = moved[r]
      /\ \A s \in Rows \ {r} : row'[s] = row[s] /\ opening'[s] = opening[s]
                               /\ moved'[s] = moved[s]
  BY <1>2 DEF IInv, TypeOK
<1>4. isSettled(r)'
  <2>1. cents = cents - 0
    BY DEF Amount
  <2>2. QED
    BY <1>1, <1>2, <1>3, <2>1 DEF isSettled
<1>5. ASSUME NEW w \in Workers, tx[w] # Idle PROVE tx[w].on # r
  BY <1>2, <1>5, NoRowFields DEF IInv, RequestInv, RequestOK
<1>6. QED
  BY <1>2, <1>3, <1>4, <1>5, ExactAt

\* The amount of a request that is admitted comes from a settled row.
LEMMA DecideExact ==
  ASSUME IInv, ExactInv, NEW w \in Workers, NEW r \in Rows, NEW cents \in Amount,
         NEW v \in 0..MaxVersion, Decide(w, r, cents, v)
  PROVE  ExactInv'
<1>1. PICK amount : amount = newAmount(row[r].kind, row[r].amount, cents)
  OBVIOUS
<1>2. PICK t : t = [at |-> "decided", on |-> r, cents |-> cents, expected |-> v,
                    amount |-> amount, status |-> goalStatus(row[r].kind, amount)]
  OBVIOUS
<1>3. t.on = r /\ t.cents = cents /\ t.amount = amount
  BY <1>2
<1>4. /\ tx' = [tx EXCEPT ![w] = t] /\ UNCHANGED <<row, opening, moved>>
  BY <1>1, <1>2 DEF Decide
<1>5. /\ tx'[w] = t /\ \A u \in Workers \ {w} : tx'[u] = tx[u]
  BY <1>4 DEF IInv, TypeOK
<1>6. isExact(t)
  <2>1. CASE row[r].kind = "account"
    <3>1. row[r].amount = opening[r] - moved[r]
      BY <2>1 DEF ExactInv, isSettled
    <3>2. amount = row[r].amount - cents
      BY <1>1, <2>1 DEF newAmount
    <3>3. QED
      BY <1>3, <3>1, <3>2 DEF isExact
  <2>2. QED
    BY <1>3, <2>1 DEF isExact
<1>7. QED
  BY <1>4, <1>5, <1>6 DEF ExactInv, isExact, isSettled

\* A versioned row is no account.
LEMMA CommitVersionedExact ==
  ASSUME IInv, ExactInv, NEW w \in Workers, CommitVersioned(w)
  PROVE  ExactInv'
<1>1. PICK t, r : t = tx[w] /\ r = t.on
  OBVIOUS
<1>2. PICK new : new = [row[r] EXCEPT !.amount = t.amount, !.status = t.status,
                                      !.version = row[r].version + 1]
  OBVIOUS
<1>3. /\ t # Idle /\ row[r].kind # "account"
      /\ row' = [row EXCEPT ![r] = new] /\ opening' = opening
      /\ moved' = [moved EXCEPT ![r] = IF row[r].kind = "investment" THEN @ ELSE @ + t.cents]
      /\ tx' = [tx EXCEPT ![w] = Idle]
  BY <1>1, <1>2 DEF CommitVersioned, versionedUpdate
<1>4. r \in Rows
  BY <1>1, <1>3, InFlight DEF IInv
<1>5. /\ row'[r] = new
      /\ \A s \in Rows \ {r} : row'[s] = row[s] /\ opening'[s] = opening[s]
                               /\ moved'[s] = moved[s]
      /\ \A u \in Workers : tx'[u] \in {Idle, tx[u]}
  BY <1>3, <1>4 DEF IInv, TypeOK
<1>6. new.kind # "account"
  <2>1. row[r] \in Row
    BY <1>4 DEF IInv, TypeOK
  <2>2. new.kind = row[r].kind
    BY <1>2, <2>1 DEF Row
  <2>3. QED
    BY <1>3, <2>2
<1>7. isSettled(r)' /\ \A u \in Workers : tx'[u] # Idle /\ tx[u].on = r => isExact(tx[u])'
  BY <1>5, <1>6 DEF isSettled, isExact
<1>8. QED
  BY <1>4, <1>5, <1>7, ExactAt

\* The account is left with what the request computed; nobody else was computing.
LEMMA CommitContributionExact ==
  ASSUME IInv, ExactInv, AccountsTakeTurns, NEW w \in Workers, CommitContribution(w)
  PROVE  ExactInv'
<1>1. PICK t, r : t = tx[w] /\ r = t.on
  OBVIOUS
<1>2. PICK new : new = [row[r] EXCEPT !.amount = t.amount]
  OBVIOUS
<1>3. /\ t # Idle /\ row[r].kind = "account"
      /\ row' = [row EXCEPT ![r] = new] /\ opening' = opening
      /\ moved' = [moved EXCEPT ![r] = @ + t.cents]
      /\ tx' = [tx EXCEPT ![w] = Idle]
  BY <1>1, <1>2 DEF CommitContribution
<1>4. r \in Rows /\ t.cents \in Amount /\ t.amount \in Amount
  BY <1>1, <1>3, InFlight DEF IInv
<1>5. /\ row'[r] = new /\ moved'[r] = moved[r] + t.cents /\ tx'[w] = Idle
      /\ \A s \in Rows \ {r} : row'[s] = row[s] /\ opening'[s] = opening[s]
                               /\ moved'[s] = moved[s]
      /\ \A u \in Workers : tx'[u] \in {Idle, tx[u]}
  BY <1>3, <1>4 DEF IInv, TypeOK
<1>6. new.amount = t.amount
  <2>1. row[r] \in Row
    BY <1>4 DEF IInv, TypeOK
  <2>2. QED
    BY <1>2, <1>4, <2>1, DebitedRowFields
<1>7. isSettled(r)'
  <2>1. t.amount = opening[r] - moved[r] - t.cents
    BY <1>1, <1>3 DEF ExactInv, isExact
  <2>2. opening[r] \in Amount /\ moved[r] \in Nat
    BY <1>4, RowFields DEF IInv
  <2>3. t.amount = opening[r] - (moved[r] + t.cents)
    BY <1>4, <2>1, <2>2 DEF Amount
  <2>4. QED
    BY <1>3, <1>5, <1>6, <2>3 DEF isSettled
<1>8. ASSUME NEW u \in Workers, tx'[u] # Idle, tx[u].on = r PROVE FALSE
  <2>1. u # w /\ tx[u] # Idle
    BY <1>5, <1>8
  <2>2. QED
    BY <1>1, <1>3, <1>8, <2>1 DEF AccountsTakeTurns
<1>9. QED
  BY <1>4, <1>5, <1>7, <1>8, ExactAt

\* The version of a debt is nothing to an account.
LEMMA TouchDebtExact ==
  ASSUME IInv, ExactInv, NEW r \in Rows, TouchDebt(r)
  PROVE  ExactInv'
<1>1. PICK new : new = [row[r] EXCEPT !.version = row[r].version + 1]
  OBVIOUS
<1>2. /\ row[r].kind = "debt" /\ row' = [row EXCEPT ![r] = new]
      /\ UNCHANGED <<opening, moved, tx>>
  BY <1>1 DEF TouchDebt
<1>3. row'[r] = new /\ \A s \in Rows \ {r} : row'[s] = row[s]
  BY <1>2 DEF IInv, TypeOK
<1>4. new.kind = "debt"
  <2>1. row[r] \in Row
    BY DEF IInv, TypeOK
  <2>2. QED
    BY <1>1, <1>2, <2>1 DEF Row
<1>5. isSettled(r)' /\ \A u \in Workers : tx'[u] # Idle /\ tx[u].on = r => isExact(tx[u])'
  BY <1>2, <1>3, <1>4 DEF isSettled, isExact
<1>6. QED
  BY <1>2, <1>3, <1>5, ExactAt

\* One case per action.
LEMMA NextExact == IInv /\ ExactInv /\ AccountsTakeTurns /\ [Next]_vars => ExactInv'
<1> SUFFICES ASSUME IInv, ExactInv, AccountsTakeTurns, [Next]_vars PROVE ExactInv'
  OBVIOUS
<1>1. ASSUME NEW r \in Rows, NEW cents \in Amount, NEW kind \in Kind \ {"account"},
             CreateSharedElement(r, kind, cents)
      PROVE  ExactInv'
  BY <1>1, InsertExact DEF CreateSharedElement
<1>2. ASSUME NEW r \in Rows, NEW cents \in Amount, NEW foreign \in BOOLEAN,
             CreatePersonalAccount(r, cents, foreign)
      PROVE  ExactInv'
  BY <1>2, InsertExact DEF CreatePersonalAccount, Kind
<1>3. ASSUME NEW w \in Workers, NEW r \in Rows, NEW cents \in Amount,
             NEW v \in 0..MaxVersion, Decide(w, r, cents, v)
      PROVE  ExactInv'
  BY <1>3, DecideExact
<1>4. ASSUME NEW w \in Workers, CommitVersioned(w) PROVE ExactInv'
  BY <1>4, CommitVersionedExact
<1>5. ASSUME NEW w \in Workers, CommitContribution(w) PROVE ExactInv'
  BY <1>5, CommitContributionExact
<1>6. ASSUME NEW w \in Workers, Rollback(w) PROVE ExactInv'
  <2>1. \A u \in Workers : tx'[u] \in {Idle, tx[u]}
    BY <1>6 DEF Rollback, IInv, TypeOK
  <2>2. QED
    BY <1>6, <2>1, ExactIdle DEF Rollback
<1>7. ASSUME NEW r \in Rows, TouchDebt(r) PROVE ExactInv'
  BY <1>7, TouchDebtExact
<1>8. CASE OpenPeriod \/ Archive \/ Withdraw
  BY <1>8, ExactIdle DEF OpenPeriod, Archive, Withdraw
<1>9. CASE UNCHANGED vars
  BY <1>9, ExactIdle DEF vars
<1>10. QED
  BY <1>1, <1>2, <1>3, <1>4, <1>5, <1>6, <1>7, <1>8, <1>9 DEF Next

\* An account falls by exactly what is recorded from it, if the requests on it take
\* turns: the missing lock on its row is the whole reason why it may not, whatever
\* overlaps on other rows.
THEOREM DebitsMatchInTurns == Spec /\ []AccountsTakeTurns => []DebitsMatchRecords
<1>1. Init => ExactInv
  BY NoRowFields DEF Init, ExactInv, isExact, isSettled
<1>2. ExactInv => DebitsMatchRecords
  BY DEF ExactInv, isSettled, DebitsMatchRecords, dueAmount
<1>3. QED
  BY <1>1, <1>2, NextExact, Inductive, PTL DEF Spec

=============================================================================
