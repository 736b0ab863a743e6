------------------------------- MODULE Retries -------------------------------
(***************************************************************************)
(* A mutation from the client's request to its answer: the service writes  *)
(* in one transaction, the resolver reads the result back in another, and  *)
(* whatever is thrown becomes an error code.  A client repeats an          *)
(* identical request when the catalog calls the code retryable, so that    *)
(* what was committed before a failure meets its own repetition.           *)
(*                                                                         *)
(* Of what a mutation writes only this is kept: the version of the row, if *)
(* the request names one, or whether the transition it asks for has been   *)
(* taken.  All clients who send a mutation send it about one row.  A       *)
(* member who took the ownership over may be nominated again, and then     *)
(* the transition is open once more.                                       *)
(***************************************************************************)
EXTENDS Naturals, TLC

CONSTANTS
  Clients,    \* each makes one request, and its retries
  Mutations,  \* what they ask for: names of mutations below
  Refetches,  \* after CONFLICT they retry with the fresh version
  MaxTries, MaxOffers  \* model bounds

VARIABLES
  row,      \* per mutation, the row it writes; offers: how often it could be taken
  client,   \* where each client's request is
  applied   \* how often each client's request was committed

retriesVars == <<row, client, applied>>

(* What stops a repetition: the version the request carries, the state that *)
(* the transition starts from, the unique index, or nothing.                *)

profileMutation ==
  [createSharedProfile |-> "creation", inviteMember |-> "transition",
   acceptInvitation |-> "transition", declineInvitation |-> "transition",
   changeMemberRole |-> "versioned", leaveProfile |-> "transition",
   nominateOwner |-> "assignment", acceptOwnership |-> "transition",
   archiveProfile |-> "transition"]

elementMutation ==
  [createSharedGoal |-> "creation", fundGoal |-> "versioned",
   createSharedDebt |-> "creation", paySharedDebt |-> "versioned",
   setDebtResponsibility |-> "versioned", createSharedInvestment |-> "creation",
   updateInvestmentValue |-> "versioned", createSharedBudget |-> "creation",
   recordBudgetSpend |-> "versioned"]

contributionMutation ==
  [setDeclaredIncome |-> "assignment", setAllocation |-> "assignment",
   recordContribution |-> "creation", redistribute |-> "creation"]

accountMutation == [createPersonalAccount |-> "creation", contributeFromAccount |-> "creation"]

\* The query me, which creates the personal profile when it is first asked for.
meQuery == [me |-> "findOrCreate"]

mutation == profileMutation @@ elementMutation @@ contributionMutation @@ accountMutation @@ meQuery

\* Of the transitions, the one that others may open again.
renewable == {m \in Mutations : mutation[m] = "transition"} \cap {"acceptOwnership"}

kind(c) == mutation[client[c].op]

\* The row the service returned is the answer; me has one transaction.
readsBack(c) == client[c].op \notin DOMAIN accountMutation \cup DOMAIN meQuery

\* The catalog: "whether an identical retry can succeed".
retryable ==
  [CONFLICT |-> TRUE, FORBIDDEN |-> FALSE, NOT_FOUND |-> FALSE, VALIDATION |-> FALSE,
   INVARIANT |-> FALSE, CURRENCY_MISMATCH |-> FALSE, OVERPAYMENT |-> FALSE,
   CAP_EXCEEDED |-> FALSE, ARCHIVED |-> FALSE, UNAUTHENTICATED |-> FALSE,
   RATE_LIMITED |-> TRUE, BAD_USER_INPUT |-> FALSE, INTERNAL_SERVER_ERROR |-> TRUE]

Code == DOMAIN retryable

ASSUME RetriesAssumption ==
  /\ Mutations \subseteq DOMAIN mutation
  /\ Mutations # {}
  /\ Refetches \in BOOLEAN
  /\ {MaxTries, MaxOffers} \subseteq Nat \ {0}

Client == [at : {"idle", "sent", "decided", "committed", "answered"}, op : Mutations,
           expected : Nat, tries : 0..MaxTries, answer : {"none", "ok"} \cup Code]

RetriesTypeOK ==
  /\ row \in [Mutations -> [version : Nat, taken : BOOLEAN, offers : Nat]]
  /\ client \in [Clients -> Client]
  /\ applied \in [Clients -> 0..MaxTries]

RetriesInit ==
  /\ row = [m \in Mutations |-> [version |-> 0, taken |-> FALSE, offers |-> 1]]
  /\ client = [c \in Clients |-> [at |-> "idle", op |-> CHOOSE m \in Mutations : TRUE,
                                  expected |-> 0, tries |-> 0, answer |-> "none"]]
  /\ applied = [c \in Clients |-> 0]

-----------------------------------------------------------------------------
\* The version is the one the client was shown.
Ask(c, m) ==
  /\ client[c].at = "idle"
  /\ client' = [client EXCEPT ![c].at = "sent", ![c].op = m, ![c].tries = 1,
                              ![c].expected = row[m].version]
  /\ UNCHANGED <<row, applied>>

answerTo(c, answer) == client' = [client EXCEPT ![c].at = "answered", ![c].answer = answer]

\* Faulty: the client's version is not compared.
isFreshAlways(c) == TRUE

isFresh(c) == client[c].expected = row[client[c].op].version

\* No principal, too many requests, or the service's guards: an error Result,
\* nothing is written.
Refuse(c, code) ==
  /\ client[c].at = "sent"
  /\ code \notin {"CONFLICT", "INTERNAL_SERVER_ERROR"}
  /\ answerTo(c, code)
  /\ UNCHANGED <<row, applied>>

\* The rows are read, and the transition is legal or not yet made; a profile
\* that is found is the answer.
DecideMutation(c) ==
  LET taken == row[client[c].op].taken
  IN  /\ client[c].at = "sent"
      /\ CASE kind(c) = "transition" /\ taken -> answerTo(c, "INVARIANT")
           [] kind(c) = "findOrCreate" /\ taken -> answerTo(c, "ok")
           [] OTHER -> client' = [client EXCEPT ![c].at = "decided"]
      /\ UNCHANGED <<row, applied>>

commitWrite(c) ==
  /\ row' = [row EXCEPT ![client[c].op].version = @ + 1, ![client[c].op].taken = TRUE]
  /\ applied' = [applied EXCEPT ![c] = @ + 1]
  /\ IF readsBack(c) THEN client' = [client EXCEPT ![c].at = "committed"]
     ELSE answerTo(c, "ok")

\* A versioned update that finds another version affects no row.
CommitMutation(c) ==
  /\ client[c].at = "decided"
  /\ CASE kind(c) = "versioned" /\ ~isFresh(c) ->
            answerTo(c, "CONFLICT") /\ UNCHANGED <<row, applied>>
       [] kind(c) = "findOrCreate" /\ row[client[c].op].taken ->
            answerTo(c, "INTERNAL_SERVER_ERROR") /\ UNCHANGED <<row, applied>>
       [] OTHER -> commitWrite(c)

\* The result is assembled in a transaction of its own.
ReadBack(c) ==
  /\ client[c].at = "committed"
  /\ answerTo(c, "ok")
  /\ UNCHANGED <<row, applied>>

\* Something throws, before the commit (which rolls back) or after it: the
\* events, the cache, the second transaction.  The client cannot tell.
Throw(c) ==
  /\ client[c].at \in {"sent", "decided", "committed"}
  /\ answerTo(c, "INTERNAL_SERVER_ERROR")
  /\ UNCHANGED <<row, applied>>

Retry(c) ==
  /\ client[c].at = "answered"
  /\ client[c].answer \in Code /\ retryable[client[c].answer]
  /\ client[c].tries < MaxTries
  /\ client' = [client EXCEPT
       ![c].at = "sent", ![c].tries = @ + 1, ![c].answer = "none",
       ![c].expected = IF Refetches /\ client[c].answer = "CONFLICT"
                       THEN row[client[c].op].version ELSE @]
  /\ UNCHANGED <<row, applied>>

\* Who took the ownership over has passed it on and is nominated anew.
OfferAgain(m) ==
  /\ m \in renewable /\ row[m].taken /\ row[m].offers < MaxOffers
  /\ row' = [row EXCEPT ![m].taken = FALSE, ![m].offers = @ + 1]
  /\ UNCHANGED <<client, applied>>

RetriesNext ==
  \/ \E c \in Clients :
       \/ \E m \in Mutations : Ask(c, m)
       \/ \E code \in Code : Refuse(c, code)
       \/ DecideMutation(c) \/ CommitMutation(c) \/ ReadBack(c) \/ Throw(c) \/ Retry(c)
  \/ \E m \in Mutations : OfferAgain(m)

RetriesSpec == RetriesInit /\ [][RetriesNext]_retriesVars

-----------------------------------------------------------------------------
(* Properties. *)

isGuarded(c) == kind(c) \in {"versioned", "transition", "findOrCreate"}

creatorsOf(m) == {c \in Clients : applied[c] > 0 /\ client[c].op = m}

\* A client that repeats its request for as long as the answers are retryable
\* has it committed at most once, and once if the answer is a success, when
\* the request carries a version or asks for a transition, except that a late
\* repetition of acceptOwnership takes each later nomination once; a user gets one
\* personal profile, whoever asks first.
AppliedAtMostOnce ==
  /\ \A c \in Clients : client[c].at # "idle" /\ isGuarded(c) =>
       /\ applied[c] <= IF client[c].op \in renewable THEN row[client[c].op].offers ELSE 1
       /\ client[c].answer = "ok" /\ kind(c) # "findOrCreate" => applied[c] > 0
  /\ \A m \in Mutations : mutation[m] = "findOrCreate" =>
       \A c, d \in creatorsOf(m) : c = d

\* "Retry with backoff" (catalog.ts:136): a creation is repeated too.
RetriesAreSafe == \A c \in Clients : applied[c] <= 1

\* "Whether an identical retry can succeed without the client changing
\* anything" (catalog.ts:32), TRUE of CONFLICT: the version would have to be
\* the client's again.
ConflictMayPass ==
  \A c \in Clients : client[c].answer = "CONFLICT" => client[c].expected >= row[client[c].op].version

=============================================================================
