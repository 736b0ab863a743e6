--------------------------- MODULE InterfaceProofs ---------------------------
(***************************************************************************)
(* Proofs about the API's edge: repeated mutations (Retries),              *)
(* subscriptions (PubSub), the rate limit of coaching (Coaching) and       *)
(* cursors (Paging).  They share nothing.                                  *)
(*                                                                         *)
(* Retries, for any clients, any of the mutations, and any number of       *)
(* tries.  What stops a repetition differs from mutation to mutation, and  *)
(* each is an invariant of its own.  A version that was used is behind the *)
(* row for ever, since versions only grow and a client that does not fetch *)
(* it again keeps the old one.  A transition that was committed shows in   *)
(* the row until it is offered again, and a client that decided to take it *)
(* has taken it less often than it was offered.  Of two clients who create *)
(* one row the second finds it in the unique index.                        *)
(*                                                                         *)
(* PubSub, for any topics, subscribers and values.  An iterator keeps what *)
(* it is owed in three places: what next() already returned, the promise   *)
(* that was settled and whose caller has not run yet, and the queue.  Read *)
(* in that order they are a piece of the topic's log without a gap, which  *)
(* ends where the log ends while the subscriber listens.  The order is     *)
(* kept because a waiting next() has nothing before it: then nothing is    *)
(* settled and nothing is queued.                                          *)
(*                                                                         *)
(* Coaching, for any requests, limit and length of a window.  Requests     *)
(* that are admitted are counted with different numbers, because a key     *)
(* outlives its window by a tick, and nobody waits for an answer longer    *)
(* than that: whoever is counted by a second key of the same window has    *)
(* failed open before.                                                     *)
(*                                                                         *)
(* Paging, for any rows and page sizes.  What stands up to the cursor was  *)
(* seen, unless it is new; inserting and paging keep this, since both      *)
(* leave the order of the others alone.                                    *)
(***************************************************************************)
EXTENDS Retries, PubSub, Coaching, Paging,
        FunctionTheorems, FiniteSetTheorems, SequenceTheorems, TLAPS

-----------------------------------------------------------------------------
(* Repeated mutations. *)

Row == [version : Nat, taken : BOOLEAN, offers : Nat]

RetriesShapeInv ==
  /\ row \in [Mutations -> Row]
  /\ client \in [Clients -> Client]
  /\ applied \in [Clients -> Nat]
  /\ \A m \in Mutations : row[m].offers > 0 /\ (m \notin renewable => row[m].offers = 1)

\* A name that keeps the field out of the provers' sight.
isTaken(r) == r.taken

\* Of a client cl, whose request was committed n times: one commit a try.
countsItsTries(cl, n) ==
  /\ n <= cl.tries
  /\ cl.at = "idle" => n = 0 /\ cl.answer = "none"
  /\ cl.at \in {"sent", "decided"} => n < cl.tries /\ cl.answer = "none"
  /\ cl.at = "committed" => n > 0 /\ cl.answer = "none"
  /\ cl.answer = "ok" /\ mutation[cl.op] # "findOrCreate" => n > 0

\* r is the row that the request is about.
isStoppedBy(r, cl, n) ==
  /\ mutation[cl.op] = "versioned" /\ ~Refetches =>
       n <= 1 /\ cl.expected <= r.version /\ (n > 0 => cl.expected < r.version)
  /\ mutation[cl.op] = "transition" =>
       n <= r.offers /\ (~isTaken(r) \/ cl.at = "decided" => n < r.offers)
  /\ mutation[cl.op] = "findOrCreate" => n <= 1 /\ (n > 0 => isTaken(r))

CountInv == \A c \in Clients : countsItsTries(client[c], applied[c])

GuardInv ==
  \A c \in Clients : client[c].at # "idle" =>
    isStoppedBy(row[client[c].op], client[c], applied[c])

CreatorInv ==
  \A c, d \in Clients :
    /\ applied[c] > 0 /\ applied[d] > 0
    /\ client[c].op = client[d].op /\ mutation[client[c].op] = "findOrCreate"
    => c = d

RetriesInv == RetriesShapeInv /\ CountInv /\ GuardInv /\ CreatorInv

-----------------------------------------------------------------------------
(* A step of one client. *)

\* The fields of a client.
LEMMA ClientFields ==
  ASSUME NEW cl \in Client
  PROVE  /\ cl.at \in {"idle", "sent", "decided", "committed", "answered"}
         /\ cl.op \in Mutations /\ cl.expected \in Nat /\ cl.tries \in 0..MaxTries
         /\ cl.answer \in {"none", "ok"} \cup Code
BY DEF Client

\* The type follows, since no client is committed more often than it tried.
LEMMA TypeFollows == RetriesInv => RetriesTypeOK
<1> SUFFICES ASSUME RetriesInv PROVE RetriesTypeOK
  OBVIOUS
<1>1. ASSUME NEW c \in Clients PROVE applied[c] \in 0..MaxTries
  <2>1. client[c] \in Client /\ applied[c] \in Nat /\ applied[c] <= client[c].tries
    BY DEF RetriesInv, RetriesShapeInv, CountInv, countsItsTries
  <2>2. client[c].tries \in 0..MaxTries
    BY <2>1, ClientFields
  <2>3. QED
    BY <2>1, <2>2, RetriesAssumption
<1>2. QED
  BY <1>1 DEF RetriesInv, RetriesShapeInv, RetriesTypeOK, Row

\* A step of one client that writes no row keeps the invariant if it keeps that
\* client's part of it, its request and its count.
LEMMA QuietStep ==
  ASSUME RetriesInv, NEW c \in Clients, NEW cl \in Client,
         client' = [client EXCEPT ![c] = cl], UNCHANGED <<row, applied>>,
         cl.op = client[c].op \/ applied[c] = 0,
         countsItsTries(cl, applied[c]),
         cl.at # "idle" => isStoppedBy(row[cl.op], cl, applied[c])
  PROVE  RetriesInv'
<1>1. RetriesShapeInv'
  BY DEF RetriesInv, RetriesShapeInv
<1>2. \A d \in Clients : client'[d] = IF d = c THEN cl ELSE client[d]
  BY DEF RetriesInv, RetriesShapeInv
<1>3. CountInv'
  BY <1>2 DEF RetriesInv, CountInv
<1>4. GuardInv'
  BY <1>2 DEF RetriesInv, GuardInv
<1>5. CreatorInv'
  BY <1>2 DEF RetriesInv, RetriesShapeInv, CreatorInv
<1>6. QED
  BY <1>1, <1>3, <1>4, <1>5 DEF RetriesInv

-----------------------------------------------------------------------------
(* The steps. *)

\* Nothing is asked for, so nothing is committed.
LEMMA InitRetriesInv == RetriesInit => RetriesInv
<1> SUFFICES ASSUME RetriesInit PROVE RetriesInv
  OBVIOUS
<1>1. PICK m : m \in Mutations
  BY RetriesAssumption
<1>2. (CHOOSE x \in Mutations : TRUE) \in Mutations
  BY <1>1
<1>3. PICK o \in Mutations : o = CHOOSE x \in Mutations : TRUE
  BY <1>2
<1>4. client = [c \in Clients |-> [at |-> "idle", op |-> o, expected |-> 0, tries |-> 0,
                                   answer |-> "none"]]
  BY <1>3, Zenon DEF RetriesInit
<1>5. RetriesShapeInv
  <2>1. row = [m2 \in Mutations |-> [version |-> 0, taken |-> FALSE, offers |-> 1]]
    BY DEF RetriesInit
  <2>2. row \in [Mutations -> Row]
    BY <2>1, Zenon DEF Row
  <2>3. QED
    BY <1>4, <2>1, <2>2, RetriesAssumption DEF RetriesInit, RetriesShapeInv, Client
<1>6. CountInv /\ GuardInv /\ CreatorInv
  BY <1>4 DEF RetriesInit, CountInv, countsItsTries, GuardInv, CreatorInv
<1>7. QED
  BY <1>5, <1>6 DEF RetriesInv

\* A client is in the shape, and its part of the invariant holds.
LEMMA OfClient ==
  ASSUME RetriesInv, NEW c \in Clients
  PROVE  /\ client[c] \in Client /\ applied[c] \in Nat /\ row[client[c].op] \in Row
         /\ row[client[c].op].version \in Nat
         /\ row[client[c].op].offers \in Nat /\ row[client[c].op].offers > 0
         /\ countsItsTries(client[c], applied[c])
         /\ client[c].at # "idle" => isStoppedBy(row[client[c].op], client[c], applied[c])
<1>1. client[c] \in Client /\ applied[c] \in Nat
  BY DEF RetriesInv, RetriesShapeInv
<1>2. row[client[c].op] \in Row
  BY <1>1, ClientFields DEF RetriesInv, RetriesShapeInv
<1>3. /\ row[client[c].op].version \in Nat
      /\ row[client[c].op].offers \in Nat /\ row[client[c].op].offers > 0
  BY <1>1, <1>2, ClientFields DEF Row, RetriesInv, RetriesShapeInv
<1>4. QED
  BY <1>1, <1>2, <1>3 DEF RetriesInv, CountInv, GuardInv

\* The version is the one the client was shown, and nothing is committed yet.
LEMMA AskStep ==
  ASSUME RetriesInv, NEW c \in Clients, NEW m \in Mutations, Ask(c, m)
  PROVE  RetriesInv'
<1> DEFINE cl == [client[c] EXCEPT !.at = "sent", !.op = m, !.tries = 1,
                                   !.expected = row[m].version]
<1>1. /\ client[c] \in Client /\ row[m] \in Row /\ row[m].version \in Nat
      /\ row[m].offers \in Nat /\ row[m].offers > 0
  BY OfClient DEF RetriesInv, RetriesShapeInv, Row
<1>2. /\ cl.at = "sent" /\ cl.op = m /\ cl.tries = 1
      /\ cl.expected = row[m].version /\ cl.answer = client[c].answer
      /\ cl \in Client
  <2>1. 1 \in 0..MaxTries
    BY RetriesAssumption
  <2>2. QED
    BY <1>1, <2>1, Zenon DEF Client
<1>3. client' = [client EXCEPT ![c] = cl]
  BY <1>1 DEF Ask, RetriesInv, RetriesShapeInv
<1>4. applied[c] = 0 /\ client[c].answer = "none"
  BY OfClient DEF Ask, countsItsTries
<1>5. countsItsTries(cl, applied[c]) /\ isStoppedBy(row[cl.op], cl, applied[c])
  BY <1>1, <1>2, <1>4 DEF countsItsTries, isStoppedBy
<1>6. QED
  BY <1>2, <1>3, <1>4, <1>5, QuietStep DEF Ask

\* An error is an answer whatever was committed before it.
LEMMA AnsweredStep ==
  ASSUME RetriesInv, NEW c \in Clients, client[c].at # "idle", NEW answer \in Code \cup {"ok"},
         answerTo(c, answer), UNCHANGED <<row, applied>>,
         answer = "ok" =>
           mutation[client[c].op] = "findOrCreate" \/ client[c].at = "committed",
         answer # "none"
  PROVE  RetriesInv'
<1> DEFINE cl == [client[c] EXCEPT !.at = "answered", !.answer = answer]
<1>1. client[c] \in Client
  BY OfClient
<1>2. /\ cl \in Client /\ cl.at = "answered" /\ cl.op = client[c].op
      /\ cl.tries = client[c].tries /\ cl.expected = client[c].expected
      /\ cl.answer = answer
  BY <1>1 DEF Client
<1>3. client' = [client EXCEPT ![c] = cl]
  BY <1>1 DEF answerTo, RetriesInv, RetriesShapeInv
<1>4. countsItsTries(cl, applied[c])
  BY <1>1, <1>2, OfClient, ClientFields DEF countsItsTries
<1>5. isStoppedBy(row[cl.op], cl, applied[c])
  BY <1>1, <1>2, OfClient DEF isStoppedBy
<1>6. QED
  BY <1>2, <1>3, <1>4, <1>5, QuietStep

\* The transition is decided on a row that shows it was not taken.
LEMMA DecideStep ==
  ASSUME RetriesInv, NEW c \in Clients, client[c].at = "sent",
         client' = [client EXCEPT ![c].at = "decided"], UNCHANGED <<row, applied>>,
         mutation[client[c].op] = "transition" => ~isTaken(row[client[c].op])
  PROVE  RetriesInv'
<1> DEFINE cl == [client[c] EXCEPT !.at = "decided"]
<1>1. client[c] \in Client
  BY OfClient
<1>2. /\ cl \in Client /\ cl.at = "decided" /\ cl.op = client[c].op
      /\ cl.tries = client[c].tries /\ cl.expected = client[c].expected
      /\ cl.answer = client[c].answer
  BY <1>1 DEF Client
<1>3. client' = [client EXCEPT ![c] = cl]
  BY <1>1 DEF RetriesInv, RetriesShapeInv
<1>4. countsItsTries(cl, applied[c])
  BY <1>1, <1>2, OfClient DEF countsItsTries
<1>5. isStoppedBy(row[cl.op], cl, applied[c])
  BY <1>1, <1>2, OfClient DEF isStoppedBy
<1>6. QED
  BY <1>2, <1>3, <1>4, <1>5, QuietStep

\* A commit counts for its client only, and moves the row past every version that
\* was used and every transition that was taken.
LEMMA CommittedStep ==
  ASSUME RetriesInv, NEW c \in Clients, client[c].at = "decided", commitWrite(c),
         mutation[client[c].op] = "versioned" =>
           client[c].expected = row[client[c].op].version,
         mutation[client[c].op] = "findOrCreate" => ~isTaken(row[client[c].op])
  PROVE  RetriesInv'
<1> DEFINE old == client[c]
           op == old.op
<1>1. /\ old \in Client /\ op \in Mutations /\ row[op] \in Row
      /\ row[op].version \in Nat /\ applied[c] \in Nat /\ old.tries \in Nat
      /\ old.expected \in Nat /\ row[op].offers \in Nat
  BY OfClient, ClientFields, RetriesAssumption
<1>2. PICK r \in Row : /\ row' = [row EXCEPT ![op] = r]
                       /\ r.version = row[op].version + 1 /\ isTaken(r)
                       /\ r.offers = row[op].offers
  <2> DEFINE new == [row[op] EXCEPT !.version = row[op].version + 1, !.taken = TRUE]
  <2>1. row[op].version + 1 \in Nat
    BY <1>1
  <2>2. /\ new \in Row /\ new.version = row[op].version + 1 /\ isTaken(new)
        /\ new.offers = row[op].offers
    BY <1>1, <2>1, Zenon DEF Row, isTaken
  <2>3. row' = [row EXCEPT ![op] = new]
    BY <1>1 DEF commitWrite, RetriesInv, RetriesShapeInv
  <2>4. QED
    BY <2>2, <2>3
<1>3. applied' = [applied EXCEPT ![c] = applied[c] + 1]
  BY DEF commitWrite, RetriesInv, RetriesShapeInv
<1>4. PICK cl \in Client :
        /\ client' = [client EXCEPT ![c] = cl]
        /\ cl.op = op /\ cl.expected = old.expected /\ cl.tries = old.tries
        /\ \/ cl.at = "committed" /\ cl.answer = old.answer
           \/ cl.at = "answered" /\ cl.answer = "ok"
  <2>1. CASE readsBack(c)
    <3>1. client' = [client EXCEPT ![c].at = "committed"]
      BY <2>1 DEF commitWrite
    <3>2. /\ [old EXCEPT !.at = "committed"] \in Client
          /\ client' = [client EXCEPT ![c] = [old EXCEPT !.at = "committed"]]
      BY <1>1, <3>1 DEF Client, RetriesInv, RetriesShapeInv
    <3>3. QED
      BY <1>1, <3>2 DEF Client
  <2>2. CASE ~readsBack(c)
    <3>1. client' = [client EXCEPT ![c].at = "answered", ![c].answer = "ok"]
      BY <2>2 DEF commitWrite, answerTo
    <3>2. /\ [old EXCEPT !.at = "answered", !.answer = "ok"] \in Client
          /\ client' = [client EXCEPT ![c] = [old EXCEPT !.at = "answered", !.answer = "ok"]]
      BY <1>1, <3>1 DEF Client, RetriesInv, RetriesShapeInv
    <3>3. QED
      BY <1>1, <3>2 DEF Client
  <2>3. QED
    BY <2>1, <2>2
<1>5. countsItsTries(old, applied[c]) /\ isStoppedBy(row[op], old, applied[c])
  BY OfClient
<1>6. RetriesShapeInv'
  BY <1>1, <1>2, <1>3, <1>4 DEF RetriesInv, RetriesShapeInv
<1>7. /\ \A d \in Clients : client'[d] = IF d = c THEN cl ELSE client[d]
      /\ \A d \in Clients : applied'[d] = IF d = c THEN applied[c] + 1 ELSE applied[d]
      /\ \A m \in Mutations : row'[m] = IF m = op THEN r ELSE row[m]
  BY <1>1, <1>2, <1>3, <1>4 DEF RetriesInv, RetriesShapeInv
<1>8. CountInv'
  <2>1. countsItsTries(cl, applied[c] + 1)
    BY <1>1, <1>4, <1>5 DEF countsItsTries
  <2>2. QED
    BY <1>7, <2>1 DEF RetriesInv, CountInv
<1>9. GuardInv'
  <2>1. isStoppedBy(r, cl, applied[c] + 1)
    BY <1>1, <1>2, <1>4, <1>5 DEF isStoppedBy
  <2>2. ASSUME NEW d \in Clients, d # c, client[d].at # "idle"
        PROVE  isStoppedBy(row'[client[d].op], client[d], applied[d])
    <3>1. /\ isStoppedBy(row[client[d].op], client[d], applied[d])
          /\ client[d].expected \in Nat /\ applied[d] \in Nat /\ client[d].op \in Mutations
      BY <2>2, OfClient, ClientFields
    <3>2. CASE client[d].op = op
      <4>1. isStoppedBy(row[op], client[d], applied[d])
        BY <3>1, <3>2
      <4>2. isStoppedBy(r, client[d], applied[d])
        BY <1>1, <1>2, <3>1, <4>1 DEF isStoppedBy
      <4>3. QED
        BY <1>7, <3>1, <3>2, <4>2
    <3>3. CASE client[d].op # op
      BY <1>7, <3>1, <3>3
    <3>4. QED
      BY <3>2, <3>3
  <2>3. ASSUME NEW d \in Clients, client'[d].at # "idle"
        PROVE  isStoppedBy(row'[client'[d].op], client'[d], applied'[d])
    <3>1. CASE d = c
      BY <1>1, <1>4, <1>7, <2>1, <3>1
    <3>2. CASE d # c
      BY <1>7, <2>2, <2>3, <3>2
    <3>3. QED
      BY <3>1, <3>2
  <2>4. QED
    BY <2>3 DEF GuardInv
<1>10. CreatorInv'
  <2>1. ASSUME mutation[op] = "findOrCreate", NEW d \in Clients, d # c,
               client[d].op = op, applied[d] > 0
        PROVE  FALSE
    <3>1. client[d].at # "idle"
      BY <2>1, OfClient DEF countsItsTries
    <3>2. isTaken(row[op])
      BY <2>1, <3>1, OfClient DEF isStoppedBy
    <3>3. QED
      BY <2>1, <3>2
  <2>2. QED
    BY <1>4, <1>7, <2>1 DEF RetriesInv, CreatorInv
<1>11. QED
  BY <1>6, <1>8, <1>9, <1>10 DEF RetriesInv

\* A repetition is the same request, a try more than was committed, and has the
\* version it had unless clients fetch it again.
LEMMA RetryStep ==
  ASSUME RetriesInv, NEW c \in Clients, Retry(c)
  PROVE  RetriesInv'
<1>0. PICK version \in Nat :
        /\ version = IF Refetches /\ client[c].answer = "CONFLICT"
                     THEN row[client[c].op].version ELSE client[c].expected
        /\ ~Refetches => version = client[c].expected
  BY OfClient, ClientFields
<1> DEFINE old == client[c]
           cl == [client[c] EXCEPT !.at = "sent", !.tries = client[c].tries + 1,
                                   !.answer = "none", !.expected = version]
<1>1. old \in Client /\ old.tries \in Nat /\ applied[c] \in Nat
  BY OfClient, ClientFields, RetriesAssumption
<1>2. /\ cl.at = "sent" /\ cl.op = old.op /\ cl.tries = old.tries + 1
      /\ cl.expected = version /\ cl.answer = "none"
      /\ cl \in Client
  <2>1. old.tries + 1 \in 0..MaxTries
    BY <1>1, RetriesAssumption DEF Retry
  <2>2. QED
    BY <1>1, <2>1, Zenon DEF Client
<1>3. client' = [client EXCEPT ![c] = cl]
  <2>1. client' = [client EXCEPT ![c].at = "sent", ![c].tries = old.tries + 1,
                                 ![c].answer = "none", ![c].expected = version]
    BY <1>0, <1>1 DEF Retry, RetriesInv, RetriesShapeInv
  <2>2. QED
    BY <1>1, <2>1 DEF RetriesInv, RetriesShapeInv
<1>4. client[c].at = "answered"
  BY DEF Retry
<1>5. countsItsTries(old, applied[c]) /\ isStoppedBy(row[old.op], old, applied[c])
  BY <1>4, OfClient
<1>6. countsItsTries(cl, applied[c])
  BY <1>1, <1>2, <1>5 DEF countsItsTries
<1>7. isStoppedBy(row[cl.op], cl, applied[c])
  BY <1>0, <1>2, <1>5 DEF isStoppedBy
<1>8. QED
  BY <1>2, <1>3, <1>6, <1>7, QuietStep DEF Retry

\* Another offer takes no client's away.
LEMMA OfferStep ==
  ASSUME RetriesInv, NEW m \in Mutations, OfferAgain(m)
  PROVE  RetriesInv'
<1>1. row[m] \in Row /\ row[m].offers \in Nat /\ row[m].version \in Nat
  BY DEF RetriesInv, RetriesShapeInv, Row
<1>2. PICK r \in Row : /\ row' = [row EXCEPT ![m] = r] /\ r.version = row[m].version
                       /\ r.offers = row[m].offers + 1
  <2> DEFINE new == [row[m] EXCEPT !.taken = FALSE, !.offers = row[m].offers + 1]
  <2>1. row[m].offers + 1 \in Nat
    BY <1>1
  <2>2. new \in Row /\ new.version = row[m].version /\ new.offers = row[m].offers + 1
    BY <1>1, <2>1, Zenon DEF Row
  <2>3. row' = [row EXCEPT ![m] = new]
    BY <1>1 DEF OfferAgain, RetriesInv, RetriesShapeInv
  <2>4. QED
    BY <2>2, <2>3
<1>3. /\ UNCHANGED <<client, applied>> /\ m \in renewable
      /\ \A k \in Mutations : row'[k] = IF k = m THEN r ELSE row[k]
  BY <1>2 DEF OfferAgain, RetriesInv, RetriesShapeInv
<1>4. RetriesShapeInv'
  BY <1>1, <1>2, <1>3 DEF RetriesInv, RetriesShapeInv
<1>5. mutation[m] = "transition"
  BY <1>3 DEF renewable
<1>6. ASSUME NEW c \in Clients, client[c].at # "idle"
      PROVE  isStoppedBy(row'[client[c].op], client[c], applied[c])
  <2>1. /\ isStoppedBy(row[client[c].op], client[c], applied[c])
        /\ applied[c] \in Nat /\ client[c].op \in Mutations
    BY <1>6, OfClient, ClientFields
  <2>2. CASE client[c].op = m
    <3>1. applied[c] <= row[m].offers
      BY <1>5, <2>1, <2>2 DEF isStoppedBy
    <3>2. applied[c] < r.offers
      BY <1>1, <1>2, <2>1, <3>1
    <3>3. mutation[client[c].op] = "transition"
      BY <1>5, <2>2
    <3>4. applied[c] <= r.offers
      BY <1>1, <1>2, <2>1, <3>2
    <3>5. isStoppedBy(r, client[c], applied[c])
      BY <3>2, <3>3, <3>4 DEF isStoppedBy
    <3>6. QED
      BY <1>3, <2>1, <2>2, <3>5
  <2>3. CASE client[c].op # m
    BY <1>3, <2>1, <2>3
  <2>4. QED
    BY <2>2, <2>3
<1>7. GuardInv'
  BY <1>3, <1>6 DEF GuardInv
<1>8. CountInv' /\ CreatorInv'
  BY <1>3 DEF RetriesInv, CountInv, CreatorInv
<1>9. QED
  BY <1>4, <1>7, <1>8 DEF RetriesInv

\* Every step keeps the invariant.
LEMMA NextRetriesInv == ASSUME RetriesInv, [RetriesNext]_retriesVars PROVE RetriesInv'
<1>1. ASSUME NEW c \in Clients, NEW m \in Mutations, Ask(c, m) PROVE RetriesInv'
  BY <1>1, AskStep
<1>2. ASSUME NEW c \in Clients, NEW code \in Code, Refuse(c, code) PROVE RetriesInv'
  <2>1. code # "ok" /\ code # "none"
    BY DEF Code, retryable
  <2>2. QED
    BY <1>2, <2>1, AnsweredStep DEF Refuse
<1>3. ASSUME NEW c \in Clients, DecideMutation(c) PROVE RetriesInv'
  <2>1. "INVARIANT" \in Code
    BY DEF Code, retryable
  <2>2. CASE mutation[client[c].op] = "transition" /\ row[client[c].op].taken
    <3>1. answerTo(c, "INVARIANT") /\ UNCHANGED <<row, applied>>
      BY <1>3, <2>2, Zenon DEF DecideMutation, kind
    <3>2. QED
      BY <1>3, <2>1, <3>1, AnsweredStep DEF DecideMutation
  <2>3. CASE mutation[client[c].op] = "findOrCreate" /\ row[client[c].op].taken
    <3>1. answerTo(c, "ok") /\ UNCHANGED <<row, applied>>
      BY <1>3, <2>3, Zenon DEF DecideMutation, kind
    <3>2. QED
      BY <1>3, <2>3, <3>1, AnsweredStep DEF DecideMutation
  <2>4. CASE /\ ~(mutation[client[c].op] = "transition" /\ row[client[c].op].taken)
             /\ ~(mutation[client[c].op] = "findOrCreate" /\ row[client[c].op].taken)
    <3>1. client' = [client EXCEPT ![c].at = "decided"] /\ UNCHANGED <<row, applied>>
      BY <1>3, <2>4, Zenon DEF DecideMutation, kind
    <3>2. mutation[client[c].op] = "transition" => ~isTaken(row[client[c].op])
      BY <2>4, Zenon DEF isTaken
    <3>3. QED
      BY <1>3, <3>1, <3>2, DecideStep DEF DecideMutation
  <2>5. QED
    BY <2>2, <2>3, <2>4, Zenon
<1>4. ASSUME NEW c \in Clients, CommitMutation(c) PROVE RetriesInv'
  <2>1. "CONFLICT" \in Code /\ "INTERNAL_SERVER_ERROR" \in Code
    BY DEF Code, retryable
  <2>2. CASE mutation[client[c].op] = "versioned" /\ ~isFresh(c)
    <3>1. answerTo(c, "CONFLICT") /\ UNCHANGED <<row, applied>>
      BY <1>4, <2>2, Zenon DEF CommitMutation, kind
    <3>2. QED
      BY <1>4, <2>1, <3>1, AnsweredStep DEF CommitMutation
  <2>3. CASE mutation[client[c].op] = "findOrCreate" /\ row[client[c].op].taken
    <3>1. answerTo(c, "INTERNAL_SERVER_ERROR") /\ UNCHANGED <<row, applied>>
      BY <1>4, <2>3, Zenon DEF CommitMutation, kind
    <3>2. QED
      BY <1>4, <2>1, <3>1, AnsweredStep DEF CommitMutation
  <2>4. CASE /\ ~(mutation[client[c].op] = "versioned" /\ ~isFresh(c))
             /\ ~(mutation[client[c].op] = "findOrCreate" /\ row[client[c].op].taken)
    <3>1. commitWrite(c)
      BY <1>4, <2>4, Zenon DEF CommitMutation, kind
    <3>2. mutation[client[c].op] = "findOrCreate" => ~isTaken(row[client[c].op])
      BY <2>4, Zenon DEF isTaken
    <3>3. mutation[client[c].op] = "versioned" =>
            client[c].expected = row[client[c].op].version
      BY <2>4, Zenon DEF isFresh
    <3>4. QED
      BY <1>4, <3>1, <3>2, <3>3, CommittedStep DEF CommitMutation
  <2>5. QED
    BY <2>2, <2>3, <2>4, Zenon
<1>5. ASSUME NEW c \in Clients, ReadBack(c) PROVE RetriesInv'
  BY <1>5, AnsweredStep DEF ReadBack
<1>6. ASSUME NEW c \in Clients, Throw(c) PROVE RetriesInv'
  <2>1. "INTERNAL_SERVER_ERROR" \in Code
    BY DEF Code, retryable
  <2>2. QED
    BY <1>6, <2>1, AnsweredStep DEF Throw
<1>7. ASSUME NEW c \in Clients, Retry(c) PROVE RetriesInv'
  BY <1>7, RetryStep
<1>8. ASSUME NEW m \in Mutations, OfferAgain(m) PROVE RetriesInv'
  BY <1>8, OfferStep
<1>9. CASE UNCHANGED retriesVars
  BY <1>9 DEF retriesVars, RetriesInv, RetriesShapeInv, CountInv, GuardInv, CreatorInv
<1>10. QED
  BY <1>1, <1>2, <1>3, <1>4, <1>5, <1>6, <1>7, <1>8, <1>9 DEF RetriesNext

\* So it holds always.
LEMMA RetriesInductive == RetriesSpec => []RetriesInv
<1>1. RetriesInv /\ [RetriesNext]_retriesVars => RetriesInv'
  BY NextRetriesInv
<1>2. QED
  BY <1>1, InitRetriesInv, PTL DEF RetriesSpec

\* The state is always of its type, which says that no request is committed more
\* often than it was tried.
THEOREM RetriesTypeCorrect == RetriesSpec => []RetriesTypeOK
BY RetriesInductive, TypeFollows, PTL

\* A client that repeats an identical request while the catalog calls the answer
\* retryable has it committed at most once, and exactly once if it was told so, when
\* the request carries a version or asks for a transition, and no more often than
\* nominated where that offers it again; a user gets one personal profile.  A client that fetches the version again after a conflict repeats another
\* request.
THEOREM AppliedAtMostOnceHolds == ASSUME ~Refetches PROVE RetriesSpec => []AppliedAtMostOnce
<1>1. ~Refetches /\ RetriesInv => AppliedAtMostOnce
  <2> SUFFICES ASSUME ~Refetches, RetriesInv PROVE AppliedAtMostOnce
    OBVIOUS
  <2>1. ASSUME NEW c \in Clients, client[c].at # "idle", isGuarded(c)
        PROVE  /\ applied[c] <= IF client[c].op \in renewable
                                THEN row[client[c].op].offers ELSE 1
               /\ client[c].answer = "ok" /\ kind(c) # "findOrCreate" => applied[c] > 0
    <3>1. client[c].op \in Mutations
      BY OfClient, ClientFields
    <3>2. client[c].op \notin renewable => row[client[c].op].offers = 1
      BY <3>1 DEF RetriesInv, RetriesShapeInv
    <3>3. applied[c] <= row[client[c].op].offers
      BY <2>1, OfClient DEF isGuarded, kind, isStoppedBy
    <3>4. client[c].answer = "ok" /\ kind(c) # "findOrCreate" => applied[c] > 0
      BY OfClient DEF kind, countsItsTries
    <3>5. QED
      BY <3>2, <3>3, <3>4
  <2>2. ASSUME NEW m \in Mutations, mutation[m] = "findOrCreate",
               NEW c \in creatorsOf(m), NEW d \in creatorsOf(m)
        PROVE  c = d
    BY <2>2 DEF RetriesInv, CreatorInv, creatorsOf
  <2>3. QED
    BY <2>1, <2>2 DEF AppliedAtMostOnce
<1>2. QED
  BY <1>1, RetriesInductive, PTL

-----------------------------------------------------------------------------
(* Subscriptions. *)

Iterator == [topic : Topics \cup {"none"}, from : Nat, closed : BOOLEAN,
             queue : Seq(Values), pending : BOOLEAN, settled : Seq(Values)]

FeedShapeInv ==
  /\ iterator \in [Subscribers -> Iterator]
  /\ log \in [Topics -> Seq(Values)]
  /\ received \in [Subscribers -> Seq(Values)]

\* Of an iterator: one promise at most, and none waits with a value at hand.
isSound(it) ==
  /\ it.pending => it.queue = <<>> /\ it.settled = <<>>
  /\ Len(it.settled) <= 1

\* All that was and will be received, in order.
owed(it, got) == got \o it.settled \o it.queue

\* It is the log from where the iterator began, to its end while it listens.
isPieceOf(it, got, published) ==
  /\ it.from + Len(owed(it, got)) <= Len(published)
  /\ ~it.closed => it.from + Len(owed(it, got)) = Len(published)
  /\ \A i \in 1..Len(owed(it, got)) : owed(it, got)[i] = published[it.from + i]

OwedInv ==
  \A s \in Subscribers :
    /\ isSound(iterator[s])
    /\ iterator[s].topic = "none" => iterator[s] = NoIterator /\ received[s] = <<>>
    /\ iterator[s].topic \in Topics =>
         isPieceOf(iterator[s], received[s], log[iterator[s].topic])

FeedInv == FeedShapeInv /\ OwedInv

-----------------------------------------------------------------------------
(* Lemmas about iterators and sequences. *)

\* The parts of an iterator, by type.
LEMMA Fields ==
  ASSUME NEW it \in Iterator
  PROVE  /\ it.topic \in Topics \cup {"none"} /\ it.from \in Nat
         /\ it.queue \in Seq(Values) /\ it.settled \in Seq(Values)
BY DEF Iterator

\* An iterator that nobody asked for yet.
LEMMA NoIteratorFields ==
  /\ NoIterator \in Iterator /\ NoIterator.topic = "none" /\ NoIterator.from = 0
  /\ NoIterator.queue = <<>> /\ NoIterator.settled = <<>>
  /\ ~NoIterator.closed /\ ~NoIterator.pending /\ NoIterator.closed = FALSE
<1>1. <<>> \in Seq(Values) /\ 0 \in Nat
  OBVIOUS
<1>2. QED
  BY <1>1, Zenon DEF NoIterator, Iterator

\* A value that is queued.
LEMMA QueuesFields ==
  ASSUME NEW it \in Iterator, NEW queue \in Seq(Values),
         NEW new, new = [it EXCEPT !.queue = queue]
  PROVE  /\ new \in Iterator /\ new.topic = it.topic /\ new.from = it.from
         /\ new.queue = queue /\ new.settled = it.settled
         /\ new.closed = it.closed /\ (new.pending <=> it.pending)
BY Zenon DEF Iterator

\* A next() that waits, and one that is answered.
LEMMA WaitsFields ==
  ASSUME NEW it \in Iterator, NEW new, new = [it EXCEPT !.pending = TRUE]
  PROVE  /\ new \in Iterator /\ new.topic = it.topic /\ new.from = it.from
         /\ new.queue = it.queue /\ new.settled = it.settled
         /\ new.closed = it.closed
BY Zenon DEF Iterator

\* The caller has run, and took the value.
LEMMA AnsweredFields ==
  ASSUME NEW it \in Iterator, NEW new, new = [it EXCEPT !.settled = <<>>]
  PROVE  /\ new \in Iterator /\ new.topic = it.topic /\ new.from = it.from
         /\ new.queue = it.queue /\ new.settled = <<>>
         /\ new.closed = it.closed /\ (new.pending <=> it.pending)
<1>1. <<>> \in Seq(Values)
  OBVIOUS
<1>2. QED
  BY <1>1, Zenon DEF Iterator

\* The subscriber has gone.
LEMMA ClosesFields ==
  ASSUME NEW it \in Iterator, NEW new, new = [it EXCEPT !.closed = TRUE]
  PROVE  /\ new \in Iterator /\ new.topic = it.topic /\ new.from = it.from
         /\ new.queue = it.queue /\ new.settled = it.settled
         /\ new.closed = TRUE /\ new.closed /\ (new.pending <=> it.pending)
BY Zenon DEF Iterator

\* A promise is settled with one value.
LEMMA OneValue ==
  ASSUME NEW v \in Values
  PROVE  <<v>> \in Seq(Values) /\ Len(<<v>>) = 1
<1>1. <<v>> \in Seq(Values)
  OBVIOUS
<1>2. Len(<<v>>) = 1
  OBVIOUS
<1>3. QED
  BY <1>1, <1>2

\* A promise is settled with a value or is not.
LEMMA AtMostOne ==
  ASSUME NEW b \in Seq(Values), b # <<>>, NEW n, n = Len(b), n <= 1
  PROVE  n = 1
<1>1. n \in Nat \ {0}
  BY EmptySeq, Zenon
<1>2. QED
  BY <1>1

\* Three sequences in a row.
LEMMA InARow ==
  ASSUME NEW a \in Seq(Values), NEW b \in Seq(Values), NEW c \in Seq(Values)
  PROVE  /\ a \o b \o c \in Seq(Values)
         /\ Len(a \o b \o c) = Len(a) + Len(b) + Len(c)
         /\ a \o b \o c = a \o (b \o c)
BY ConcatProperties, ConcatAssociative

\* A sequence of one between two others.
LEMMA InBetween ==
  ASSUME NEW a \in Seq(Values), NEW b \in Seq(Values), NEW c \in Seq(Values), Len(b) = 1
  PROVE  /\ a \o b = Append(a, b[1]) /\ Append(a, b[1]) \in Seq(Values)
         /\ Len(a) + 1 <= Len(a \o b \o c)
         /\ (a \o b \o c)[Len(a) + 1] = b[1]
<1>1. PICK v \in Values : v = b[1]
  BY ElementOfSeq
<1>2. <<v>> \in Seq(Values) /\ Len(<<v>>) = 1 /\ <<v>>[1] = v
  BY OneValue
<1>3. b = <<v>>
  BY <1>1, <1>2, SeqEqual
<1>4. PICK m \in Seq(Values) : m = Append(a, v)
  BY AppendProperties
<1>5. a \o b = m
  BY <1>3, <1>4, AppendIsConcat
<1>6. Len(m) = Len(a) + 1 /\ m[Len(a) + 1] = v /\ Len(a) \in Nat
  BY <1>4, AppendProperties, LenProperties
<1>7. PICK n \in Nat : n = Len(c)
  BY LenProperties
<1>8. /\ Len(m \o c) = Len(m) + n
      /\ \A i \in 1..Len(m) + n : (m \o c)[i] = IF i <= Len(m) THEN m[i] ELSE c[i - Len(m)]
  BY <1>7, ConcatProperties
<1>9. Len(a) + 1 <= Len(m \o c) /\ (m \o c)[Len(a) + 1] = v
  BY <1>6, <1>7, <1>8
<1>10. QED
  BY <1>1, <1>4, <1>5, <1>9

\* What is heard comes last, whichever of the two ways it takes.
LEMMA HearsLast ==
  ASSUME NEW a \in Seq(Values), NEW b \in Seq(Values), NEW c \in Seq(Values),
         NEW v \in Values
  PROVE  /\ a \o b \o Append(c, v) = Append(a \o b \o c, v)
         /\ a \o <<v>> \o <<>> = Append(a \o <<>> \o <<>>, v)
<1>1. <<v>> \in Seq(Values) /\ <<>> \in Seq(Values) /\ a \o b \in Seq(Values)
      /\ a \o <<v>> \in Seq(Values) /\ a \o b \o c \in Seq(Values)
  BY ConcatProperties
<1>2. Append(c, v) = c \o <<v>> /\ Append(a \o b \o c, v) = a \o b \o c \o <<v>>
  BY <1>1, AppendIsConcat
<1>3. a \o b \o (c \o <<v>>) = a \o b \o c \o <<v>>
  BY <1>1, ConcatAssociative
<1>4. a \o <<v>> \o <<>> = a \o <<v>> /\ a \o <<>> \o <<>> = a
  BY <1>1, ConcatEmptySeq
<1>5. Append(a, v) = a \o <<v>>
  BY AppendIsConcat
<1>6. QED
  BY <1>2, <1>3, <1>4, <1>5

\* A next() that takes from the queue, and one that returns, change no order.
LEMMA TakesFirst ==
  ASSUME NEW a \in Seq(Values), NEW c \in Seq(Values), c # <<>>
  PROVE  a \o <<Head(c)>> \o Tail(c) = a \o <<>> \o c
<1>1. <<Head(c)>> \in Seq(Values) /\ Tail(c) \in Seq(Values)
  BY HeadTailProperties
<1>2. <<Head(c)>> \o Tail(c) = c
  BY <1>1, ConcatProperties, HeadTailProperties, SeqEqual
<1>3. a \o <<Head(c)>> \o Tail(c) = a \o (<<Head(c)>> \o Tail(c))
  BY <1>1, ConcatAssociative
<1>4. QED
  BY <1>2, <1>3, ConcatEmptySeq

\* Receiving the settled value moves it along and leaves the order as it was.
LEMMA ReturnsSettled ==
  ASSUME NEW a \in Seq(Values), NEW b \in Seq(Values), NEW c \in Seq(Values)
  PROVE  (a \o b) \o <<>> \o c = a \o b \o c
BY ConcatProperties, ConcatEmptySeq

\* The listener adds the value at the end and keeps the iterator sound.
LEMMA Hear ==
  ASSUME NEW it \in Iterator, isSound(it), NEW v \in Values, NEW got \in Seq(Values),
         NEW new, new = hear(it, v)
  PROVE  /\ new \in Iterator /\ isSound(new)
         /\ new.topic = it.topic /\ new.from = it.from /\ new.closed = it.closed
         /\ owed(new, got) = Append(owed(it, got), v)
<1>1. CASE it.pending
  <2>1. PICK settled \in Seq(Values) : settled = <<v>> /\ Len(settled) = 1
    BY OneValue
  <2>2. it.queue = <<>> /\ it.settled = <<>>
    BY <1>1 DEF isSound
  <2>3. new = [it EXCEPT !.pending = FALSE, !.settled = settled]
    BY <1>1, <2>1 DEF hear
  <2>4. /\ new \in Iterator
        /\ new.topic = it.topic /\ new.from = it.from /\ new.closed = it.closed
        /\ new.queue = it.queue /\ new.settled = settled /\ ~new.pending
    BY <2>3, Zenon DEF Iterator
  <2>5. got \o <<v>> \o <<>> = Append(got \o <<>> \o <<>>, v)
    BY HearsLast, EmptySeq
  <2>6. owed(new, got) = Append(owed(it, got), v)
    BY <2>1, <2>2, <2>4, <2>5 DEF owed
  <2>7. isSound(new)
    BY <2>1, <2>4 DEF isSound
  <2>8. QED
    BY <2>4, <2>6, <2>7
<1>2. CASE ~it.pending
  <2>1. PICK old \in Seq(Values) : old = it.queue
    BY Fields
  <2>2. PICK settled \in Seq(Values) : settled = it.settled
    BY Fields
  <2>3. PICK queue \in Seq(Values) : queue = Append(old, v)
    BY AppendProperties
  <2>4. new = [it EXCEPT !.queue = queue]
    BY <1>2, <2>1, <2>3 DEF hear
  <2>5. /\ new \in Iterator
        /\ new.topic = it.topic /\ new.from = it.from /\ new.closed = it.closed
        /\ new.queue = queue /\ new.settled = it.settled /\ (new.pending <=> it.pending)
    BY <2>4, QueuesFields
  <2>6. owed(new, got) = Append(owed(it, got), v)
    <3>1. got \o settled \o queue = Append(got \o settled \o old, v)
      BY <2>3, HearsLast
    <3>2. QED
      BY <2>1, <2>2, <2>5, <3>1 DEF owed
  <2>7. isSound(new)
    BY <1>2, <2>5 DEF isSound
  <2>8. QED
    BY <2>5, <2>6, <2>7
<1>3. QED
  BY <1>1, <1>2

\* next() takes nothing from what is owed.
LEMMA AskedFor ==
  ASSUME NEW it \in Iterator, isSound(it), NEW got \in Seq(Values), it.settled = <<>>,
         NEW new, new = ask(it)
  PROVE  /\ new \in Iterator /\ isSound(new)
         /\ new.topic = it.topic /\ new.from = it.from /\ new.closed = it.closed
         /\ owed(new, got) = owed(it, got)
<1>1. CASE it.queue = <<>>
  <2>1. new = [it EXCEPT !.pending = TRUE]
    BY <1>1 DEF ask
  <2>2. /\ new \in Iterator
        /\ new.topic = it.topic /\ new.from = it.from /\ new.closed = it.closed
        /\ new.queue = it.queue /\ new.settled = it.settled
    BY <2>1, WaitsFields
  <2>3. QED
    BY <1>1, <2>2 DEF owed, isSound
<1>2. CASE it.queue # <<>>
  <2>1. PICK queue \in Seq(Values) : queue = it.queue /\ queue # <<>>
    BY <1>2, Fields
  <2>2. ~it.pending
    BY <1>2 DEF isSound
  <2>3. PICK v \in Values : v = Head(queue)
    BY <2>1, HeadTailProperties
  <2>4. PICK settled \in Seq(Values) : settled = <<v>> /\ Len(settled) = 1
    BY OneValue
  <2>5. PICK rest \in Seq(Values) : rest = Tail(queue)
    BY <2>1, HeadTailProperties
  <2>6. new = [it EXCEPT !.settled = settled, !.queue = rest]
    BY <1>2, <2>1, <2>3, <2>4, <2>5 DEF ask
  <2>7. /\ new \in Iterator
        /\ new.topic = it.topic /\ new.from = it.from /\ new.closed = it.closed
        /\ new.queue = rest /\ new.settled = settled /\ (new.pending <=> it.pending)
    BY <2>6, Zenon DEF Iterator
  <2>8. owed(new, got) = owed(it, got)
    <3>1. got \o settled \o rest = got \o <<>> \o queue
      BY <2>1, <2>3, <2>4, <2>5, TakesFirst
    <3>2. QED
      BY <2>1, <2>7, <3>1 DEF owed
  <2>9. isSound(new)
    BY <2>2, <2>4, <2>7 DEF isSound
  <2>10. QED
    BY <2>7, <2>8, <2>9
<1>3. QED
  BY <1>1, <1>2

\* The caller of a next() that was answered runs.
LEMMA AnsweredFor ==
  ASSUME NEW it \in Iterator, isSound(it), NEW got \in Seq(Values),
         NEW new, new = [it EXCEPT !.settled = <<>>]
  PROVE  /\ new \in Iterator /\ isSound(new)
         /\ new.topic = it.topic /\ new.from = it.from /\ new.closed = it.closed
         /\ owed(new, got \o it.settled) = owed(it, got)
<1>1. it.queue \in Seq(Values) /\ it.settled \in Seq(Values)
  BY Fields
<1>2. /\ new \in Iterator
      /\ new.topic = it.topic /\ new.from = it.from /\ new.closed = it.closed
      /\ new.queue = it.queue /\ new.settled = <<>> /\ (new.pending <=> it.pending)
  BY AnsweredFields
<1>3. owed(new, got \o it.settled) = owed(it, got)
  <2>1. got \o it.settled \o <<>> \o it.queue = got \o it.settled \o it.queue
    BY <1>1, ReturnsSettled
  <2>2. QED
    BY <1>2, <2>1, Zenon DEF owed
<1>4. isSound(new)
  BY <1>2 DEF isSound
<1>5. QED
  BY <1>2, <1>3, <1>4

\* Two sequences of which one ends the other still do when they grow alike.
LEMMA TailsGrow ==
  ASSUME NEW all \in Seq(Values), NEW piece \in Seq(Values), NEW n \in Nat, NEW v \in Values,
         n + Len(piece) = Len(all), \A i \in 1..Len(piece) : piece[i] = all[n + i]
  PROVE  /\ n + Len(Append(piece, v)) = Len(Append(all, v))
         /\ \A i \in 1..Len(Append(piece, v)) : Append(piece, v)[i] = Append(all, v)[n + i]
OBVIOUS

\* The log goes on, and with it what a subscriber is owed.
LEMMA PieceGrows ==
  ASSUME NEW it \in Iterator, NEW new \in Iterator, NEW got \in Seq(Values),
         NEW published \in Seq(Values), NEW v \in Values,
         new.from = it.from, new.closed = it.closed, ~it.closed,
         owed(new, got) = Append(owed(it, got), v), isPieceOf(it, got, published)
  PROVE  /\ isPieceOf(new, got, Append(published, v))
         /\ new.from + Len(owed(new, got)) = Len(Append(published, v))
<1>1. PICK piece \in Seq(Values) : piece = owed(it, got)
  BY Fields, InARow DEF owed
<1>2. PICK n \in Nat : n = it.from
  BY Fields
<1>3. n + Len(piece) = Len(published) /\ \A i \in 1..Len(piece) : piece[i] = published[n + i]
  BY <1>1, <1>2 DEF isPieceOf
<1>4. PICK grown \in Seq(Values) : grown = Append(piece, v)
  BY AppendProperties
<1>5. PICK all \in Seq(Values) : all = Append(published, v)
  BY AppendProperties
<1>6. n + Len(grown) = Len(all) /\ \A i \in 1..Len(grown) : grown[i] = all[n + i]
  BY <1>3, <1>4, <1>5, TailsGrow
<1>7. owed(new, got) = grown /\ new.from = n
  BY <1>1, <1>2, <1>4
<1>8. isPieceOf(new, got, all)
  BY <1>6, <1>7 DEF isPieceOf
<1>9. QED
  BY <1>5, <1>6, <1>7, <1>8

\* One that ended is owed no more when the log goes on.
LEMMA PieceStays ==
  ASSUME NEW it \in Iterator, NEW got \in Seq(Values), it.closed,
         NEW published \in Seq(Values), NEW v \in Values, isPieceOf(it, got, published)
  PROVE  isPieceOf(it, got, Append(published, v))
<1>1. owed(it, got) \in Seq(Values) /\ it.from \in Nat
  BY Fields, InARow DEF owed
<1>2. /\ Len(Append(published, v)) = Len(published) + 1
      /\ \A i \in 1..Len(published) : Append(published, v)[i] = published[i]
  BY AppendProperties
<1>3. QED
  BY <1>1, <1>2 DEF isPieceOf

-----------------------------------------------------------------------------
(* The steps. *)

\* Nobody listens and nothing is published at first.
LEMMA InitFeedInv == PubSubInit => FeedInv
<1> SUFFICES ASSUME PubSubInit PROVE FeedInv
  OBVIOUS
<1>1. <<>> \in Seq(Values)
  OBVIOUS
<1>2. FeedShapeInv
  BY <1>1, NoIteratorFields DEF PubSubInit, FeedShapeInv
<1>3. OwedInv
  BY NoIteratorFields, PubSubAssumption DEF PubSubInit, OwedInv, isSound
<1>4. QED
  BY <1>2, <1>3 DEF FeedInv

\* One iterator moves on, with what its caller received.
LEMMA OneMoves ==
  ASSUME FeedInv, NEW s \in Subscribers, NEW w \in Iterator, NEW got \in Seq(Values),
         iterator' = [iterator EXCEPT ![s] = w], received' = [received EXCEPT ![s] = got],
         UNCHANGED log, isSound(w), w.topic \in Topics, isPieceOf(w, got, log[w.topic])
  PROVE  FeedInv'
<1>1. /\ iterator'[s] = w /\ received'[s] = got
      /\ \A q \in Subscribers \ {s} : iterator'[q] = iterator[q] /\ received'[q] = received[q]
  BY DEF FeedInv, FeedShapeInv
<1>2. FeedShapeInv'
  BY DEF FeedInv, FeedShapeInv
<1>3. OwedInv'
  <2> SUFFICES ASSUME NEW q \in Subscribers
               PROVE  /\ isSound(iterator'[q])
                      /\ iterator'[q].topic = "none" =>
                           iterator'[q] = NoIterator /\ received'[q] = <<>>
                      /\ iterator'[q].topic \in Topics =>
                           isPieceOf(iterator'[q], received'[q], log[iterator'[q].topic])
    BY DEF OwedInv
  <2>1. CASE q = s
    BY <1>1, <2>1, PubSubAssumption
  <2>2. CASE q # s
    BY <1>1, <2>2 DEF FeedInv, OwedInv
  <2>3. QED
    BY <2>1, <2>2
<1>4. QED
  BY <1>2, <1>3 DEF FeedInv

\* A subscriber that is new is owed nothing yet.
LEMMA SubscribeStep ==
  ASSUME FeedInv, NEW s \in Subscribers, NEW t \in Topics, Subscribe(s, t)
  PROVE  /\ iterator[s] = NoIterator /\ received[s] = <<>>
         /\ \E w \in Iterator :
              /\ iterator' = [iterator EXCEPT ![s] = w]
              /\ w.topic = t /\ w.from = Len(log[t]) /\ w.closed = FALSE
              /\ Len(owed(w, <<>>)) = 0
         /\ FeedInv' /\ UNCHANGED <<log, received>>
<1>1. /\ iterator[s] = NoIterator /\ UNCHANGED <<log, received>>
      /\ iterator' = [iterator EXCEPT ![s] = [iterator[s] EXCEPT !.topic = t, !.from = Len(log[t])]]
  BY DEF Subscribe
<1>2. received[s] = <<>>
  BY <1>1, NoIteratorFields DEF FeedInv, OwedInv
<1>3. PICK n \in Nat : n = Len(log[t])
  BY DEF FeedInv, FeedShapeInv
<1>4. PICK w : w = [NoIterator EXCEPT !.topic = t, !.from = n]
  OBVIOUS
<1>5. /\ w \in Iterator /\ w.topic = t /\ w.from = n /\ w.closed = FALSE /\ ~w.pending
      /\ w.queue = <<>> /\ w.settled = <<>>
  BY <1>4, Zenon, NoIteratorFields DEF Iterator
<1>6. iterator' = [iterator EXCEPT ![s] = w]
  BY <1>1, <1>3, <1>4
<1>7. owed(w, <<>>) = <<>> /\ Len(owed(w, <<>>)) = 0
  BY <1>5 DEF owed
<1>8. isSound(w) /\ isPieceOf(w, <<>>, log[t])
  BY <1>3, <1>5, <1>7 DEF isSound, isPieceOf
<1>9. received' = [received EXCEPT ![s] = <<>>] /\ <<>> \in Seq(Values)
  BY <1>1, <1>2 DEF FeedInv, FeedShapeInv
<1>10. FeedInv'
  BY <1>1, <1>5, <1>6, <1>8, <1>9, OneMoves
<1>11. QED
  BY <1>1, <1>2, <1>3, <1>5, <1>6, <1>7, <1>10

\* What is owed stays as it is when it is asked for.
LEMMA CallNextStep ==
  ASSUME FeedInv, NEW s \in Subscribers, CallNext(s)
  PROVE  /\ \E w \in Iterator :
              /\ iterator' = [iterator EXCEPT ![s] = w]
              /\ w.topic = iterator[s].topic /\ w.from = iterator[s].from
              /\ w.closed = iterator[s].closed
              /\ owed(w, received[s]) = owed(iterator[s], received[s])
         /\ FeedInv' /\ UNCHANGED <<log, received>>
<1>1. /\ iterator' = [iterator EXCEPT ![s] = ask(iterator[s])]
      /\ UNCHANGED <<log, received>>
      /\ iterator[s].topic \in Topics /\ iterator[s].settled = <<>>
  BY DEF CallNext, isIdle
<1>2. PICK it \in Iterator : it = iterator[s] /\ isSound(it)
  BY DEF FeedInv, FeedShapeInv, OwedInv
<1>3. PICK got \in Seq(Values) : got = received[s]
  BY DEF FeedInv, FeedShapeInv
<1>4. PICK w : w = ask(it)
  OBVIOUS
<1>5. /\ w \in Iterator /\ isSound(w)
      /\ w.topic = it.topic /\ w.from = it.from /\ w.closed = it.closed
      /\ owed(w, got) = owed(it, got)
  BY <1>1, <1>2, <1>4, AskedFor
<1>6. isPieceOf(it, got, log[it.topic])
  BY <1>1, <1>2, <1>3 DEF FeedInv, OwedInv
<1>7. isPieceOf(w, got, log[w.topic])
  BY <1>5, <1>6 DEF isPieceOf
<1>8. /\ iterator' = [iterator EXCEPT ![s] = w]
      /\ received' = [received EXCEPT ![s] = got]
  BY <1>1, <1>2, <1>3, <1>4 DEF FeedInv, FeedShapeInv
<1>9. FeedInv'
  BY <1>1, <1>2, <1>5, <1>7, <1>8, OneMoves
<1>10. QED
  BY <1>1, <1>2, <1>3, <1>5, <1>8, <1>9

\* What a subscriber receives is the next value of the log.
LEMMA ReceiveStep ==
  ASSUME FeedInv, NEW s \in Subscribers, Receive(s)
  PROVE  LET k == iterator[s].from + Len(received[s]) + 1
         IN  /\ \E w \in Iterator :
                  /\ iterator' = [iterator EXCEPT ![s] = w]
                  /\ w.topic = iterator[s].topic /\ w.from = iterator[s].from
                  /\ w.closed = iterator[s].closed
                  /\ owed(w, received'[s]) = owed(iterator[s], received[s])
             /\ received' =
                  [received EXCEPT ![s] = Append(received[s], log[iterator[s].topic][k])]
             /\ k <= iterator[s].from + Len(owed(iterator[s], received[s]))
             /\ FeedInv' /\ UNCHANGED log
<1>1. /\ received' = [received EXCEPT ![s] = received[s] \o iterator[s].settled]
      /\ iterator' = [iterator EXCEPT ![s] = [iterator[s] EXCEPT !.settled = <<>>]]
      /\ UNCHANGED log /\ iterator[s].settled # <<>>
  BY DEF Receive
<1>2. PICK it \in Iterator : it = iterator[s] /\ isSound(it)
  BY DEF FeedInv, FeedShapeInv, OwedInv
<1>3. PICK got \in Seq(Values) : got = received[s]
  BY DEF FeedInv, FeedShapeInv
<1>4. PICK w : w = [it EXCEPT !.settled = <<>>]
  OBVIOUS
<1>5. PICK more : more = got \o it.settled
  OBVIOUS
<1>6. /\ w \in Iterator /\ isSound(w)
      /\ w.topic = it.topic /\ w.from = it.from /\ w.closed = it.closed
      /\ owed(w, more) = owed(it, got)
  BY <1>2, <1>4, <1>5, AnsweredFor
<1>7. it.topic \in Topics
  BY <1>1, <1>2, Fields, NoIteratorFields DEF FeedInv, OwedInv
<1>8. isPieceOf(it, got, log[it.topic])
  BY <1>2, <1>3, <1>7 DEF FeedInv, OwedInv
<1>9. isPieceOf(w, more, log[w.topic])
  BY <1>6, <1>8 DEF isPieceOf
<1>10. PICK b \in Seq(Values) : b = it.settled
  BY Fields
<1>11. Len(b) = 1
  <2>1. b # <<>> /\ Len(b) <= 1
    BY <1>1, <1>2, <1>10 DEF isSound
  <2>2. QED
    BY <2>1, AtMostOne
<1>12. PICK c \in Seq(Values) : c = it.queue
  BY Fields
<1>13. PICK all \in Seq(Values) : all = got \o b \o c /\ all = owed(it, got)
  BY <1>10, <1>12, InARow DEF owed
<1>14. PICK n \in Nat : n = Len(got)
  BY LenProperties
<1>15. /\ got \o b = Append(got, b[1]) /\ Append(got, b[1]) \in Seq(Values)
       /\ Len(got) + 1 <= Len(got \o b \o c)
       /\ (got \o b \o c)[Len(got) + 1] = b[1]
  BY <1>11, InBetween
<1>16. PICK k \in Nat : k = it.from + Len(got) + 1 /\ k = it.from + (n + 1)
                        /\ k <= it.from + Len(all)
  <2>1. PICK from \in Nat : from = it.from
    BY Fields
  <2>2. PICK total \in Nat : total = Len(all) /\ n + 1 <= total
    BY <1>13, <1>14, <1>15, LenProperties
  <2>3. /\ from + (n + 1) \in Nat /\ from + (n + 1) = from + n + 1
        /\ from + (n + 1) <= from + total
    BY <2>2
  <2>4. QED
    BY <1>14, <2>1, <2>2, <2>3
<1>17. more = Append(got, log[it.topic][k]) /\ more \in Seq(Values)
  <2>1. n + 1 \in 1..Len(all) /\ all[n + 1] = b[1]
    BY <1>13, <1>14, <1>15, LenProperties
  <2>2. b[1] = log[it.topic][k]
    BY <1>8, <1>13, <1>16, <2>1 DEF isPieceOf
  <2>3. QED
    BY <1>5, <1>10, <1>15, <2>2
<1>18. /\ iterator' = [iterator EXCEPT ![s] = w]
       /\ received' = [received EXCEPT ![s] = more] /\ received'[s] = more
  BY <1>1, <1>2, <1>3, <1>4, <1>5 DEF FeedInv, FeedShapeInv
<1>19. FeedInv'
  BY <1>1, <1>6, <1>7, <1>9, <1>17, <1>18, OneMoves
<1>20. QED
  BY <1>1, <1>2, <1>3, <1>6, <1>13, <1>16, <1>17, <1>18, <1>19

\* A subscription that ends is owed what it was owed.
LEMMA ReturnStep ==
  ASSUME FeedInv, NEW s \in Subscribers, Return(s)
  PROVE  /\ iterator[s].topic \in Topics /\ ~iterator[s].closed
         /\ \E w \in Iterator :
              /\ iterator' = [iterator EXCEPT ![s] = w]
              /\ w.topic = iterator[s].topic /\ w.from = iterator[s].from
              /\ w.closed = TRUE
              /\ owed(w, received[s]) = owed(iterator[s], received[s])
         /\ FeedInv' /\ UNCHANGED <<log, received>>
<1>1. /\ iterator' = [iterator EXCEPT ![s] = [iterator[s] EXCEPT !.closed = TRUE]]
      /\ UNCHANGED <<log, received>>
      /\ iterator[s].topic \in Topics /\ ~iterator[s].closed
  BY DEF Return
<1>2. PICK it \in Iterator : it = iterator[s] /\ isSound(it)
  BY DEF FeedInv, FeedShapeInv, OwedInv
<1>3. PICK got \in Seq(Values) : got = received[s]
  BY DEF FeedInv, FeedShapeInv
<1>4. PICK w : w = [it EXCEPT !.closed = TRUE]
  OBVIOUS
<1>5. /\ w \in Iterator /\ w.topic = it.topic /\ w.from = it.from
      /\ w.queue = it.queue /\ w.settled = it.settled
      /\ w.closed = TRUE /\ w.closed /\ (w.pending <=> it.pending)
  BY <1>4, ClosesFields
<1>6. isSound(w) /\ owed(w, got) = owed(it, got)
  BY <1>2, <1>5 DEF isSound, owed
<1>7. isPieceOf(it, got, log[it.topic])
  BY <1>1, <1>2, <1>3 DEF FeedInv, OwedInv
<1>8. isPieceOf(w, got, log[w.topic])
  BY <1>5, <1>6, <1>7 DEF isPieceOf
<1>9. /\ iterator' = [iterator EXCEPT ![s] = w]
      /\ received' = [received EXCEPT ![s] = got]
  BY <1>1, <1>2, <1>3, <1>4 DEF FeedInv, FeedShapeInv
<1>10. FeedInv'
  BY <1>1, <1>2, <1>5, <1>6, <1>8, <1>9, OneMoves
<1>11. QED
  BY <1>1, <1>2, <1>3, <1>5, <1>6, <1>9, <1>10

\* What is published goes to those who listen, and to nobody else.
LEMMA PublishStep ==
  ASSUME FeedInv, NEW S \in SUBSET Topics, NEW values \in [S -> Values], publish(values)
  PROVE  /\ UNCHANGED received /\ FeedInv'
         /\ \A t \in Topics : log'[t] = IF t \in S THEN Append(log[t], values[t]) ELSE log[t]
         /\ \A s \in Subscribers :
              /\ iterator'[s].topic = iterator[s].topic /\ iterator'[s].from = iterator[s].from
              /\ iterator'[s].closed = iterator[s].closed
              /\ iterator[s].topic = "none" \/ iterator[s].closed =>
                   owed(iterator'[s], received[s]) = owed(iterator[s], received[s])
              /\ iterator[s].topic \in Topics /\ ~iterator[s].closed =>
                   iterator[s].from + Len(owed(iterator'[s], received[s]))
                     = Len(log'[iterator[s].topic])
<1>1. /\ \A t \in Topics : log'[t] = IF t \in S THEN Append(log[t], values[t]) ELSE log[t]
      /\ log' = [t \in Topics |-> log'[t]]
      /\ UNCHANGED received
  BY DEF publish
<1>2. /\ iterator' = [s \in Subscribers |-> iterator'[s]]
      /\ \A s \in Subscribers :
           iterator'[s] = IF \E t \in S : isListening(s, t)
                          THEN hear(iterator[s], values[iterator[s].topic]) ELSE iterator[s]
  BY DEF publish
<1>3. log' \in [Topics -> Seq(Values)]
  <2>1. ASSUME NEW t \in Topics PROVE log'[t] \in Seq(Values)
    <3>1. PICK published \in Seq(Values) : published = log[t]
      BY DEF FeedInv, FeedShapeInv
    <3>2. CASE t \in S
      <4>1. PICK v \in Values : v = values[t]
        BY <3>2
      <4>2. Append(published, v) \in Seq(Values)
        BY AppendProperties
      <4>3. QED
        BY <1>1, <3>1, <3>2, <4>1, <4>2
    <3>3. CASE t \notin S
      BY <1>1, <3>1, <3>3
    <3>4. QED
      BY <3>2, <3>3
  <2>2. QED
    BY <1>1, <2>1
<1>4. ASSUME NEW s \in Subscribers
      PROVE  /\ iterator'[s] \in Iterator /\ isSound(iterator'[s])
             /\ iterator'[s].topic = iterator[s].topic /\ iterator'[s].from = iterator[s].from
             /\ iterator'[s].closed = iterator[s].closed
             /\ iterator[s].topic = "none" \/ iterator[s].closed => iterator'[s] = iterator[s]
             /\ iterator[s].topic \in Topics =>
                  isPieceOf(iterator'[s], received[s], log'[iterator[s].topic])
             /\ iterator[s].topic \in Topics /\ ~iterator[s].closed =>
                  iterator[s].from + Len(owed(iterator'[s], received[s]))
                    = Len(log'[iterator[s].topic])
  <2>1. PICK it \in Iterator : it = iterator[s] /\ isSound(it)
    BY DEF FeedInv, FeedShapeInv, OwedInv
  <2>2. PICK got \in Seq(Values) : got = received[s]
    BY DEF FeedInv, FeedShapeInv
  <2>3. PICK new : new = iterator'[s]
    OBVIOUS
  <2>4. CASE \E t \in S : isListening(s, t)
    <3>1. it.topic \in S /\ it.topic \in Topics /\ ~it.closed
      BY <2>1, <2>4 DEF isListening
    <3>2. PICK v \in Values : v = values[it.topic]
      BY <3>1
    <3>3. PICK published \in Seq(Values) : published = log[it.topic]
      BY <3>1 DEF FeedInv, FeedShapeInv
    <3>4. new = hear(it, v) /\ log'[it.topic] = Append(published, v)
      BY <1>1, <1>2, <2>1, <2>3, <2>4, <3>1, <3>2, <3>3
    <3>5. /\ new \in Iterator /\ isSound(new)
          /\ new.topic = it.topic /\ new.from = it.from /\ new.closed = it.closed
          /\ owed(new, got) = Append(owed(it, got), v)
      BY <2>1, <3>4, Hear
    <3>6. isPieceOf(it, got, published)
      BY <2>1, <2>2, <3>1, <3>3 DEF FeedInv, OwedInv
    <3>7. /\ isPieceOf(new, got, Append(published, v))
          /\ new.from + Len(owed(new, got)) = Len(Append(published, v))
      BY <3>1, <3>5, <3>6, PieceGrows
    <3>8. it.topic # "none"
      BY <3>1, PubSubAssumption
    <3>9. QED
      BY <2>1, <2>2, <2>3, <3>1, <3>4, <3>5, <3>7, <3>8
  <2>5. CASE ~\E t \in S : isListening(s, t)
    <3>1. iterator'[s] = it
      BY <1>2, <2>1, <2>5
    <3>2. ASSUME it.topic \in Topics
          PROVE  /\ isPieceOf(it, got, log'[it.topic])
                 /\ ~it.closed => it.from + Len(owed(it, got)) = Len(log'[it.topic])
      <4>1. isPieceOf(it, got, log[it.topic])
        BY <2>1, <2>2, <3>2 DEF FeedInv, OwedInv
      <4>2. CASE it.topic \in S
        <5>1. it.closed
          BY <2>1, <2>5, <4>2 DEF isListening
        <5>2. PICK published \in Seq(Values) : published = log[it.topic]
          BY <3>2 DEF FeedInv, FeedShapeInv
        <5>3. PICK v \in Values : v = values[it.topic]
          BY <4>2
        <5>4. isPieceOf(it, got, Append(published, v))
          BY <4>1, <5>1, <5>2, PieceStays
        <5>5. QED
          BY <1>1, <3>2, <4>2, <5>1, <5>2, <5>3, <5>4
      <4>3. CASE it.topic \notin S
        BY <1>1, <3>2, <4>1, <4>3 DEF isPieceOf
      <4>4. QED
        BY <4>2, <4>3
    <3>3. QED
      BY <2>1, <2>2, <3>1, <3>2
  <2>6. QED
    BY <2>4, <2>5
<1>5. FeedShapeInv'
  <2>1. iterator' \in [Subscribers -> Iterator]
    BY <1>2, <1>4
  <2>2. QED
    BY <1>1, <1>3, <2>1 DEF FeedInv, FeedShapeInv, Iterator
<1>6. OwedInv'
  <2> SUFFICES ASSUME NEW s \in Subscribers
               PROVE  /\ isSound(iterator'[s])
                      /\ iterator'[s].topic = "none" =>
                           iterator'[s] = NoIterator /\ received'[s] = <<>>
                      /\ iterator'[s].topic \in Topics =>
                           isPieceOf(iterator'[s], received'[s], log'[iterator'[s].topic])
    BY DEF OwedInv
  <2>1. iterator[s].topic = "none" => iterator[s] = NoIterator /\ received[s] = <<>>
    BY DEF FeedInv, OwedInv
  <2>2. QED
    BY <1>1, <1>4, <2>1
<1>7. QED
  BY <1>1, <1>4, <1>5, <1>6 DEF FeedInv

\* One case per action of the engine and its iterators.
LEMMA NextFeedInv == FeedInv /\ [PubSubNext]_pubSubVars => FeedInv'
<1> SUFFICES ASSUME FeedInv, [PubSubNext]_pubSubVars PROVE FeedInv'
  OBVIOUS
<1>1. ASSUME Publication PROVE FeedInv'
  BY <1>1, PublishStep DEF Publication
<1>2. ASSUME SubscriberNext PROVE FeedInv'
  BY <1>2, SubscribeStep, CallNextStep, ReceiveStep, ReturnStep DEF SubscriberNext
<1>3. CASE UNCHANGED pubSubVars
  <2>1. FeedShapeInv'
    BY <1>3 DEF pubSubVars, FeedInv, FeedShapeInv
  <2>2. OwedInv'
    BY <1>3 DEF pubSubVars, FeedInv, OwedInv
  <2>3. QED
    BY <2>1, <2>2 DEF FeedInv
<1>4. QED
  BY <1>1, <1>2, <1>3 DEF PubSubNext

\* The invariant holds of every behaviour.
LEMMA FeedInductive == PubSubSpec => []FeedInv
BY InitFeedInv, NextFeedInv, PTL DEF PubSubSpec

\* No next() waits while a value is at hand for it, and no promise is settled twice:
\* a subscriber that asks gets an answer as soon as there is one.
THEOREM PubSubTypeCorrect == PubSubSpec => []PubSubTypeOK
<1>1. FeedInv => PubSubTypeOK
  BY Fields DEF FeedInv, FeedShapeInv, OwedInv, isSound, PubSubTypeOK
<1>2. QED
  BY <1>1, FeedInductive, PTL

-----------------------------------------------------------------------------
(* The refinement: a publication is an announcement, a subscription begins   *)
(* and ends, and a value counts as delivered when the caller of next() runs. *)

feedWith(topic, from, upTo, ended) ==
  [topic |-> topic, from |-> from, upTo |-> upTo, ended |-> ended]

\* A feed, field by field.
LEMMA FeedOf ==
  ASSUME NEW s \in Subscribers
  PROVE  feedOf[s] = feedWith(iterator[s].topic, iterator[s].from,
                         iterator[s].from + Len(owed(iterator[s], received[s])),
                         iterator[s].closed)
BY DEF feedOf, owed, feedWith

\* A row of the abstract channel that is extended or ended.
LEMMA RowUpdates ==
  ASSUME NEW t, NEW from, NEW upTo, NEW ended, NEW n
  PROVE  /\ feedWith(t, from, upTo, ended).topic = t
         /\ feedWith(t, from, upTo, ended).from = from
         /\ feedWith(t, from, upTo, ended).upTo = upTo
         /\ feedWith(t, from, upTo, ended).ended = ended
         /\ [feedWith(t, from, upTo, ended) EXCEPT !.upTo = n] = feedWith(t, from, n, ended)
         /\ [feedWith(t, from, upTo, ended) EXCEPT !.ended = n] = feedWith(t, from, upTo, n)
<1>1. /\ feedWith(t, from, upTo, ended).topic = t
      /\ feedWith(t, from, upTo, ended).from = from
      /\ feedWith(t, from, upTo, ended).upTo = upTo
      /\ feedWith(t, from, upTo, ended).ended = ended
  BY Zenon DEF feedWith
<1>2. [feedWith(t, from, upTo, ended) EXCEPT !.upTo = n] = feedWith(t, from, n, ended)
  BY DEF feedWith
<1>3. [feedWith(t, from, upTo, ended) EXCEPT !.ended = n] = feedWith(t, from, upTo, n)
  BY DEF feedWith
<1>4. QED
  BY <1>1, <1>2, <1>3

\* The feed of the one subscriber that moves on.
LEMMA FeedMoves ==
  ASSUME FeedInv, NEW s \in Subscribers, NEW w \in Iterator,
         iterator' = [iterator EXCEPT ![s] = w],
         \A q \in Subscribers \ {s} : received'[q] = received[q]
  PROVE  feedOf' = [feedOf EXCEPT ![s] =
                      feedWith(w.topic, w.from, w.from + Len(owed(w, received'[s])), w.closed)]
<1>1. iterator'[s] = w /\ \A q \in Subscribers \ {s} : iterator'[q] = iterator[q]
  BY DEF FeedInv, FeedShapeInv
<1>2. QED
  BY <1>1, Zenon DEF feedOf, owed, feedWith

\* Publishing extends a topic, receiving extends a piece of it, and the steps in between,
\* from queue to promise, are not seen.
LEMMA StepRefines ==
  ASSUME FeedInv, [PubSubNext]_pubSubVars
  PROVE  [AbstractChannel!ChannelNext]_AbstractChannel!channelVars
<1>1. ASSUME NEW s \in Subscribers, NEW t \in Topics, Subscribe(s, t)
      PROVE  AbstractChannel!Begin(s)
  <2>1. /\ iterator[s] = NoIterator /\ received[s] = <<>> /\ received' = received /\ log' = log
    BY <1>1, SubscribeStep
  <2>2. PICK w \in Iterator :
          /\ iterator' = [iterator EXCEPT ![s] = w]
          /\ w.topic = t /\ w.from = Len(log[t]) /\ w.closed = FALSE
          /\ Len(owed(w, <<>>)) = 0
    BY <1>1, SubscribeStep
  <2>3. feedOf[s] = feedWith("none", 0, 0, FALSE)
    <3>1. Len(owed(NoIterator, <<>>)) = 0 /\ 0 + 0 = 0
      BY NoIteratorFields DEF owed
    <3>2. QED
      BY <2>1, <3>1, FeedOf, NoIteratorFields
  <2>4. feedOf' = [feedOf EXCEPT ![s] = feedWith(t, Len(log[t]), Len(log[t]), FALSE)]
    <3>1. Len(log[t]) + 0 = Len(log[t])
      BY DEF FeedInv, FeedShapeInv
    <3>2. feedOf' = [feedOf EXCEPT ![s] =
                   feedWith(w.topic, w.from, w.from + Len(owed(w, received'[s])), w.closed)]
      BY <2>1, <2>2, FeedMoves
    <3>3. QED
      BY <2>1, <2>2, <3>1, <3>2
  <2>5. QED
    BY <2>1, <2>3, <2>4
    DEF AbstractChannel!Begin, AbstractChannel!NoFeed, AbstractChannel!NoTopic, feedWith
<1>2. ASSUME NEW s \in Subscribers, CallNext(s)
      PROVE  UNCHANGED AbstractChannel!channelVars
  <2>1. PICK w \in Iterator :
          /\ iterator' = [iterator EXCEPT ![s] = w]
          /\ w.topic = iterator[s].topic /\ w.from = iterator[s].from
          /\ w.closed = iterator[s].closed
          /\ owed(w, received[s]) = owed(iterator[s], received[s])
    BY <1>2, CallNextStep
  <2>2. received' = received /\ log' = log
    BY <1>2, CallNextStep
  <2>3. feedOf' = [feedOf EXCEPT ![s] = feedOf[s]]
    <3>1. feedOf' = [feedOf EXCEPT ![s] =
                   feedWith(w.topic, w.from, w.from + Len(owed(w, received'[s])), w.closed)]
      BY <2>1, <2>2, FeedMoves
    <3>2. QED
      BY <2>1, <2>2, <3>1, FeedOf
  <2>4. QED
    BY <2>2, <2>3 DEF AbstractChannel!channelVars, feedOf
<1>3. ASSUME NEW s \in Subscribers, Receive(s)
      PROVE  AbstractChannel!Deliver(s)
  <2>. DEFINE k == iterator[s].from + Len(received[s]) + 1
  <2>1. PICK w \in Iterator :
          /\ iterator' = [iterator EXCEPT ![s] = w]
          /\ w.topic = iterator[s].topic /\ w.from = iterator[s].from
          /\ w.closed = iterator[s].closed
          /\ owed(w, received'[s]) = owed(iterator[s], received[s])
    BY <1>3, ReceiveStep
  <2>2. /\ received' = [received EXCEPT ![s] = Append(received[s], log[iterator[s].topic][k])]
        /\ k <= iterator[s].from + Len(owed(iterator[s], received[s]))
        /\ log' = log
    BY <1>3, ReceiveStep
  <2>3. \A q \in Subscribers \ {s} : received'[q] = received[q]
    BY <2>2 DEF FeedInv, FeedShapeInv
  <2>4. feedOf' = [feedOf EXCEPT ![s] = feedOf[s]]
    <3>1. feedOf' = [feedOf EXCEPT ![s] =
                   feedWith(w.topic, w.from, w.from + Len(owed(w, received'[s])), w.closed)]
      BY <2>1, <2>3, FeedMoves
    <3>2. QED
      BY <2>1, <3>1, FeedOf
  <2>5. feedOf' = feedOf
    BY <2>4 DEF feedOf
  <2>6. /\ feedOf[s].topic = iterator[s].topic /\ feedOf[s].from = iterator[s].from
        /\ feedOf[s].upTo = iterator[s].from + Len(owed(iterator[s], received[s]))
    BY FeedOf, RowUpdates
  <2>7. QED
    BY <2>2, <2>5, <2>6 DEF AbstractChannel!Deliver
<1>4. ASSUME NEW s \in Subscribers, Return(s)
      PROVE  AbstractChannel!End(s)
  <2>1. /\ iterator[s].topic \in Topics /\ ~iterator[s].closed
        /\ received' = received /\ log' = log
    BY <1>4, ReturnStep
  <2>2. PICK w \in Iterator :
          /\ iterator' = [iterator EXCEPT ![s] = w]
          /\ w.topic = iterator[s].topic /\ w.from = iterator[s].from
          /\ w.closed = TRUE
          /\ owed(w, received[s]) = owed(iterator[s], received[s])
    BY <1>4, ReturnStep
  <2>3. /\ feedOf[s].topic = iterator[s].topic /\ feedOf[s].ended = iterator[s].closed
        /\ [feedOf[s] EXCEPT !.ended = TRUE] =
             feedWith(iterator[s].topic, iterator[s].from,
                 iterator[s].from + Len(owed(iterator[s], received[s])), TRUE)
    <3>1. PICK topic, from, upTo, ended :
            /\ topic = iterator[s].topic /\ from = iterator[s].from
            /\ upTo = iterator[s].from + Len(owed(iterator[s], received[s]))
            /\ ended = iterator[s].closed
      OBVIOUS
    <3>2. feedOf[s] = feedWith(topic, from, upTo, ended)
      BY <3>1, FeedOf
    <3>3. PICK over : over = TRUE
      OBVIOUS
    <3>4. /\ feedWith(topic, from, upTo, ended).topic = topic
          /\ feedWith(topic, from, upTo, ended).ended = ended
          /\ [feedWith(topic, from, upTo, ended) EXCEPT !.ended = over]
               = feedWith(topic, from, upTo, over)
      BY RowUpdates
    <3>5. QED
      BY <3>1, <3>2, <3>3, <3>4, Zenon
  <2>4. feedOf' = [feedOf EXCEPT ![s] = [feedOf[s] EXCEPT !.ended = TRUE]]
    <3>1. feedOf' = [feedOf EXCEPT ![s] =
                   feedWith(w.topic, w.from, w.from + Len(owed(w, received'[s])), w.closed)]
      BY <2>1, <2>2, FeedMoves
    <3>2. QED
      BY <2>1, <2>2, <2>3, <3>1
  <2>5. QED
    BY <2>1, <2>3, <2>4 DEF AbstractChannel!End
<1>5. ASSUME Publication
      PROVE  AbstractChannel!Announce
  <2>1. PICK S \in SUBSET Topics : S # {} /\ \E values \in [S -> Values] : publish(values)
    BY <1>5 DEF Publication
  <2>2. PICK values \in [S -> Values] : publish(values)
    BY <2>1
  <2>3. /\ received' = received
        /\ \A t \in Topics : log'[t] = IF t \in S THEN Append(log[t], values[t]) ELSE log[t]
    BY <2>2, PublishStep
  <2>4. \A t \in Topics : /\ Len(log'[t]) \in {Len(log[t]), Len(log[t]) + 1}
                          /\ SubSeq(log'[t], 1, Len(log[t])) = log[t]
                          /\ t \in S => log'[t] # log[t]
    <3> SUFFICES ASSUME NEW t \in Topics
                 PROVE  /\ Len(log'[t]) \in {Len(log[t]), Len(log[t]) + 1}
                        /\ SubSeq(log'[t], 1, Len(log[t])) = log[t]
                        /\ t \in S => log'[t] # log[t]
      OBVIOUS
    <3>1. PICK published \in Seq(Values) : published = log[t]
      BY DEF FeedInv, FeedShapeInv
    <3>2. SubSeq(published, 1, Len(published)) = published
      BY SubSeqFull
    <3>3. ASSUME NEW v \in Values
          PROVE  /\ Len(Append(published, v)) = Len(published) + 1
                 /\ SubSeq(Append(published, v), 1, Len(published)) = published
                 /\ Append(published, v) # published
      BY <3>3
    <3>4. QED
      BY <2>3, <3>1, <3>2, <3>3
  <2>5. log' # log
    BY <2>1, <2>4
  <2>6. ASSUME NEW s \in Subscribers
        PROVE  feedOf'[s] = IF feedOf[s].topic = "none" \/ feedOf[s].ended THEN feedOf[s]
                            ELSE [feedOf[s] EXCEPT !.upTo = Len(log'[feedOf[s].topic])]
    <3>1. /\ iterator'[s].topic = iterator[s].topic /\ iterator'[s].from = iterator[s].from
          /\ iterator'[s].closed = iterator[s].closed
          /\ iterator[s].topic = "none" \/ iterator[s].closed =>
               owed(iterator'[s], received[s]) = owed(iterator[s], received[s])
          /\ iterator[s].topic \in Topics /\ ~iterator[s].closed =>
               iterator[s].from + Len(owed(iterator'[s], received[s]))
                 = Len(log'[iterator[s].topic])
      BY <2>2, PublishStep
    <3>2. feedOf'[s] = feedWith(iterator[s].topic, iterator[s].from,
                           iterator[s].from + Len(owed(iterator'[s], received[s])),
                           iterator[s].closed)
      BY <2>3, <3>1, Zenon DEF feedOf, owed, feedWith
    <3>3. /\ feedOf[s].topic = iterator[s].topic /\ feedOf[s].ended = iterator[s].closed
          /\ \A n : [feedOf[s] EXCEPT !.upTo = n] =
                      feedWith(iterator[s].topic, iterator[s].from, n, iterator[s].closed)
      BY FeedOf, RowUpdates
    <3>4. CASE iterator[s].topic = "none" \/ iterator[s].closed
      BY <3>1, <3>2, <3>3, <3>4, FeedOf
    <3>5. CASE iterator[s].topic # "none" /\ ~iterator[s].closed
      <4>1. iterator[s].topic \in Topics
        BY <3>5, Fields DEF FeedInv, FeedShapeInv
      <4>2. QED
        BY <3>1, <3>2, <3>3, <3>5, <4>1
    <3>6. QED
      BY <3>4, <3>5
  <2>7. QED
    BY <2>3, <2>4, <2>5, <2>6
    DEF AbstractChannel!Announce, AbstractChannel!NoTopic, feedOf
<1>6. CASE UNCHANGED pubSubVars
  BY <1>6 DEF pubSubVars, AbstractChannel!channelVars, feedOf
<1>7. QED
  BY <1>1, <1>2, <1>3, <1>4, <1>5, <1>6
  DEF PubSubNext, SubscriberNext, AbstractChannel!ChannelNext

\* Every subscriber gets every value published while it is subscribed, once and in
\* order, however its next() calls, the turns of the event loop and the publications
\* interleave, and after its end nothing that was published later.
THEOREM Refinement == PubSubSpec => ImplementsChannel
<1>1. PubSubInit => AbstractChannel!ChannelInit
  <2> SUFFICES ASSUME PubSubInit PROVE AbstractChannel!ChannelInit
    OBVIOUS
  <2>1. ASSUME NEW s \in Subscribers
        PROVE  feedOf[s] = feedWith("none", 0, 0, FALSE)
    <3>1. iterator[s] = NoIterator /\ received[s] = <<>>
      BY DEF PubSubInit
    <3>2. Len(owed(NoIterator, <<>>)) = 0 /\ 0 + 0 = 0
      BY NoIteratorFields DEF owed
    <3>3. QED
      BY <3>1, <3>2, FeedOf, NoIteratorFields
  <2>2. QED
    BY <2>1 DEF PubSubInit, AbstractChannel!ChannelInit, AbstractChannel!NoFeed,
                AbstractChannel!NoTopic, feedOf, feedWith
<1>2. QED
  BY <1>1, StepRefines, FeedInductive, PTL
  DEF PubSubSpec, ImplementsChannel, AbstractChannel!ChannelSpec

-----------------------------------------------------------------------------
(* The rate limit of coaching. *)

\* When the time of a window begins and is over.
startOf(w) == w * WindowSeconds
endOf(w) == startOf(w) + WindowSeconds

\* A check that is counted and may let its request through, or did.
isCounted(ck) == ck.decision \in {"none", "allowed"} /\ ck.count > 0

\* A check belongs to the window of the tick it began in; only one that was
\* counted is decided by its number.
isRegular(ck) ==
  /\ ck.cmd = "none" => ck = NoCheck
  /\ ck.cmd # "none" => startOf(ck.window) <= ck.since /\ ck.since < endOf(ck.window)
  /\ ck.decision = "allowed" => ck.cmd = "done" /\ ck.count \in 1..Limit
  /\ ck.cmd \in {"expire", "done"} /\ ck.decision = "none" => ck.count > 0

\* Nobody waits longer than a tick.
isPrompt(ck) ==
  ck.cmd # "none" => ck.since <= now /\ (ck.decision = "none" => now <= ck.since + 1)

\* A key outlives its window, by a tick at least.
LifetimeInv == \A w \in Window : counter[w].expires > endOf(w)

RegularInv == \A r \in Requests : isRegular(check[r]) /\ isPrompt(check[r])

\* As long as a window's counter cannot be gone, it is ahead of whoever it counted.
AheadInv ==
  \A r \in Requests :
    isCounted(check[r]) /\ now <= endOf(check[r].window) =>
      check[r].count <= counter[check[r].window].count

\* No two of them got the same answer to INCR.
NumberedInv ==
  \A r, s \in Requests :
    isCounted(check[r]) /\ isCounted(check[s]) /\ check[r].window = check[s].window
      /\ check[r].count = check[s].count => r = s

LimiterInv == LimiterTypeOK /\ LifetimeInv /\ RegularInv /\ AheadInv /\ NumberedInv

\* A name that keeps the field out of the provers' sight.
wasAsked(q) == q.asked

AskedInv == \A r \in Requests : wasAsked(query[r]) => admitted(r)

SpendInv == LimiterInv /\ query \in [Requests -> Query] /\ AskedInv

-----------------------------------------------------------------------------
\* Windows as spans of ticks.
LEMMA WindowStarts ==
  ASSUME NEW w \in Window
  PROVE  w \in Nat /\ startOf(w) \in Nat /\ startOf(w) <= MaxNow
<1>1. MaxNow \in Nat /\ WindowSeconds \in Nat \ {0}
  BY RateLimiterAssumption
<1>2. PICK q \in Nat : q = MaxNow \div WindowSeconds /\ WindowSeconds * q <= MaxNow
  BY <1>1
<1>3. w \in Nat /\ w <= q
  BY <1>2 DEF Window
<1>4. w * WindowSeconds <= WindowSeconds * q
  BY <1>1, <1>2, <1>3
<1>5. w * WindowSeconds \in Nat
  BY <1>1, <1>3
<1>6. QED
  BY <1>1, <1>2, <1>3, <1>4, <1>5 DEF startOf

\* A tick is within the span of its window.
LEMMA WindowOfTick ==
  ASSUME NEW n \in 0..MaxNow
  PROVE  /\ n \div WindowSeconds \in Window
         /\ startOf(n \div WindowSeconds) <= n
         /\ n < endOf(n \div WindowSeconds)
<1>1. MaxNow \in Nat /\ WindowSeconds \in Nat \ {0} /\ n \in Nat
  BY RateLimiterAssumption
<1>2. PICK q \in Nat : q = MaxNow \div WindowSeconds /\ MaxNow < WindowSeconds * q + WindowSeconds
  BY <1>1
<1>3. PICK k \in Nat : /\ k = n \div WindowSeconds
                       /\ WindowSeconds * k <= n /\ n < WindowSeconds * k + WindowSeconds
  BY <1>1
<1>4. k <= q
  <2>1. ASSUME k > q PROVE FALSE
    <3>1. WindowSeconds * k >= WindowSeconds * (q + 1)
      BY <1>1, <1>2, <1>3, <2>1
    <3>2. WindowSeconds * (q + 1) = WindowSeconds * q + WindowSeconds
      BY <1>1, <1>2
    <3>3. QED
      BY <1>1, <1>2, <1>3, <3>1, <3>2
  <2>2. QED
    BY <1>2, <1>3, <2>1
<1>5. k \in Window
  BY <1>2, <1>3, <1>4 DEF Window
<1>6. k * WindowSeconds = WindowSeconds * k
  BY <1>1, <1>3
<1>7. QED
  BY <1>3, <1>5, <1>6 DEF startOf, endOf

\* A key without a lifetime outlives every window.
LEMMA Ends ==
  ASSUME NEW w \in Window
  PROVE  endOf(w) \in Nat /\ endOf(w) < Never
<1>1. startOf(w) \in Nat /\ startOf(w) <= MaxNow
  BY WindowStarts
<1>2. QED
  BY <1>1, RateLimiterAssumption DEF endOf, Never

\* Initially nothing is counted and nobody was asked.
LEMMA InitSpendInv == CoachingInit => SpendInv
<1> SUFFICES ASSUME CoachingInit PROVE SpendInv
  OBVIOUS
<1> USE DEF CoachingInit, LimiterInit
<1>1. 0 \in Window
  <2>1. 0 \in 0..MaxNow
    BY RateLimiterAssumption
  <2>2. 0 \div WindowSeconds = 0
    BY RateLimiterAssumption
  <2>3. QED
    BY <2>1, <2>2, WindowOfTick
<1>2. Never \in Nat
  BY RateLimiterAssumption DEF Never
<1>3. NoCheck \in Check
  BY <1>1, RateLimiterAssumption DEF NoCheck, Check
<1>4. LimiterTypeOK
  BY <1>2, <1>3, RateLimiterAssumption DEF LimiterTypeOK, NoKey
<1>5. LifetimeInv
  BY <1>2, Ends DEF LifetimeInv, NoKey
<1>6. RegularInv
  BY DEF RegularInv, isRegular, isPrompt, NoCheck
<1>7. AheadInv /\ NumberedInv
  BY DEF AheadInv, NumberedInv, isCounted, NoCheck
<1>8. query \in [Requests -> Query]
  BY Zenon DEF Query
<1>9. AskedInv
  BY Zenon DEF AskedInv, wasAsked
<1>10. QED
  BY <1>4, <1>5, <1>6, <1>7, <1>8, <1>9 DEF SpendInv, LimiterInv

\* A request comes in and takes the window of the moment.
LEMMA ArriveStep ==
  ASSUME LimiterInv, NEW r \in Requests, Arrive(r)
  PROVE  LimiterInv'
<1> USE DEF LimiterInv, Arrive
<1>0. now \in 0..MaxNow /\ now \in Nat
  BY RateLimiterAssumption DEF LimiterTypeOK
<1>1. PICK ck : ck = [NoCheck EXCEPT !.cmd = "incr", !.since = now,
                                     !.window = now \div WindowSeconds]
  OBVIOUS
<1>2. ck = [cmd |-> "incr", window |-> now \div WindowSeconds, since |-> now, count |-> 0,
            decision |-> "none"]
  BY <1>1 DEF NoCheck
<1>3. now \div WindowSeconds \in Window
  BY <1>0, WindowOfTick
<1>4. ck \in Check
  BY <1>0, <1>2, <1>3 DEF Check
<1>5. check' = [check EXCEPT ![r] = ck] /\ UNCHANGED <<now, counter>>
  BY <1>1
<1>6. LimiterTypeOK'
  BY <1>4, <1>5 DEF LimiterTypeOK
<1>7. LifetimeInv'
  BY <1>5 DEF LifetimeInv
<1>8. isRegular(ck) /\ isPrompt(ck)
  BY <1>0, <1>2, WindowOfTick DEF isRegular, isPrompt, NoCheck
<1>9. RegularInv'
  BY <1>5, <1>8 DEF RegularInv, LimiterTypeOK, isPrompt
<1>10. ~isCounted(ck)
  BY <1>2 DEF isCounted
<1>11. AheadInv'
  BY <1>5, <1>10 DEF AheadInv, LimiterTypeOK
<1>12. NumberedInv'
  BY <1>5, <1>10 DEF NumberedInv, LimiterTypeOK
<1>13. QED
  BY <1>6, <1>7, <1>9, <1>11, <1>12

\* INCR: whoever can still be let through finds the key it was counted with there.
LEMMA IncrStep ==
  ASSUME LimiterInv, NEW r \in Requests, Incr(r)
  PROVE  LimiterInv'
<1> USE DEF LimiterInv
<1>1. PICK w : w = check[r].window
  OBVIOUS
<1>2. PICK n : n = counter[w].count + 1
  OBVIOUS
<1>3. check[r] \in Check /\ w \in Window /\ counter[w] \in [count : Nat, expires : 0..Never]
  BY <1>1 DEF LimiterTypeOK, Check
<1>4. n \in Nat /\ n > 0
  BY <1>2, <1>3
<1>5. PICK ck : ck = [check[r] EXCEPT !.count = n, !.cmd = IF n = 1 THEN "expire" ELSE "done"]
  OBVIOUS
<1>6. /\ check[r].cmd = "incr" /\ now' = now
      /\ check' = [check EXCEPT ![r] = ck]
      /\ counter' = [counter EXCEPT ![w].count = n]
  BY <1>1, <1>2, <1>5 DEF Incr, LimiterTypeOK
<1>7. /\ ck.count = n /\ ck.cmd \in {"expire", "done"} /\ ck.window = w
      /\ ck.since = check[r].since /\ ck.decision = check[r].decision
      /\ ck \in Check
  BY <1>1, <1>3, <1>4, <1>5 DEF Check
<1>8. /\ counter'[w].count = n /\ counter'[w].expires = counter[w].expires
      /\ \A v \in Window : v # w => counter'[v] = counter[v]
      /\ counter' \in [Window -> [count : Nat, expires : 0..Never]]
  BY <1>3, <1>4, <1>6 DEF LimiterTypeOK
<1>9. LimiterTypeOK'
  BY <1>6, <1>7, <1>8 DEF LimiterTypeOK
<1>10. LifetimeInv'
  BY <1>8 DEF LifetimeInv
<1>11. isRegular(check[r]) /\ isPrompt(check[r])
  BY DEF RegularInv
<1>12. isRegular(ck) /\ isPrompt(ck)
  BY <1>4, <1>6, <1>7, <1>11, <1>1 DEF isRegular, isPrompt
<1>13. RegularInv'
  BY <1>6, <1>12 DEF RegularInv, LimiterTypeOK, isPrompt
<1>14. check' \in [Requests -> Check] /\ check'[r] = ck
       /\ \A s \in Requests : s # r => check'[s] = check[s]
  BY <1>6, <1>9 DEF LimiterTypeOK
<1>15. AheadInv'
  <2> SUFFICES ASSUME NEW s \in Requests, isCounted(check'[s]), now' <= endOf(check'[s].window)
               PROVE  check'[s].count <= counter'[check'[s].window].count
    BY DEF AheadInv
  <2>1. CASE s = r
    BY <2>1, <1>14, <1>7, <1>8, <1>4
  <2>2. CASE s # r
    <3>1. check'[s] = check[s] /\ check[s] \in Check
      BY <2>2, <1>14 DEF LimiterTypeOK
    <3>2. check[s].count <= counter[check[s].window].count
      BY <3>1, <1>6 DEF AheadInv
    <3>3. check[s].window \in Window /\ check[s].count \in Nat
      BY <3>1 DEF Check
    <3>4. QED
      BY <3>1, <3>2, <3>3, <1>2, <1>3, <1>8
  <2>3. QED
    BY <2>1, <2>2
<1>16. isCounted(ck) => now <= endOf(w)
  <2> SUFFICES ASSUME isCounted(ck) PROVE now <= endOf(w)
    OBVIOUS
  <2>1. check[r].decision = "none"
    BY <1>6, <1>7, <1>11 DEF isCounted, isRegular
  <2>2. now <= check[r].since + 1 /\ check[r].since < endOf(w)
    BY <2>1, <1>1, <1>6, <1>11 DEF isPrompt, isRegular
  <2>3. endOf(w) \in Nat /\ check[r].since \in Nat /\ now \in Nat
    BY <1>3, Ends, RateLimiterAssumption DEF Check, LimiterTypeOK
  <2>4. QED
    BY <2>2, <2>3
<1>17. ASSUME NEW s \in Requests, s # r, isCounted(ck), isCounted(check[s]), check[s].window = w
       PROVE  check[s].count # n
  <2>1. check[s].count <= counter[w].count
    BY <1>16, <1>17 DEF AheadInv
  <2>2. check[s].count \in Nat
    BY DEF LimiterTypeOK, Check
  <2>3. QED
    BY <2>1, <2>2, <1>2, <1>3
<1>18. NumberedInv'
  BY <1>7, <1>14, <1>17 DEF NumberedInv
<1>19. QED
  BY <1>9, <1>10, <1>13, <1>15, <1>18


\* EXPIRE, however late: the lifetime it sets reaches beyond the window.
LEMMA ExpireStep ==
  ASSUME LimiterInv, NEW r \in Requests, Expire(r)
  PROVE  LimiterInv'
<1> USE DEF LimiterInv
<1>1. PICK w : w = check[r].window
  OBVIOUS
<1>2. PICK e : e = now + lifetime
  OBVIOUS
<1>3. check[r] \in Check /\ w \in Window /\ counter[w] \in [count : Nat, expires : 0..Never]
  BY <1>1 DEF LimiterTypeOK, Check
<1>4. PICK ck : ck = [check[r] EXCEPT !.cmd = "done"]
  OBVIOUS
<1>5. /\ check[r].cmd = "expire" /\ now' = now
      /\ check' = [check EXCEPT ![r] = ck]
      /\ counter' = [counter EXCEPT ![w].expires = e]
  BY <1>1, <1>2, <1>4 DEF Expire, LimiterTypeOK
<1>6. /\ ck.count = check[r].count /\ ck.cmd = "done" /\ ck.window = w
      /\ ck.since = check[r].since /\ ck.decision = check[r].decision
      /\ ck \in Check
  BY <1>1, <1>3, <1>4 DEF Check
<1>7. isRegular(check[r]) /\ isPrompt(check[r])
  BY DEF RegularInv
<1>8. e \in 0..Never /\ e > endOf(w)
  <2>1. startOf(w) <= check[r].since /\ check[r].since <= now
    BY <1>1, <1>5, <1>7 DEF isRegular, isPrompt
  <2>2. check[r].since \in Nat /\ now \in 0..MaxNow /\ startOf(w) \in Nat
    BY <1>3, WindowStarts, RateLimiterAssumption DEF Check, LimiterTypeOK
  <2>3. QED
    BY <1>2, <2>1, <2>2, RateLimiterAssumption DEF lifetime, endOf, Never
<1>9. /\ counter'[w].expires = e /\ counter'[w].count = counter[w].count
      /\ \A v \in Window : v # w => counter'[v] = counter[v]
      /\ counter' \in [Window -> [count : Nat, expires : 0..Never]]
  BY <1>3, <1>5, <1>8 DEF LimiterTypeOK
<1>10. LimiterTypeOK'
  BY <1>5, <1>6, <1>9 DEF LimiterTypeOK
<1>11. LifetimeInv'
  BY <1>8, <1>9 DEF LifetimeInv
<1>12. isRegular(ck) /\ isPrompt(ck)
  BY <1>5, <1>6, <1>7, <1>1 DEF isRegular, isPrompt
<1>13. check' \in [Requests -> Check] /\ check'[r] = ck
       /\ \A s \in Requests : s # r => check'[s] = check[s]
  BY <1>5, <1>10 DEF LimiterTypeOK
<1>14. RegularInv'
  BY <1>5, <1>12, <1>13 DEF RegularInv, isPrompt
<1>15. \A s \in Requests : /\ check'[s].count = check[s].count
                           /\ check'[s].window = check[s].window
                           /\ check'[s].decision = check[s].decision
  BY <1>1, <1>6, <1>13
<1>16. \A v \in Window : counter'[v].count = counter[v].count
  BY <1>9
<1>17. AheadInv'
  BY <1>5, <1>15, <1>16 DEF AheadInv, isCounted, LimiterTypeOK, Check
<1>18. NumberedInv'
  BY <1>15 DEF NumberedInv, isCounted
<1>19. QED
  BY <1>10, <1>11, <1>14, <1>17, <1>18

\* A step that only decides or ends a check, and admits nobody with a number
\* beyond the limit.
LEMMA SettleStep ==
  ASSUME LimiterInv, NEW r \in Requests, NEW cmd, NEW decision,
         cmd \in {"done"} \cup {check[r].cmd}, check[r].cmd # "none",
         decision \in {"none", "allowed", "rejected", "failedOpen", "died"},
         check[r].decision # "none" => decision = check[r].decision,
         decision = "none" => cmd = check[r].cmd,
         decision = "allowed" /\ check[r].decision = "none" =>
           check[r].cmd = "done" /\ check[r].count <= Limit,
         check' = [check EXCEPT ![r].cmd = cmd, ![r].decision = decision],
         UNCHANGED <<now, counter>>
  PROVE  LimiterInv'
<1> USE DEF LimiterInv
<1>1. check[r] \in Check
  BY DEF LimiterTypeOK
<1>2. PICK ck : ck = [check[r] EXCEPT !.cmd = cmd, !.decision = decision]
  OBVIOUS
<1>3. /\ ck.count = check[r].count /\ ck.cmd = cmd /\ ck.window = check[r].window
      /\ ck.since = check[r].since /\ ck.decision = decision
      /\ ck \in Check
  BY <1>1, <1>2 DEF Check
<1>4. check' = [check EXCEPT ![r] = ck]
  BY <1>2 DEF LimiterTypeOK
<1>5. check' \in [Requests -> Check] /\ check'[r] = ck
       /\ \A s \in Requests : s # r => check'[s] = check[s]
  BY <1>3, <1>4 DEF LimiterTypeOK
<1>6. isRegular(check[r]) /\ isPrompt(check[r])
  BY DEF RegularInv
<1>7. isRegular(ck) /\ isPrompt(ck)
  BY <1>1, <1>3, <1>6, RateLimiterAssumption DEF isRegular, isPrompt, Check
<1>8. isCounted(ck) => isCounted(check[r])
  BY <1>3 DEF isCounted
<1>9. LimiterTypeOK'
  BY <1>5 DEF LimiterTypeOK
<1>10. LifetimeInv'
  BY DEF LifetimeInv
<1>11. RegularInv'
  BY <1>5, <1>7 DEF RegularInv, isPrompt
<1>12. \A s \in Requests : /\ check'[s].count = check[s].count
                           /\ check'[s].window = check[s].window
                           /\ isCounted(check'[s]) => isCounted(check[s])
  BY <1>3, <1>5, <1>8
<1>13. AheadInv'
  BY <1>12 DEF AheadInv
<1>14. NumberedInv'
  BY <1>12 DEF NumberedInv
<1>15. QED
  BY <1>9, <1>10, <1>11, <1>13, <1>14

\* The limit decides.
LEMMA LimitStep ==
  ASSUME LimiterInv, NEW r \in Requests, Decide(r)
  PROVE  LimiterInv'
<1>1. check[r] \in Check
  BY DEF LimiterInv, LimiterTypeOK
<1>2. PICK d : d = IF check[r].count > Limit THEN "rejected" ELSE "allowed"
  OBVIOUS
<1>3. check' = [check EXCEPT ![r].cmd = check[r].cmd, ![r].decision = d]
  BY <1>1, <1>2 DEF Decide, LimiterInv, LimiterTypeOK, Check
<1>4. check[r].cmd = "done" /\ check[r].decision = "none" /\ UNCHANGED <<now, counter>>
  BY DEF Decide, undecided
<1>5. d = "allowed" => check[r].count <= Limit
  BY <1>1, <1>2, RateLimiterAssumption DEF Check
<1>6. d \in {"rejected", "allowed"}
  BY <1>2
<1>7. QED
  BY <1>3, <1>4, <1>5, <1>6, SettleStep

\* A check that waited too long fails open.
LEMMA TimeOutStep ==
  ASSUME LimiterInv, NEW r \in Requests, TimeOut(r)
  PROVE  LimiterInv'
<1>1. check' = [check EXCEPT ![r].cmd = check[r].cmd, ![r].decision = "failedOpen"]
  BY DEF TimeOut, LimiterInv, LimiterTypeOK, Check
<1>2. check[r].cmd # "none" /\ check[r].decision = "none" /\ UNCHANGED <<now, counter>>
  BY DEF TimeOut, undecided
<1>3. QED
  BY <1>1, <1>2, SettleStep

\* Redis refuses.
LEMMA RedisErrorStep ==
  ASSUME LimiterInv, NEW r \in Requests, RedisError(r)
  PROVE  LimiterInv'
<1>1. /\ check' = [check EXCEPT ![r].cmd = "done", ![r].decision = "failedOpen"]
      /\ check[r].cmd # "none" /\ check[r].decision = "none" /\ UNCHANGED <<now, counter>>
  BY DEF RedisError, undecided
<1>2. QED
  BY <1>1, SettleStep

\* The process dies.
LEMMA DieStep ==
  ASSUME LimiterInv, NEW r \in Requests, Die(r)
  PROVE  LimiterInv'
<1>1. check[r] \in Check
  BY DEF LimiterInv, LimiterTypeOK
<1>2. PICK d : d = IF check[r].decision = "none" THEN "died" ELSE check[r].decision
  OBVIOUS
<1>3. check' = [check EXCEPT ![r].cmd = "done", ![r].decision = d]
  BY <1>1, <1>2 DEF Die, LimiterInv, LimiterTypeOK, Check
<1>4. check[r].cmd # "none" /\ UNCHANGED <<now, counter>>
  BY DEF Die
<1>5. /\ d \in {"allowed", "rejected", "failedOpen", "died"}
      /\ check[r].decision # "none" => d = check[r].decision
      /\ check[r].decision = "none" => d = "died"
  BY <1>1, <1>2 DEF Check
<1>6. QED
  BY <1>3, <1>4, <1>5, SettleStep

\* A tick passes: keys that go belong to windows that nobody waits in.
LEMMA PassStep ==
  ASSUME LimiterInv, Pass
  PROVE  LimiterInv'
<1> USE DEF LimiterInv
<1>1. now \in Nat /\ now' = now + 1 /\ now' \in 0..MaxNow /\ check' = check
  BY RateLimiterAssumption DEF Pass, LimiterTypeOK
<1>2. \A v \in Window : counter'[v] = IF counter[v].expires <= now' THEN NoKey ELSE counter[v]
  BY DEF Pass
<1>3. Never \in Nat
  BY RateLimiterAssumption DEF Never
<1>4. NoKey \in [count : Nat, expires : 0..Never] /\ NoKey.expires = Never
  BY <1>3 DEF NoKey
<1>5. counter' \in [Window -> [count : Nat, expires : 0..Never]]
  BY <1>4 DEF Pass, LimiterTypeOK
<1>6. LimiterTypeOK'
  BY <1>1, <1>5 DEF LimiterTypeOK
<1>7. LifetimeInv'
  <2> SUFFICES ASSUME NEW v \in Window PROVE counter'[v].expires > endOf(v)
    BY DEF LifetimeInv
  <2>1. counter[v].expires > endOf(v)
    BY DEF LifetimeInv
  <2>2. Never > endOf(v)
    BY Ends, <1>3
  <2>3. QED
    BY <2>1, <2>2, <1>2, <1>4
<1>8. RegularInv'
  <2> SUFFICES ASSUME NEW s \in Requests PROVE isRegular(check'[s]) /\ isPrompt(check[s])'
    BY DEF RegularInv
  <2>1. isRegular(check[s]) /\ isPrompt(check[s]) /\ check[s] \in Check
    BY DEF RegularInv, LimiterTypeOK
  <2>2. check[s].cmd # "none" /\ check[s].decision = "none" => check[s].since = now
    BY DEF Pass, undecided
  <2>3. check[s].since \in Nat
    BY <2>1 DEF Check
  <2>4. QED
    BY <2>1, <2>2, <2>3, <1>1 DEF isPrompt
<1>9. AheadInv'
  <2> SUFFICES ASSUME NEW s \in Requests, isCounted(check[s]), now' <= endOf(check[s].window)
               PROVE  check[s].count <= counter'[check[s].window].count
    BY <1>1 DEF AheadInv
  <2>1. check[s].window \in Window /\ check[s].count \in Nat
    BY DEF LimiterTypeOK, Check
  <2>2. PICK w \in Window : w = check[s].window
    BY <2>1
  <2>3. endOf(w) \in Nat /\ counter[w].expires > endOf(w) /\ counter[w].expires \in Nat
    BY Ends, <1>3 DEF LifetimeInv, LimiterTypeOK
  <2>4. ~(counter[w].expires <= now') /\ now <= endOf(w)
    BY <2>2, <2>3, <1>1
  <2>5. counter'[w] = counter[w]
    BY <1>2, <2>4
  <2>6. check[s].count <= counter[w].count
    BY <2>2, <2>4 DEF AheadInv
  <2>7. QED
    BY <2>2, <2>5, <2>6
<1>10. NumberedInv'
  BY <1>1 DEF NumberedInv
<1>11. QED
  BY <1>6, <1>7, <1>8, <1>9, <1>10

\* Every step of the limiter.
LEMMA LimiterNextInv ==
  ASSUME LimiterInv, LimiterNext
  PROVE  LimiterInv'
BY ArriveStep, IncrStep, ExpireStep, LimitStep, TimeOutStep, RedisErrorStep, DieStep, PassStep
   DEF LimiterNext

\* Nothing happens to the limiter.
LEMMA LimiterStays ==
  ASSUME LimiterInv, UNCHANGED limiterVars
  PROVE  LimiterInv'
BY DEF LimiterInv, LimiterTypeOK, LifetimeInv, RegularInv, AheadInv, NumberedInv, isPrompt,
       limiterVars

\* What was decided stays decided.
LEMMA DecisionsStand ==
  ASSUME LimiterInv, LimiterNext, NEW r \in Requests, check[r].decision # "none"
  PROVE  check'[r].decision = check[r].decision
<1>1. check \in [Requests -> Check] /\ isRegular(check[r])
  BY DEF LimiterInv, LimiterTypeOK, RegularInv
<1>2. CASE Pass
  BY <1>2 DEF Pass
<1>3. ASSUME NEW s \in Requests, s # r,
             \/ Arrive(s) \/ Incr(s) \/ Expire(s) \/ Decide(s)
             \/ TimeOut(s) \/ RedisError(s) \/ Die(s)
      PROVE check'[r] = check[r]
  BY <1>1, <1>3 DEF Arrive, Incr, Expire, Decide, TimeOut, RedisError, Die
<1>4. ~Arrive(r) /\ ~Decide(r) /\ ~TimeOut(r) /\ ~RedisError(r)
  BY DEF Arrive, Decide, TimeOut, RedisError, undecided, NoCheck
<1>5. CASE Incr(r) \/ Expire(r) \/ Die(r)
  <2>1. CASE Incr(r)
    BY <1>1, <2>1 DEF Incr, Check
  <2>2. CASE Expire(r)
    BY <1>1, <2>2 DEF Expire, Check
  <2>3. CASE Die(r)
    BY <1>1, <2>3 DEF Die, Check
  <2>4. QED
    BY <1>5, <2>1, <2>2, <2>3
<1>6. QED
  BY <1>2, <1>3, <1>4, <1>5 DEF LimiterNext

\* A query may move on by itself, and is asked only if it was admitted.
LEMMA QueryStep ==
  ASSUME SpendInv, NEW r \in Requests, NEW q \in Query, query' = [query EXCEPT ![r] = q],
         wasAsked(q) => wasAsked(query[r]) \/ admitted(r), UNCHANGED limiterVars
  PROVE  SpendInv'
<1>1. query \in [Requests -> Query]
  BY DEF SpendInv
<1>2. /\ query' \in [Requests -> Query] /\ query'[r] = q
      /\ \A s \in Requests : s # r => query'[s] = query[s]
  BY <1>1
<1>3. check' = check
  BY DEF limiterVars
<1>4. AskedInv'
  <2> SUFFICES ASSUME NEW s \in Requests, wasAsked(query'[s]) PROVE admitted(s)'
    BY DEF AskedInv
  <2>1. admitted(s)
    BY <1>2 DEF SpendInv, AskedInv
  <2>2. QED
    BY <2>1, <1>3 DEF admitted
<1>5. LimiterInv'
  BY LimiterStays DEF SpendInv
<1>6. QED
  BY <1>2, <1>4, <1>5 DEF SpendInv

\* The queries in their ways of moving on.
LEMMA QueryMoves ==
  ASSUME NEW q \in Query, NEW answer \in {"none", "insight", "fallback", "error"},
         NEW at \in {"guard", "fetching", "body", "answered"}
  PROVE  /\ [q EXCEPT !.at = at, !.answer = answer] \in Query
         /\ wasAsked([q EXCEPT !.at = at, !.answer = answer]) <=> wasAsked(q)
         /\ [q EXCEPT !.at = at] \in Query
         /\ wasAsked([q EXCEPT !.at = at]) <=> wasAsked(q)
         /\ [q EXCEPT !.at = at, !.asked = TRUE] \in Query
BY Zenon DEF Query, wasAsked

\* A query is answered.
LEMMA AnswerStep ==
  ASSUME SpendInv, NEW r \in Requests, NEW answer \in {"insight", "fallback", "error"},
         answerWith(r, answer)
  PROVE  SpendInv'
<1>1. query[r] \in Query
  BY DEF SpendInv
<1>2. PICK q : q = [query[r] EXCEPT !.at = "answered", !.answer = answer]
  OBVIOUS
<1>3. q \in Query /\ (wasAsked(q) <=> wasAsked(query[r]))
  BY <1>1, <1>2, QueryMoves, Zenon
<1>4. query' = [query EXCEPT ![r] = q] /\ UNCHANGED limiterVars
  BY <1>2, Zenon DEF answerWith, SpendInv
<1>5. QED
  BY <1>3, <1>4, QueryStep

\* The model is asked, or there is no key and the fallback answers.
LEMMA ReadModelStep ==
  ASSUME SpendInv, NEW r \in Requests, ReadModel(r)
  PROVE  SpendInv'
<1>1. CASE ~ApiKeySet
  <2>1. answerWith(r, "fallback")
    BY <1>1, Zenon DEF ReadModel
  <2>2. QED
    BY <2>1, AnswerStep
<1>2. CASE ApiKeySet
  <2>1. query[r] \in Query
    BY DEF SpendInv
  <2>2. PICK q : q = [query[r] EXCEPT !.at = "fetching", !.asked = TRUE]
    OBVIOUS
  <2>3. q \in Query
    BY <2>1, <2>2, QueryMoves, Zenon
  <2>4. admitted(r) /\ query' = [query EXCEPT ![r] = q] /\ UNCHANGED limiterVars
    BY <1>2, <2>2, Zenon DEF ReadModel, SpendInv
  <2>5. QED
    BY <2>3, <2>4, QueryStep
<1>3. QED
  BY <1>1, <1>2

\* The headers are there.
LEMMA RespondStep ==
  ASSUME SpendInv, NEW r \in Requests, RespondOk(r)
  PROVE  SpendInv'
<1>1. query[r] \in Query
  BY DEF SpendInv
<1>2. PICK q : q = [query[r] EXCEPT !.at = "body"]
  OBVIOUS
<1>3. q \in Query /\ (wasAsked(q) <=> wasAsked(query[r]))
  BY <1>1, <1>2, QueryMoves, Zenon
<1>4. query' = [query EXCEPT ![r] = q] /\ UNCHANGED limiterVars
  BY <1>2, Zenon DEF RespondOk, SpendInv
<1>5. QED
  BY <1>3, <1>4, QueryStep

\* Every step.
LEMMA CoachingNextInv ==
  ASSUME SpendInv, [CoachingNext]_coachingVars
  PROVE  SpendInv'
<1>1. CASE LimiterNext /\ UNCHANGED query
  <2>1. LimiterInv'
    BY <1>1, LimiterNextInv DEF SpendInv
  <2>2. query' \in [Requests -> Query]
    BY <1>1 DEF SpendInv
  <2>3. AskedInv'
    <3> SUFFICES ASSUME NEW r \in Requests, wasAsked(query[r]) PROVE admitted(r)'
      BY <1>1 DEF AskedInv
    <3>1. admitted(r)
      BY DEF SpendInv, AskedInv
    <3>2. check'[r].decision = check[r].decision
      BY <1>1, <3>1, DecisionsStand DEF SpendInv, admitted
    <3>3. QED
      BY <3>1, <3>2 DEF admitted
  <2>4. QED
    BY <2>1, <2>2, <2>3 DEF SpendInv
<1>2. CASE \E r \in Requests : \/ RefuseCaller(r) \/ ReadModel(r) \/ RespondOk(r)
                               \/ RespondNotOk(r) \/ ParseInsight(r) \/ Abort(r)
  <2>1. PICK r \in Requests : \/ RefuseCaller(r) \/ ReadModel(r) \/ RespondOk(r)
                              \/ RespondNotOk(r) \/ ParseInsight(r) \/ Abort(r)
    BY <1>2
  <2>2. CASE \E answer \in {"insight", "fallback", "error"} : answerWith(r, answer)
    BY <2>2, AnswerStep
  <2>3. CASE ReadModel(r)
    BY <2>3, ReadModelStep
  <2>4. CASE RespondOk(r)
    BY <2>4, RespondStep
  <2>5. QED
    BY <2>1, <2>2, <2>3, <2>4 DEF RefuseCaller, RespondNotOk, ParseInsight, Abort
<1>3. CASE UNCHANGED coachingVars
  <2>1. UNCHANGED limiterVars /\ query' = query /\ check' = check
    BY <1>3 DEF coachingVars, limiterVars
  <2>2. LimiterInv'
    BY <2>1, LimiterStays DEF SpendInv
  <2>3. AskedInv'
    BY <2>1 DEF AskedInv, admitted, SpendInv
  <2>4. QED
    BY <2>1, <2>2, <2>3 DEF SpendInv
<1>4. QED
  BY <1>1, <1>2, <1>3 DEF CoachingNext

\* Inductive, hence an invariant.
LEMMA CoachingInductive == CoachingSpec => []SpendInv
BY InitSpendInv, CoachingNextInv, PTL DEF CoachingSpec

\* The type invariant of the rate limiter and of coaching.
THEOREM CoachingTypeCorrect == CoachingSpec => []CoachingTypeOK
<1>1. SpendInv => CoachingTypeOK
  BY DEF SpendInv, LimiterInv, CoachingTypeOK
<1>2. QED
  BY <1>1, CoachingInductive, PTL

\* The calls of a window have different numbers, none beyond the limit.
LEMMA CallsAreNumbered == SpendInv => SpendIsBounded
<1> SUFFICES ASSUME SpendInv, NEW w \in Window
    PROVE  Cardinality({r \in Requests :
             query[r].asked /\ check[r].window = w /\ check[r].decision # "failedOpen"}) <= Limit
  BY DEF SpendIsBounded
<1>1. PICK calls : calls = {r \in Requests :
             query[r].asked /\ check[r].window = w /\ check[r].decision # "failedOpen"}
  OBVIOUS
<1>2. \A r \in calls : r \in Requests /\ wasAsked(query[r]) /\ check[r].window = w
                       /\ check[r].decision # "failedOpen"
  BY <1>1, Zenon DEF wasAsked
<1>3. \A r \in calls : check[r].decision = "allowed"
  BY <1>2 DEF SpendInv, AskedInv, admitted
<1>4. \A r \in calls : check[r].count \in 1..Limit /\ isCounted(check[r])
  BY <1>2, <1>3 DEF SpendInv, LimiterInv, RegularInv, isRegular, isCounted
<1>5. PICK number : number = [r \in calls |-> check[r].count]
  OBVIOUS
<1>6. number \in [calls -> 1..Limit]
  BY <1>4, <1>5
<1>7. \A r, s \in calls : number[r] = number[s] => r = s
  BY <1>2, <1>4, <1>5 DEF SpendInv, LimiterInv, NumberedInv
<1>8. number \in Injection(calls, 1..Limit)
  BY <1>6, <1>7 DEF Injection, IsInjective
<1>9. Limit \in Nat /\ Limit # 0
  BY RateLimiterAssumption
<1>10. IsFiniteSet(1..Limit) /\ Cardinality(1..Limit) = Limit
  BY <1>9, FS_Interval
<1>11. Cardinality(calls) <= Limit
  BY <1>8, <1>10, FS_Injection
<1>12. QED
  BY <1>1, <1>11

\* The calls to the language model that were admitted in one window stay within the
\* limit: for any number of requests, any limit and length of the window, whatever
\* Redis does and whenever.
THEOREM SpendIsBoundedHolds == CoachingSpec => []SpendIsBounded
BY CoachingInductive, CallsAreNumbered, PTL

-----------------------------------------------------------------------------
(* Scans of a list that others write to. *)

\* A name that keeps the field out of the provers' sight.
hasMoved(sc) == sc.moved

\* Lists by positions: i is one of them.
isAmong(list, i) == \E j \in 1..Len(list) : list[j] = i

\* What a client has behind it whose cursor is c.
isBehind(list, c, i) ==
  c # NoCursor /\ \E j, h \in 1..Len(list) : j <= h /\ list[j] = i /\ list[h] = c

isWithoutRepetition(list) == \A j, h \in 1..Len(list) : list[j] = list[h] => j = h

\* Of the rows, the cursor, what was seen, and the rows at the start: what is
\* behind the client it has seen, except for newcomers.
isSoundScan(list, c, seen, present) ==
  /\ isWithoutRepetition(list) /\ isWithoutRepetition(seen)
  /\ \A n \in 1..Len(seen) : isBehind(list, c, seen[n])
  /\ \A i \in present : isAmong(list, i) /\ (isBehind(list, c, i) => isAmong(seen, i))

\* What InsertAt and RemoveAt make of a list.
isInsertion(s, k, e, t) ==
  /\ Len(t) = Len(s) + 1 /\ t[k] = e
  /\ \A j \in 1..(k - 1) : t[j] = s[j]
  /\ \A j \in k..Len(s) : t[j + 1] = s[j]

\* What \o makes of two lists.
isJoin(a, b, t) ==
  /\ Len(t) = Len(a) + Len(b)
  /\ \A j \in 1..(Len(a) + Len(b)) : t[j] = IF j <= Len(a) THEN a[j] ELSE b[j - Len(a)]

isRemoval(s, h, t) ==
  /\ Len(t) = Len(s) - 1
  /\ \A j \in 1..(h - 1) : t[j] = s[j]
  /\ \A j \in h..(Len(s) - 1) : t[j] = s[j + 1]

\* The cursor is one of the rows.
CursorInv == scan.after # NoCursor => isAmong(rows, scan.after)

\* Before the scan there is nothing.
IdleInv == scan.at = "idle" => scan.seen = <<>> /\ scan.after = NoCursor /\ scan.present = {}

\* On the way.
ScanInv == ~hasMoved(scan) => isSoundScan(rows, scan.after, scan.seen, scan.present)

\* At the end nothing is missing.
EndInv ==
  scan.at = "done" /\ ~hasMoved(scan) => \A i \in scan.present : isAmong(scan.seen, i)

PagesInv == PagingTypeOK /\ CursorInv /\ IdleInv /\ ScanInv /\ EndInv

-----------------------------------------------------------------------------
\* The helpers on lists, by positions.
LEMMA Joined ==
  ASSUME NEW S, NEW a \in Seq(S), NEW b \in Seq(S), NEW t, t = a \o b
  PROVE  t \in Seq(S) /\ isJoin(a, b, t)
<1>1. PICK u : u = a \o b
  OBVIOUS
<1>2. /\ u \in Seq(S) /\ Len(u) = Len(a) + Len(b)
      /\ \A j \in 1..(Len(a) + Len(b)) : u[j] = IF j <= Len(a) THEN a[j] ELSE b[j - Len(a)]
  BY <1>1, ConcatProperties
<1>3. t = u
  BY <1>1
<1>4. QED
  BY <1>2, <1>3 DEF isJoin

\* InsertAt: those before the place stay, those after move up by one.
LEMMA Inserted ==
  ASSUME NEW S, NEW s \in Seq(S), NEW e \in S, NEW k \in 1..(Len(s) + 1),
         NEW t, t = InsertAt(s, k, e)
  PROVE  t \in Seq(S) /\ isInsertion(s, k, e, t)
<1>1. Len(s) \in Nat /\ \A j \in 1..Len(s) : s[j] \in S
  BY LenProperties, ElementOfSeq
<1>2. PICK a : a = SubSeq(s, 1, k - 1)
  OBVIOUS
<1>3. a \in Seq(S) /\ Len(a) = k - 1 /\ \A j \in 1..(k - 1) : a[j] = s[j]
  BY <1>1, <1>2, SubSeqProperties
<1>4. PICK b : b = SubSeq(s, k, Len(s))
  OBVIOUS
<1>5. b \in Seq(S) /\ Len(b) = Len(s) - k + 1 /\ \A j \in 1..(Len(s) - k + 1) : b[j] = s[k + j - 1]
  BY <1>1, <1>4, SubSeqProperties
<1>6. PICK m : m = <<e>>
  OBVIOUS
<1>7. m \in Seq(S) /\ Len(m) = 1 /\ m[1] = e
  BY <1>6
<1>8. PICK c : c = a \o m
  OBVIOUS
<1>9. c \in Seq(S) /\ Len(c) = k /\ c[k] = e /\ \A j \in 1..(k - 1) : c[j] = s[j]
  <2>0. c \in Seq(S) /\ isJoin(a, m, c)
    BY <1>3, <1>7, <1>8, Joined
  <2>1. /\ c \in Seq(S) /\ Len(c) = Len(a) + Len(m)
        /\ \A j \in 1..(Len(a) + Len(m)) : c[j] = IF j <= Len(a) THEN a[j] ELSE m[j - Len(a)]
    BY <2>0 DEF isJoin
  <2>2. Len(a) \in Nat /\ Len(m) = 1 /\ Len(a) + Len(m) = k /\ Len(a) = k - 1 /\ k - (k - 1) = 1
    BY <1>3, <1>7, <1>1
  <2>3. k \in 1..(Len(a) + Len(m)) /\ ~(k <= Len(a)) /\ k - Len(a) = 1
    BY <2>2, <1>1
  <2>4. c[k] = m[1]
    BY <2>1, <2>3
  <2>5. \A j \in 1..(k - 1) : c[j] = a[j]
    BY <2>1, <2>2
  <2>6. QED
    BY <2>1, <2>2, <2>4, <2>5, <1>3, <1>7
<1>10. t = c \o b
  BY <1>2, <1>4, <1>6, <1>8 DEF InsertAt
<1>11. /\ t \in Seq(S) /\ Len(t) = Len(s) + 1
       /\ \A j \in 1..(Len(s) + 1) : t[j] = IF j <= k THEN c[j] ELSE b[j - k]
  <2>0. t \in Seq(S) /\ isJoin(c, b, t)
    BY <1>5, <1>9, <1>10, Joined
  <2>1. /\ t \in Seq(S) /\ Len(t) = Len(c) + Len(b)
        /\ \A j \in 1..(Len(c) + Len(b)) : t[j] = IF j <= Len(c) THEN c[j] ELSE b[j - Len(c)]
    BY <2>0 DEF isJoin
  <2>2. Len(c) = k /\ Len(c) + Len(b) = Len(s) + 1
    BY <1>1, <1>5, <1>9
  <2>3. QED
    BY <2>1, <2>2
<1>12. \A j \in k..Len(s) : t[j + 1] = s[j]
  <2> TAKE j \in k..Len(s)
  <2>1. j + 1 \in 1..(Len(s) + 1) /\ ~(j + 1 <= k) /\ (j + 1) - k \in 1..(Len(s) - k + 1)
    BY <1>1
  <2>2. t[j + 1] = b[(j + 1) - k]
    BY <1>11, <2>1
  <2>3. b[(j + 1) - k] = s[k + ((j + 1) - k) - 1]
    BY <1>5, <2>1
  <2>4. k + ((j + 1) - k) - 1 = j
    BY <1>1
  <2>5. QED
    BY <2>2, <2>3, <2>4
<1>13. QED
  <2>1. k \in 1..(Len(s) + 1) /\ k <= k
    BY <1>1
  <2>2. t[k] = e
    BY <1>9, <1>11, <2>1
  <2>3. \A j \in 1..(k - 1) : j \in 1..(Len(s) + 1) /\ j <= k
    BY <1>1
  <2>4. \A j \in 1..(k - 1) : t[j] = s[j]
    BY <1>9, <1>11, <2>3
  <2>5. QED
    BY <1>11, <1>12, <2>2, <2>4 DEF isInsertion

\* RemoveAt: those after the place move down by one.
LEMMA Removed ==
  ASSUME NEW S, NEW s \in Seq(S), NEW h \in 1..Len(s), NEW t, t = RemoveAt(s, h)
  PROVE  t \in Seq(S) /\ isRemoval(s, h, t)
<1>1. Len(s) \in Nat /\ \A j \in 1..Len(s) : s[j] \in S
  BY LenProperties, ElementOfSeq
<1>2. PICK a : a = SubSeq(s, 1, h - 1)
  OBVIOUS
<1>3. a \in Seq(S) /\ Len(a) = h - 1 /\ \A j \in 1..(h - 1) : a[j] = s[j]
  BY <1>1, <1>2, SubSeqProperties
<1>4. PICK b : b = SubSeq(s, h + 1, Len(s))
  OBVIOUS
<1>5. b \in Seq(S) /\ Len(b) = Len(s) - h /\ \A j \in 1..(Len(s) - h) : b[j] = s[h + j]
  <2>1. \A j \in 1..(Len(s) - h) : b[j] = s[(h + 1) + j - 1] /\ (h + 1) + j - 1 = h + j
    BY <1>1, <1>4, SubSeqProperties
  <2>2. b \in Seq(S) /\ Len(b) = Len(s) - h
    BY <1>1, <1>4, SubSeqProperties
  <2>3. QED
    BY <2>1, <2>2
<1>6. t = a \o b
  BY <1>2, <1>4 DEF RemoveAt
<1>7. /\ t \in Seq(S) /\ Len(t) = Len(s) - 1
      /\ \A j \in 1..(Len(s) - 1) : t[j] = IF j <= h - 1 THEN a[j] ELSE b[j - (h - 1)]
  <2>0. t \in Seq(S) /\ isJoin(a, b, t)
    BY <1>3, <1>5, <1>6, Joined
  <2>1. /\ t \in Seq(S) /\ Len(t) = Len(a) + Len(b)
        /\ \A j \in 1..(Len(a) + Len(b)) : t[j] = IF j <= Len(a) THEN a[j] ELSE b[j - Len(a)]
    BY <2>0 DEF isJoin
  <2>2. Len(a) = h - 1 /\ Len(a) + Len(b) = Len(s) - 1
    BY <1>1, <1>3, <1>5
  <2>3. QED
    BY <2>1, <2>2
<1>8. \A j \in h..(Len(s) - 1) : t[j] = s[j + 1]
  <2> TAKE j \in h..(Len(s) - 1)
  <2>1. j \in 1..(Len(s) - 1) /\ ~(j <= h - 1) /\ j - (h - 1) \in 1..(Len(s) - h)
    BY <1>1
  <2>2. b[j - (h - 1)] = s[h + (j - (h - 1))] /\ h + (j - (h - 1)) = j + 1
    BY <1>1, <1>5, <2>1
  <2>3. QED
    BY <1>7, <2>1, <2>2
<1>9. \A j \in 1..(h - 1) : t[j] = s[j]
  <2>1. \A j \in 1..(h - 1) : j \in 1..(Len(s) - 1) /\ j <= h - 1
    BY <1>1
  <2>2. QED
    BY <1>3, <1>7, <2>1
<1>10. QED
  BY <1>7, <1>8, <1>9 DEF isRemoval

\* Whoever puts a row elsewhere keeps them all.
LEMMA NoneIsLost ==
  ASSUME NEW S, NEW s \in Seq(S), NEW h \in 1..Len(s), NEW k \in 1..Len(s),
         NEW t, t = InsertAt(RemoveAt(s, h), k, s[h])
  PROVE  t \in Seq(S) /\ \A i : isAmong(s, i) => isAmong(t, i)
<1>1. PICK q : q = RemoveAt(s, h)
  OBVIOUS
<1>2. /\ q \in Seq(S) /\ Len(q) = Len(s) - 1
      /\ \A j \in 1..(h - 1) : q[j] = s[j]
      /\ \A j \in h..(Len(s) - 1) : q[j] = s[j + 1]
  <2>1. q \in Seq(S) /\ isRemoval(s, h, q)
    BY <1>1, Removed
  <2>2. QED
    BY <2>1 DEF isRemoval
<1>3. Len(s) \in Nat /\ s[h] \in S
  BY LenProperties, ElementOfSeq
<1>4. k \in 1..(Len(q) + 1)
  BY <1>2, <1>3
<1>5. /\ t \in Seq(S) /\ Len(t) = Len(q) + 1 /\ t[k] = s[h]
      /\ \A j \in 1..(k - 1) : t[j] = q[j]
      /\ \A j \in k..Len(q) : t[j + 1] = q[j]
  <2>1. t = InsertAt(q, k, s[h])
    BY <1>1
  <2>2. t \in Seq(S) /\ isInsertion(q, k, s[h], t)
    BY <2>1, <1>2, <1>3, <1>4, Inserted
  <2>3. QED
    BY <2>2 DEF isInsertion
<1>6. \A j \in 1..Len(q) : isAmong(t, q[j])
  <2> TAKE j \in 1..Len(q)
  <2>1. CASE j < k
    <3>1. t[j] = q[j] /\ j \in 1..Len(t)
      BY <2>1, <1>2, <1>3, <1>5
    <3>2. QED
      BY <3>1 DEF isAmong
  <2>2. CASE j >= k
    <3>1. t[j + 1] = q[j] /\ j + 1 \in 1..Len(t)
      BY <2>2, <1>2, <1>3, <1>5
    <3>2. QED
      BY <3>1 DEF isAmong
  <2>3. QED
    BY <2>1, <2>2, <1>2, <1>3
<1>7. \A j \in 1..Len(s) : isAmong(t, s[j])
  <2> TAKE j \in 1..Len(s)
  <2>1. CASE j < h
    <3>1. q[j] = s[j] /\ j \in 1..Len(q)
      BY <2>1, <1>2, <1>3
    <3>2. QED
      BY <3>1, <1>6
  <2>2. CASE j = h
    BY <2>2, <1>2, <1>3, <1>5 DEF isAmong
  <2>3. CASE j > h
    <3>1. q[j - 1] = s[(j - 1) + 1] /\ j - 1 \in 1..Len(q) /\ (j - 1) + 1 = j
      BY <2>3, <1>2, <1>3
    <3>2. QED
      BY <3>1, <1>6
  <2>4. QED
    BY <2>1, <2>2, <2>3, <1>3
<1>8. QED
  BY <1>5, <1>7 DEF isAmong

\* A newcomer, wherever it comes, leaves the others in their order.
LEMMA NewcomerFitsIn ==
  ASSUME NEW S, NEW s \in Seq(S), NEW e \in S, NEW k \in 1..(Len(s) + 1), ~isAmong(s, e),
         NEW t, t = InsertAt(s, k, e),
         NEW c, c # NoCursor => isAmong(s, c),
         NEW seen, NEW present, isSoundScan(s, c, seen, present)
  PROVE  isSoundScan(t, c, seen, present)
<1>1. /\ t \in Seq(S) /\ Len(t) = Len(s) + 1 /\ t[k] = e
      /\ \A j \in 1..(k - 1) : t[j] = s[j]
      /\ \A j \in k..Len(s) : t[j + 1] = s[j]
  BY Inserted DEF isInsertion
<1>2. Len(s) \in Nat
  BY LenProperties
<1>3. PICK to : to = [j \in 1..Len(s) |-> IF j < k THEN j ELSE j + 1]
  OBVIOUS
<1>4. \A j \in 1..Len(s) : to[j] \in 1..Len(t) /\ to[j] # k /\ t[to[j]] = s[j]
  BY <1>1, <1>2, <1>3
<1>5. \A j, h \in 1..Len(s) : j <= h <=> to[j] <= to[h]
  BY <1>2, <1>3
<1>6. PICK from : from = [j \in 1..Len(t) |-> IF j < k THEN j ELSE j - 1]
  OBVIOUS
<1>7. \A j \in 1..Len(t) : j # k => from[j] \in 1..Len(s) /\ to[from[j]] = j
  BY <1>1, <1>2, <1>3, <1>6
<1>8. \A j \in 1..Len(t) : j # k => t[j] = s[from[j]] /\ t[j] # e
  <2> TAKE j \in 1..Len(t)
  <2>1. ASSUME j # k PROVE t[j] = s[from[j]] /\ from[j] \in 1..Len(s)
    BY <2>1, <1>4, <1>7
  <2>2. QED
    BY <2>1 DEF isAmong
<1>9. \A i : isAmong(s, i) => isAmong(t, i)
  BY <1>4 DEF isAmong
<1>10. \A i : isBehind(s, c, i) => isBehind(t, c, i)
  BY <1>4, <1>5 DEF isBehind
<1>11. ASSUME NEW i, isAmong(s, i), isBehind(t, c, i)
       PROVE  isBehind(s, c, i)
  <2>1. i # e /\ c # e /\ c # NoCursor
    BY <1>11 DEF isBehind
  <2>2. PICK j, h \in 1..Len(t) : j <= h /\ t[j] = i /\ t[h] = c
    BY <1>11 DEF isBehind
  <2>3. j # k /\ h # k
    BY <1>1, <2>1, <2>2
  <2>4. from[j] \in 1..Len(s) /\ from[h] \in 1..Len(s) /\ from[j] <= from[h]
    BY <1>5, <1>7, <2>2, <2>3
  <2>5. s[from[j]] = i /\ s[from[h]] = c
    BY <1>8, <2>2, <2>3
  <2>6. QED
    BY <2>1, <2>4, <2>5 DEF isBehind
<1>12. isWithoutRepetition(t)
  <2> SUFFICES ASSUME NEW j \in 1..Len(t), NEW h \in 1..Len(t), t[j] = t[h] PROVE j = h
    BY DEF isWithoutRepetition
  <2>1. j = k <=> h = k
    BY <1>1, <1>8
  <2>2. CASE j # k
    <3>1. s[from[j]] = s[from[h]] /\ from[j] \in 1..Len(s) /\ from[h] \in 1..Len(s)
      BY <2>1, <2>2, <1>7, <1>8
    <3>2. from[j] = from[h]
      BY <3>1 DEF isSoundScan, isWithoutRepetition
    <3>3. QED
      BY <2>1, <2>2, <3>2, <1>7
  <2>3. QED
    BY <2>1, <2>2
<1>13. \A n \in 1..Len(seen) : isBehind(t, c, seen[n])
  BY <1>10 DEF isSoundScan
<1>14. \A i \in present : isAmong(t, i) /\ (isBehind(t, c, i) => isAmong(seen, i))
  BY <1>9, <1>11 DEF isSoundScan
<1>15. isWithoutRepetition(seen)
  BY DEF isSoundScan
<1>16. QED
  BY <1>12, <1>13, <1>14, <1>15 DEF isSoundScan

\* The cursor is the row at pos, or there is none and pos is 0.
isAtPosition(list, c, pos) == IF c = NoCursor THEN pos = 0 ELSE pos > 0 /\ list[pos] = c

\* Behind the client is what stands up to the position of its cursor.
LEMMA BehindIsUpTo ==
  ASSUME NEW list \in Seq(Items), isWithoutRepetition(list), NEW c,
         NEW pos \in 0..Len(list), isAtPosition(list, c, pos), NEW i
  PROVE  isBehind(list, c, i) <=> \E j \in 1..pos : list[j] = i
<1>1. Len(list) \in Nat
  BY LenProperties
<1>2. CASE c = NoCursor
  BY <1>1, <1>2 DEF isBehind, isAtPosition
<1>3. CASE c # NoCursor
  <2>1. pos \in 1..Len(list) /\ list[pos] = c
    BY <1>1, <1>3 DEF isAtPosition
  <2>2. \A h \in 1..Len(list) : list[h] = c => h = pos
    BY <2>1 DEF isWithoutRepetition
  <2>3. QED
    BY <1>1, <1>3, <2>1, <2>2 DEF isBehind
<1>4. QED
  BY <1>2, <1>3

\* The next page follows without a gap and repeats nothing.
LEMMA PageIsNext ==
  ASSUME NEW list \in Seq(Items), NEW c, NEW pos \in 0..Len(list), isAtPosition(list, c, pos),
         NEW e \in (pos + 1)..Len(list), NEW page, page = SubSeq(list, pos + 1, e),
         NEW seen \in Seq(Items), NEW present, isSoundScan(list, c, seen, present),
         NEW after, after = seen \o page
  PROVE  isSoundScan(list, list[e], after, present)
<1>1. Len(list) \in Nat /\ Len(seen) \in Nat /\ pos \in Nat /\ e \in Nat
  BY LenProperties
<1>2. isWithoutRepetition(list) /\ isWithoutRepetition(seen)
  BY DEF isSoundScan
<1>3. page \in Seq(Items) /\ Len(page) = e - pos /\ \A m \in 1..(e - pos) : page[m] = list[pos + m]
  <2>1. \A j \in (pos + 1)..e : list[j] \in Items
    <3> TAKE j \in (pos + 1)..e
    <3>1. j \in 1..Len(list)
      BY <1>1
    <3>2. QED
      BY <3>1, ElementOfSeq
  <2>2. /\ page \in Seq(Items)
        /\ Len(page) = IF pos + 1 <= e THEN e - (pos + 1) + 1 ELSE 0
        /\ \A m \in 1..(e - (pos + 1) + 1) : page[m] = list[(pos + 1) + m - 1]
    BY <1>1, <2>1, SubSeqProperties
  <2>3. e - (pos + 1) + 1 = e - pos /\ pos + 1 <= e
    BY <1>1
  <2>4. \A m \in 1..(e - pos) : (pos + 1) + m - 1 = pos + m
    BY <1>1
  <2>5. QED
    BY <2>2, <2>3, <2>4
<1>4. isJoin(seen, page, after)
  BY <1>3, Joined
<1>5. /\ Len(after) = Len(seen) + (e - pos)
      /\ \A n \in 1..Len(seen) : after[n] = seen[n]
      /\ \A m \in 1..(e - pos) : after[Len(seen) + m] = list[pos + m]
  <2>1. Len(after) = Len(seen) + (e - pos)
    BY <1>3, <1>4 DEF isJoin
  <2>2. \A n \in 1..Len(after) : after[n] = IF n <= Len(seen) THEN seen[n] ELSE page[n - Len(seen)]
    BY <1>4 DEF isJoin
  <2>3. \A n \in 1..Len(seen) : n \in 1..Len(after) /\ n <= Len(seen)
    BY <1>1, <2>1
  <2>4. \A m \in 1..(e - pos) : /\ Len(seen) + m \in 1..Len(after) /\ ~(Len(seen) + m <= Len(seen))
                                /\ (Len(seen) + m) - Len(seen) = m
    BY <1>1, <2>1
  <2>5. \A m \in 1..(e - pos) : after[Len(seen) + m] = page[m]
    BY <2>2, <2>4
  <2>6. \A n \in 1..Len(seen) : after[n] = seen[n]
    BY <2>2, <2>3
  <2>7. QED
    BY <1>3, <2>1, <2>5, <2>6
<1>6. PICK place : place = [n \in 1..Len(after) |-> pos + (n - Len(seen))]
  OBVIOUS
<1>7. \A n \in 1..Len(after) : n > Len(seen) =>
        place[n] \in (pos + 1)..e /\ place[n] \in 1..Len(list) /\ after[n] = list[place[n]]
  <2> TAKE n \in 1..Len(after)
  <2> SUFFICES ASSUME n > Len(seen)
               PROVE  /\ place[n] \in (pos + 1)..e /\ place[n] \in 1..Len(list)
                      /\ after[n] = list[place[n]]
    OBVIOUS
  <2>1. n - Len(seen) \in 1..(e - pos) /\ Len(seen) + (n - Len(seen)) = n
    BY <1>1, <1>5
  <2>2. after[Len(seen) + (n - Len(seen))] = list[pos + (n - Len(seen))]
    BY <2>1, <1>5
  <2>3. place[n] = pos + (n - Len(seen))
    BY <1>6
  <2>4. place[n] \in (pos + 1)..e /\ place[n] \in 1..Len(list)
    BY <1>1, <2>1, <2>3
  <2>5. QED
    BY <2>1, <2>2, <2>3, <2>4
<1>8. \A n \in 1..Len(seen) : \E j \in 1..pos : list[j] = seen[n]
  <2> TAKE n \in 1..Len(seen)
  <2>1. isBehind(list, c, seen[n])
    BY DEF isSoundScan
  <2>2. QED
    BY <1>2, <2>1, BehindIsUpTo
<1>9. list[e] # NoCursor /\ e \in 1..Len(list) /\ isAtPosition(list, list[e], e)
  <2>1. e \in 1..Len(list) /\ e > 0 /\ e \in 0..Len(list)
    BY <1>1
  <2>2. list[e] \in Items
    BY <2>1, ElementOfSeq
  <2>3. QED
    BY <2>1, <2>2, PagingAssumption DEF NoCursor, isAtPosition
<1>10. \A i : isBehind(list, list[e], i) <=> \E j \in 1..e : list[j] = i
  <2>1. e \in 0..Len(list)
    BY <1>1
  <2>2. QED
    BY <1>2, <1>9, <2>1, BehindIsUpTo
<1>11. \A n \in 1..Len(after) : isBehind(list, list[e], after[n])
  <2> TAKE n \in 1..Len(after)
  <2>1. CASE n <= Len(seen)
    <3>1. n \in 1..Len(seen)
      BY <2>1, <1>1, <1>5
    <3>2. PICK j \in 1..pos : list[j] = seen[n]
      BY <3>1, <1>8
    <3>3. j \in 1..e /\ after[n] = seen[n]
      BY <3>1, <1>1, <1>5
    <3>4. QED
      BY <3>2, <3>3, <1>10
  <2>2. CASE n > Len(seen)
    <3>1. place[n] \in 1..e /\ after[n] = list[place[n]]
      BY <2>2, <1>1, <1>7
    <3>2. QED
      BY <3>1, <1>10
  <2>3. QED
    BY <2>1, <2>2, <1>1, <1>5
<1>12. isWithoutRepetition(after)
  <2>1. \A n, m \in 1..Len(after) : n < m => after[n] # after[m]
    <3> SUFFICES ASSUME NEW n \in 1..Len(after), NEW m \in 1..Len(after), n < m, after[n] = after[m]
                 PROVE  FALSE
      OBVIOUS
    <3>1. Len(after) \in Nat
      BY <1>1, <1>5
    <3>2. CASE m <= Len(seen)
      <4>1. n \in 1..Len(seen) /\ m \in 1..Len(seen)
        BY <3>1, <3>2, <1>1
      <4>2. seen[n] = seen[m]
        BY <4>1, <1>5
      <4>3. n = m
        BY <4>1, <4>2, <1>2 DEF isWithoutRepetition
      <4>4. QED
        BY <4>3, <3>1
    <3>3. CASE n <= Len(seen) /\ m > Len(seen)
      <4>1. n \in 1..Len(seen) /\ after[n] = seen[n]
        BY <3>1, <3>3, <1>1, <1>5
      <4>2. PICK j \in 1..pos : list[j] = after[n]
        BY <4>1, <1>8
      <4>3. place[m] \in (pos + 1)..e /\ place[m] \in 1..Len(list) /\ after[m] = list[place[m]]
        BY <3>3, <1>7
      <4>4. j \in 1..Len(list)
        BY <1>1
      <4>5. j = place[m]
        BY <4>2, <4>3, <4>4, <1>2 DEF isWithoutRepetition
      <4>6. QED
        BY <4>3, <4>5, <1>1
    <3>4. CASE n > Len(seen)
      <4>1. m > Len(seen)
        BY <3>1, <3>4, <1>1
      <4>2. /\ place[n] \in 1..Len(list) /\ after[n] = list[place[n]]
            /\ place[m] \in 1..Len(list) /\ after[m] = list[place[m]]
        BY <3>4, <4>1, <1>7
      <4>3. place[n] = place[m]
        BY <4>2, <1>2 DEF isWithoutRepetition
      <4>4. place[n] = pos + (n - Len(seen)) /\ place[m] = pos + (m - Len(seen))
        BY <1>6
      <4>5. pos + (n - Len(seen)) = pos + (m - Len(seen))
        BY <4>3, <4>4
      <4>6. n \in Int /\ m \in Int
        BY <3>1
      <4>7. n = m
        BY <4>5, <4>6, <1>1
      <4>8. QED
        BY <4>6, <4>7
    <3>5. QED
      BY <3>1, <3>2, <3>3, <3>4, <1>1
  <2>2. Len(after) \in Nat
    BY <1>1, <1>5
  <2>3. \A n, m \in 1..Len(after) : n < m \/ m < n \/ n = m
    BY <2>2
  <2>4. SUFFICES ASSUME NEW n \in 1..Len(after), NEW m \in 1..Len(after), after[n] = after[m]
                 PROVE  n = m
    BY DEF isWithoutRepetition
  <2>5. ~(n < m) /\ ~(m < n)
    BY <2>1, <2>4, Zenon
  <2>6. QED
    BY <2>3, <2>5, Zenon
<1>13. ASSUME NEW i \in present
       PROVE  isAmong(list, i) /\ (isBehind(list, list[e], i) => isAmong(after, i))
  <2>1. isAmong(list, i) /\ (isBehind(list, c, i) => isAmong(seen, i))
    BY DEF isSoundScan
  <2> SUFFICES ASSUME isBehind(list, list[e], i) PROVE isAmong(after, i)
    BY <2>1
  <2>2. PICK j \in 1..e : list[j] = i
    BY <1>10
  <2>3. CASE j <= pos
    <3>1. j \in 1..pos
      BY <2>3, <1>1
    <3>2. isAmong(seen, i)
      BY <2>1, <2>2, <3>1, <1>2, BehindIsUpTo
    <3>3. PICK n \in 1..Len(seen) : seen[n] = i
      BY <3>2 DEF isAmong
    <3>4. n \in 1..Len(after) /\ after[n] = i
      BY <3>3, <1>1, <1>5
    <3>5. QED
      BY <3>4 DEF isAmong
  <2>4. CASE j > pos
    <3>1. j - pos \in 1..(e - pos) /\ pos + (j - pos) = j
      BY <2>4, <1>1
    <3>2. Len(seen) + (j - pos) \in 1..Len(after)
      BY <3>1, <1>1, <1>5
    <3>3. after[Len(seen) + (j - pos)] = list[pos + (j - pos)]
      BY <3>1, <1>5
    <3>4. after[Len(seen) + (j - pos)] = i
      BY <3>1, <3>3, <2>2
    <3>5. QED
      BY <3>2, <3>4 DEF isAmong
  <2>5. QED
    BY <2>3, <2>4, <1>1
<1>14. QED
  BY <1>2, <1>11, <1>12, <1>13 DEF isSoundScan

-----------------------------------------------------------------------------
\* The fields of a scan; moved is kept out of the provers' sight.
LEMMA ScanFields ==
  ASSUME NEW sc \in Scan
  PROVE  /\ sc.at \in {"idle", "reading", "done"} /\ sc.field \in Field /\ sc.first \in First
         /\ sc.after \in Items \cup {NoCursor} /\ sc.seen \in Seq(Items)
         /\ sc.present \in SUBSET Items
BY Zenon DEF Scan

\* A scan that is marked is one.
LEMMA ScanMoves ==
  ASSUME NEW sc \in Scan, NEW b \in BOOLEAN
  PROVE  [sc EXCEPT !.moved = sc.moved \/ b] \in Scan
BY Zenon DEF Scan

\* Initially there are no rows.
LEMMA InitPagesInv == PagingInit => PagesInv
<1> SUFFICES ASSUME PagingInit PROVE PagesInv
  OBVIOUS
<1> USE DEF PagingInit
<1>1. <<>> \in Seq(Items) /\ Len(<<>>) = 0
  BY EmptySeq
<1>2. 0 \in 0..MaxChanges /\ 1 \in First
  BY PagingAssumption DEF First
<1>3. scan \in Scan
  BY <1>1, <1>2, Zenon DEF Scan, Field
<1>4. scan.at = "idle" /\ scan.seen = <<>> /\ scan.after = NoCursor /\ scan.present = {}
  BY Zenon
<1>5. isSoundScan(<<>>, NoCursor, <<>>, {})
  BY <1>1 DEF isSoundScan, isWithoutRepetition
<1>6. QED
  BY <1>1, <1>2, <1>3, <1>4, <1>5
     DEF PagesInv, PagingTypeOK, CursorInv, IdleInv, ScanInv, EndInv

\* The range of the rows, as positions.
LEMMA RangeIsAmong ==
  ASSUME NEW s \in Seq(Items), NEW i
  PROVE  i \in Range(s) <=> isAmong(s, i)
<1>1. DOMAIN s = 1..Len(s)
  BY LenProperties
<1>2. QED
  BY <1>1 DEF Range, isAmong

\* A row is inserted.
LEMMA InsertStep ==
  ASSUME PagesInv, NEW i \in Items, InsertRow(i)
  PROVE  PagesInv'
<1> USE DEF PagesInv
<1>1. rows \in Seq(Items) /\ changes \in 0..MaxChanges /\ scan \in Scan /\ scan' = scan
  BY DEF PagingTypeOK, InsertRow
<1>2. PICK k \in 1..(Len(rows) + 1) : rows' = InsertAt(rows, k, i)
  BY DEF InsertRow, positionsFor
<1>3. ~isAmong(rows, i)
  BY <1>1, RangeIsAmong DEF InsertRow
<1>4. rows' \in Seq(Items) /\ isInsertion(rows, k, i, rows')
  BY <1>1, <1>2, Inserted
<1>5. \A x : isAmong(rows, x) => isAmong(rows', x)
  <2>1. Len(rows) \in Nat
    BY <1>1, LenProperties
  <2>2. ASSUME NEW j \in 1..Len(rows) PROVE isAmong(rows', rows[j])
    <3>1. CASE j < k
      <4>1. rows'[j] = rows[j] /\ j \in 1..Len(rows')
        BY <2>1, <3>1, <1>4 DEF isInsertion
      <4>2. QED
        BY <4>1 DEF isAmong
    <3>2. CASE j >= k
      <4>1. rows'[j + 1] = rows[j] /\ j + 1 \in 1..Len(rows')
        BY <2>1, <3>2, <1>4 DEF isInsertion
      <4>2. QED
        BY <4>1 DEF isAmong
    <3>3. QED
      BY <3>1, <3>2, <2>1
  <2>3. QED
    BY <2>2 DEF isAmong
<1>6. changes' \in 0..MaxChanges
  BY <1>1, PagingAssumption DEF InsertRow
<1>7. PagingTypeOK'
  BY <1>1, <1>4, <1>6 DEF PagingTypeOK
<1>8. CursorInv' /\ IdleInv' /\ EndInv'
  BY <1>1, <1>5 DEF CursorInv, IdleInv, EndInv
<1>9. ScanInv'
  <2> SUFFICES ASSUME ~hasMoved(scan) PROVE isSoundScan(rows', scan.after, scan.seen, scan.present)
    BY <1>1 DEF ScanInv
  <2>1. isSoundScan(rows, scan.after, scan.seen, scan.present)
    BY DEF ScanInv
  <2>2. scan.after # NoCursor => isAmong(rows, scan.after)
    BY DEF CursorInv
  <2>3. QED
    BY <1>1, <1>2, <1>3, <2>1, <2>2, NewcomerFitsIn
<1>10. QED
  BY <1>7, <1>8, <1>9

\* A row's new version is stored where it was, or the scan is marked.
LEMMA UpdateStep ==
  ASSUME PagesInv, NEW i \in Items, UpdateRow(i)
  PROVE  PagesInv'
<1> USE DEF PagesInv
<1>1. rows \in Seq(Items) /\ changes \in 0..MaxChanges /\ scan \in Scan
  BY DEF PagingTypeOK
<1>2. PICK h \in 1..Len(rows), k \in 1..Len(rows) :
        rows[h] = i /\ rows' = InsertAt(RemoveAt(rows, h), k, i)
  BY <1>1, LenProperties DEF UpdateRow
<1>3. rows' \in Seq(Items) /\ \A x : isAmong(rows, x) => isAmong(rows', x)
  <2>1. rows' = InsertAt(RemoveAt(rows, h), k, rows[h])
    BY <1>2
  <2>2. QED
    BY <1>1, <2>1, NoneIsLost
<1>4. changes' \in 0..MaxChanges
  BY <1>1, PagingAssumption DEF UpdateRow
<1>5. PICK b \in BOOLEAN : (b <=> rows' # rows) /\ scan' = [scan EXCEPT !.moved = scan.moved \/ b]
  <2>1. scan' = [scan EXCEPT !.moved = scan.moved \/ rows' # rows]
    BY Zenon DEF UpdateRow
  <2>2. QED
    BY <2>1, Zenon
<1>6. scan' \in Scan
  <2>1. [scan EXCEPT !.moved = scan.moved \/ b] \in Scan
    BY <1>1, ScanMoves
  <2>2. QED
    BY <1>5, <2>1, Zenon
<1>7. /\ scan'.at = scan.at /\ scan'.after = scan.after /\ scan'.seen = scan.seen
      /\ scan'.present = scan.present
      /\ ~hasMoved(scan') => ~hasMoved(scan) /\ rows' = rows
  BY <1>1, <1>5, Zenon DEF Scan, hasMoved
<1>8. PagingTypeOK'
  BY <1>3, <1>4, <1>6 DEF PagingTypeOK
<1>9. CursorInv'
  BY <1>3, <1>7 DEF CursorInv
<1>10. IdleInv'
  BY <1>7 DEF IdleInv
<1>11. EndInv'
  BY <1>3, <1>7 DEF EndInv
<1>12. ScanInv'
  BY <1>7 DEF ScanInv
<1>13. QED
  BY <1>8, <1>9, <1>10, <1>11, <1>12

\* The client begins.
LEMMA StartStep ==
  ASSUME PagesInv, NEW field \in Field, NEW first \in First, StartScan(field, first)
  PROVE  PagesInv'
<1> USE DEF PagesInv
<1>1. rows \in Seq(Items) /\ scan \in Scan /\ rows' = rows /\ changes' = changes
  BY DEF PagingTypeOK, StartScan
<1>2. scan.at = "idle" /\ scan.seen = <<>> /\ scan.after = NoCursor
  BY DEF StartScan, IdleInv
<1>3. PICK present : present = Range(rows)
  OBVIOUS
<1>4. present \in SUBSET Items /\ \A i \in present : isAmong(rows, i)
  <2>1. \A i \in present : isAmong(rows, i)
    BY <1>1, <1>3, RangeIsAmong
  <2>2. QED
    BY <1>1, <2>1, ElementOfSeq DEF isAmong
<1>5. scan' = [scan EXCEPT !.at = "reading", !.field = field, !.first = first, !.present = present]
  BY <1>3, Zenon DEF StartScan
<1>6. scan' \in Scan
  BY <1>1, <1>4, <1>5, Zenon DEF Scan
<1>7. /\ scan'.at = "reading" /\ scan'.after = scan.after /\ scan'.seen = scan.seen
      /\ scan'.present = present /\ (hasMoved(scan') <=> hasMoved(scan))
  BY <1>1, <1>5, Zenon DEF Scan, hasMoved
<1>8. PagingTypeOK'
  BY <1>1, <1>6 DEF PagingTypeOK
<1>9. CursorInv' /\ IdleInv' /\ EndInv'
  BY <1>1, <1>2, <1>7 DEF CursorInv, IdleInv, EndInv
<1>10. ScanInv'
  <2> SUFFICES ASSUME ~hasMoved(scan)
               PROVE  isSoundScan(rows, NoCursor, <<>>, present)
    BY <1>1, <1>2, <1>7 DEF ScanInv
  <2>1. isWithoutRepetition(rows) /\ isWithoutRepetition(<<>>)
    BY <1>2 DEF ScanInv, isSoundScan
  <2>2. \A i : ~isBehind(rows, NoCursor, i)
    BY DEF isBehind
  <2>3. Len(<<>>) = 0
    BY EmptySeq
  <2>4. QED
    BY <1>4, <2>1, <2>2, <2>3 DEF isSoundScan
<1>11. QED
  BY <1>8, <1>9, <1>10

\* A page, or the end.
LEMMA FetchStep ==
  ASSUME PagesInv, FetchPage
  PROVE  PagesInv'
<1> USE DEF PagesInv
<1>1. /\ rows \in Seq(Items) /\ scan \in Scan /\ rows' = rows /\ changes' = changes
      /\ scan.at = "reading"
  BY DEF PagingTypeOK, FetchPage
<1>2. /\ scan.first \in First /\ scan.seen \in Seq(Items) /\ scan.after \in Items \cup {NoCursor}
      /\ scan.present \in SUBSET Items
  BY <1>1, ScanFields
<1>3. Len(rows) \in Nat /\ DOMAIN rows = 1..Len(rows)
  BY <1>1, LenProperties
<1>4. PICK size : size = clampPageSize(scan.first)
  OBVIOUS
<1>5. size \in Nat /\ size > 0
  BY <1>2, <1>4, PagingAssumption DEF clampPageSize, First
<1>6. PICK pos : pos = indexOf(scan.after)
  OBVIOUS
<1>7. pos \in 0..Len(rows) /\ isAtPosition(rows, scan.after, pos)
  <2>1. CASE scan.after = NoCursor
    BY <2>1, <1>3, <1>6 DEF indexOf, isAtPosition
  <2>2. CASE scan.after # NoCursor
    <3>1. \E k \in DOMAIN rows : rows[k] = scan.after
      BY <2>2, <1>3 DEF CursorInv, isAmong
    <3>2. pos \in DOMAIN rows /\ rows[pos] = scan.after
      BY <2>2, <3>1, <1>6 DEF indexOf
    <3>3. QED
      BY <2>2, <3>2, <1>3 DEF isAtPosition
  <2>3. QED
    BY <2>1, <2>2
<1>8. PICK e : e = IF pos + size < Len(rows) THEN pos + size ELSE Len(rows)
  OBVIOUS
<1>9. PICK page : page = SubSeq(rows, pos + 1, e)
  OBVIOUS
<1>10. page = pageAfter(scan.after, clampPageSize(scan.first))
  BY <1>4, <1>6, <1>8, <1>9 DEF pageAfter
<1>11. e \in pos..Len(rows) /\ (pos < Len(rows) => e \in (pos + 1)..Len(rows))
  <2>1. pos \in Nat /\ pos <= Len(rows)
    BY <1>3, <1>7
  <2>2. CASE pos + size < Len(rows)
    <3>1. e = pos + size
      BY <1>8, <2>2
    <3>2. QED
      BY <1>3, <1>5, <2>1, <2>2, <3>1
  <2>3. CASE ~(pos + size < Len(rows))
    <3>1. e = Len(rows)
      BY <1>8, <2>3
    <3>2. QED
      BY <1>3, <2>1, <3>1
  <2>4. QED
    BY <2>2, <2>3
<1>12. CASE page = <<>>
  <2>1. ~(pos < Len(rows))
    <3> SUFFICES ASSUME pos < Len(rows) PROVE FALSE
      OBVIOUS
    <3>0. pos \in Nat /\ pos < Len(rows)
      BY <1>3, <1>7
    <3>1. pos + 1 <= e /\ pos + 1 \in Int /\ e \in Int /\ e <= Len(rows)
      BY <1>3, <1>11, <3>0
    <3>2. \A j \in (pos + 1)..e : j \in 1..Len(rows)
      BY <1>3, <3>0, <3>1
    <3>3. \A j \in (pos + 1)..e : rows[j] \in Items
      BY <1>1, <3>2, ElementOfSeq
    <3>4. Len(page) = e - (pos + 1) + 1
      BY <1>9, <3>1, <3>3, SubSeqProperties
    <3>5. Len(page) = 0
      BY <1>12, EmptySeq
    <3>6. QED
      BY <3>1, <3>4, <3>5
  <2>2. scan' = [scan EXCEPT !.at = "done"]
    BY <1>10, <1>12, Zenon DEF FetchPage
  <2>3. scan' \in Scan
    BY <1>1, <2>2, Zenon DEF Scan
  <2>4. /\ scan'.at = "done" /\ scan'.after = scan.after /\ scan'.seen = scan.seen
        /\ scan'.present = scan.present /\ (hasMoved(scan') <=> hasMoved(scan))
    BY <1>1, <2>2, Zenon DEF Scan, hasMoved
  <2>5. PagingTypeOK'
    BY <1>1, <2>3 DEF PagingTypeOK
  <2>6. CursorInv' /\ IdleInv' /\ ScanInv'
    BY <1>1, <2>4 DEF CursorInv, IdleInv, ScanInv
  <2>7. EndInv'
    <3> SUFFICES ASSUME ~hasMoved(scan), NEW i \in scan.present PROVE isAmong(scan.seen, i)
      BY <2>4 DEF EndInv
    <3>1. isSoundScan(rows, scan.after, scan.seen, scan.present)
      BY DEF ScanInv
    <3>2. PICK j \in 1..Len(rows) : rows[j] = i
      BY <3>1 DEF isSoundScan, isAmong
    <3>3. j \in 1..pos
      BY <1>3, <1>7, <2>1
    <3>4. isBehind(rows, scan.after, i)
      BY <1>1, <1>7, <3>1, <3>2, <3>3, BehindIsUpTo DEF isSoundScan
    <3>5. QED
      BY <3>1, <3>4 DEF isSoundScan
  <2>8. QED
    BY <2>5, <2>6, <2>7
<1>13. CASE page # <<>>
  <2>1. pos < Len(rows)
    <3> SUFFICES ASSUME ~(pos < Len(rows)) PROVE FALSE
      OBVIOUS
    <3>1. e < pos + 1 /\ pos + 1 \in Int /\ e \in Int
      BY <1>3, <1>7, <1>11
    <3>2. page = <<>>
      BY <1>9, <3>1, SubSeqEmpty
    <3>3. QED
      BY <1>13, <3>2
  <2>2. e \in (pos + 1)..Len(rows) /\ e \in 1..Len(rows)
    BY <1>3, <1>7, <1>11, <2>1
  <2>3. rows[e] \in Items /\ isAmong(rows, rows[e])
    BY <1>1, <2>2, ElementOfSeq DEF isAmong
  <2>4. page \in Seq(Items) /\ Len(page) = e - pos /\ Last(page) = rows[e]
    <3>1. pos + 1 <= e /\ pos + 1 \in Int /\ e \in Int /\ e - (pos + 1) + 1 = e - pos
          /\ (pos + 1) + (e - pos) - 1 = e /\ e - pos \in 1..(e - pos)
      BY <1>3, <1>7, <2>2
    <3>2. \A j \in (pos + 1)..e : j \in 1..Len(rows)
      BY <1>3, <1>7, <2>2
    <3>3. \A j \in (pos + 1)..e : rows[j] \in Items
      BY <1>1, <3>2, ElementOfSeq
    <3>4. /\ page \in Seq(Items) /\ Len(page) = e - (pos + 1) + 1
          /\ \A m \in 1..(e - (pos + 1) + 1) : page[m] = rows[(pos + 1) + m - 1]
      BY <1>9, <3>1, <3>3, SubSeqProperties
    <3>5. page[e - pos] = rows[e]
      BY <3>1, <3>4
    <3>6. QED
      BY <3>1, <3>4, <3>5 DEF Last
  <2>5. PICK after : after = scan.seen \o page
    OBVIOUS
  <2>6. after \in Seq(Items)
    BY <1>2, <2>4, <2>5, ConcatProperties
  <2>7. scan' = [scan EXCEPT !.seen = after, !.after = rows[e]]
    BY <1>10, <1>13, <2>4, <2>5, Zenon DEF FetchPage
  <2>8. scan' \in Scan
    BY <1>1, <2>3, <2>6, <2>7, Zenon DEF Scan
  <2>9. /\ scan'.at = scan.at /\ scan'.after = rows[e] /\ scan'.seen = after
        /\ scan'.present = scan.present /\ (hasMoved(scan') <=> hasMoved(scan))
    BY <1>1, <2>7, Zenon DEF Scan, hasMoved
  <2>10. PagingTypeOK'
    BY <1>1, <2>8 DEF PagingTypeOK
  <2>11. CursorInv' /\ IdleInv' /\ EndInv'
    BY <1>1, <2>3, <2>9 DEF CursorInv, IdleInv, EndInv
  <2>12. ScanInv'
    <3> SUFFICES ASSUME ~hasMoved(scan) PROVE isSoundScan(rows, rows[e], after, scan.present)
      BY <1>1, <2>9 DEF ScanInv
    <3>1. isSoundScan(rows, scan.after, scan.seen, scan.present)
      BY DEF ScanInv
    <3>2. QED
      BY <1>1, <1>2, <1>7, <1>9, <2>2, <2>5, <3>1, PageIsNext
  <2>13. QED
    BY <2>10, <2>11, <2>12
<1>14. QED
  BY <1>12, <1>13

\* Every step.
LEMMA NextPagesInv == ASSUME PagesInv, [PagingNext]_pagingVars PROVE PagesInv'
<1>1. CASE UNCHANGED pagingVars
  BY <1>1 DEF PagesInv, PagingTypeOK, CursorInv, IdleInv, ScanInv, EndInv, pagingVars
<1>2. CASE PagingNext
  BY <1>2, InsertStep, UpdateStep, StartStep, FetchStep DEF PagingNext
<1>3. QED
  BY <1>1, <1>2

\* Inductive, hence an invariant.
LEMMA PagesInductive == PagingSpec => []PagesInv
BY InitPagesInv, NextPagesInv, PTL DEF PagingSpec

\* The type invariant of paging: the client's cursor always names a row.
THEOREM PagingTypeCorrect == PagingSpec => []PagingTypeOK
<1>1. PagesInv => PagingTypeOK
  BY DEF PagesInv
<1>2. QED
  BY <1>1, PagesInductive, PTL

\* The invariant at the end of a scan.
LEMMA EndsComplete == PagesInv => ScansAreComplete
<1> SUFFICES ASSUME PagesInv, scan.at = "done", ~hasMoved(scan)
             PROVE  scan.present \subseteq Range(scan.seen) /\ IsInjective(scan.seen)
  BY Zenon DEF ScansAreComplete, sawEachOnce, hasMoved
<1>1. scan.seen \in Seq(Items)
  BY ScanFields DEF PagesInv, PagingTypeOK
<1>2. \A i \in scan.present : isAmong(scan.seen, i)
  BY DEF PagesInv, EndInv
<1>3. scan.present \subseteq Range(scan.seen)
  BY <1>1, <1>2, RangeIsAmong
<1>4. isWithoutRepetition(scan.seen)
  BY DEF PagesInv, ScanInv, isSoundScan
<1>5. DOMAIN scan.seen = 1..Len(scan.seen)
  BY <1>1, LenProperties
<1>6. IsInjective(scan.seen)
  BY <1>4, <1>5 DEF IsInjective, isWithoutRepetition
<1>7. QED
  BY <1>3, <1>6

\* A scan whose rows keep their places gets every row that was there when it began,
\* and none twice: for any rows, page sizes and insertions.
THEOREM ScansAreCompleteHolds == PagingSpec => []ScansAreComplete
BY PagesInductive, EndsComplete, PTL

=============================================================================
