-------------------------------- MODULE PubSub --------------------------------
(***************************************************************************)
(* The in-process publish/subscribe behind the GraphQL subscriptions: one  *)
(* iterator per subscriber, with a queue of values that nobody asked for   *)
(* yet and at most one next() that waits for a value.  A promise that is   *)
(* settled reaches its caller in a later turn of the event loop.           *)
(***************************************************************************)
EXTENDS Naturals, Sequences

CONSTANTS
  Topics, Subscribers,
  Values,  \* what is published
  MaxLog   \* model bound: publications on a topic

ASSUME PubSubAssumption == MaxLog \in Nat /\ "none" \notin Topics

VARIABLES
  iterator,
  log,       \* history: what was published on each topic
  received   \* history: what the next() of each subscriber returned

pubSubVars == <<iterator, log, received>>

\* from: the length of the log when the iterator was created; settled: the value
\* that the pending next() was given, if it was.
NoIterator == [topic |-> "none", from |-> 0, closed |-> FALSE, queue |-> <<>>,
               pending |-> FALSE, settled |-> <<>>]

PubSubTypeOK ==
  \A s \in Subscribers :
    /\ iterator[s].topic \in Topics \cup {"none"}
    /\ iterator[s].pending => iterator[s].queue = <<>> /\ iterator[s].settled = <<>>
    /\ Len(iterator[s].settled) <= 1

PubSubInit ==
  /\ iterator = [s \in Subscribers |-> NoIterator]
  /\ log = [t \in Topics |-> <<>>]
  /\ received = [s \in Subscribers |-> <<>>]

-----------------------------------------------------------------------------
isListening(s, t) == iterator[s].topic = t /\ ~iterator[s].closed

\* Faulty: the value is queued, and the next() that waits is not told.
hearQueueing(it, v) == [it EXCEPT !.queue = Append(@, v)]

\* Faulty: the next() that was answered is still taken for pending, and what is
\* given to it again is lost.
hearForgetful(it, v) ==
  IF it.settled # <<>> THEN it
  ELSE IF it.pending THEN [it EXCEPT !.pending = FALSE, !.settled = <<v>>]
  ELSE [it EXCEPT !.queue = Append(@, v)]

\* The listener: a waiting next() gets the value, else it is queued.
hear(it, v) ==
  IF it.pending THEN [it EXCEPT !.pending = FALSE, !.settled = <<v>>]
  ELSE [it EXCEPT !.queue = Append(@, v)]

\* Publishing calls the listeners in turn; values may be for several topics.
publish(values) ==
  /\ iterator' = [s \in Subscribers |->
       IF \E t \in DOMAIN values : isListening(s, t)
       THEN hear(iterator[s], values[iterator[s].topic]) ELSE iterator[s]]
  /\ log' = [t \in Topics |-> IF t \in DOMAIN values THEN Append(log[t], values[t]) ELSE log[t]]
  /\ UNCHANGED received

Subscribe(s, t) ==
  /\ iterator[s] = NoIterator
  /\ iterator' = [iterator EXCEPT ![s].topic = t, ![s].from = Len(log[t])]
  /\ UNCHANGED <<log, received>>

isIdle(s) == iterator[s].topic \in Topics /\ ~iterator[s].pending /\ iterator[s].settled = <<>>

\* A queued value settles the promise at once.
ask(it) ==
  IF it.queue = <<>> THEN [it EXCEPT !.pending = TRUE]
  ELSE [it EXCEPT !.settled = <<Head(it.queue)>>, !.queue = Tail(@)]

\* With an empty queue a closed iterator is done.
CallNext(s) ==
  /\ isIdle(s)
  /\ iterator[s].queue # <<>> \/ ~iterator[s].closed
  /\ iterator' = [iterator EXCEPT ![s] = ask(@)]
  /\ UNCHANGED <<log, received>>

Receive(s) ==
  /\ iterator[s].settled # <<>>
  /\ received' = [received EXCEPT ![s] = @ \o iterator[s].settled]
  /\ iterator' = [iterator EXCEPT ![s].settled = <<>>]
  /\ UNCHANGED log

\* return() and throw(): a next() that waits goes on waiting.
Return(s) ==
  /\ iterator[s].topic \in Topics /\ ~iterator[s].closed
  /\ iterator' = [iterator EXCEPT ![s].closed = TRUE]
  /\ UNCHANGED <<log, received>>

SubscriberNext ==
  \E s \in Subscribers :
    \/ \E t \in Topics : Subscribe(s, t)
    \/ CallNext(s) \/ Receive(s) \/ Return(s)

\* Any service publishes, some of them on two topics in one turn.
Publication ==
  /\ \E S \in SUBSET Topics : S # {} /\ \E values \in [S -> Values] : publish(values)
  /\ \A t \in Topics : Len(log'[t]) <= MaxLog

PubSubNext == Publication \/ SubscriberNext

PubSubSpec == PubSubInit /\ [][PubSubNext]_pubSubVars

-----------------------------------------------------------------------------
(* Properties. *)

\* What a subscriber is owed is what it received, holds or has in its queue.
feedOf == [s \in Subscribers |->
  [topic |-> iterator[s].topic, from |-> iterator[s].from,
   upTo |-> iterator[s].from + Len(received[s] \o iterator[s].settled \o iterator[s].queue),
   ended |-> iterator[s].closed]]

AbstractChannel == INSTANCE Channel WITH feed <- feedOf

\* Every subscriber gets every value published while it is subscribed, once and
\* in order, however its next() calls and the publications interleave, and after
\* its end only what was published before.
ImplementsChannel == AbstractChannel!ChannelSpec

\* What a return() with a next() outstanding leaves behind (pubsub.service.ts:57).
NobodyWaitsForClosed == \A s \in Subscribers : ~(iterator[s].closed /\ iterator[s].pending)

=============================================================================
