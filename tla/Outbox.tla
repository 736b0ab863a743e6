------------------------------- MODULE Outbox -------------------------------
(***************************************************************************)
(* The event backbone: the outbox table, the poller that relays its rows   *)
(* to BullMQ, and the worker that fans each job out to its handlers behind *)
(* a claim per handler and event in Redis.  Every API process runs one     *)
(* poller and one worker; PostgreSQL and Redis survive their crashes.      *)
(*                                                                         *)
(* The queue is modelled from the options the code passes: a job's id is   *)
(* its event's id, an add of an id that is still known does nothing, a     *)
(* completed job is forgotten (removeOnComplete), a failed one is kept     *)
(* (removeOnFail: false), a job whose lock is not renewed is handed out    *)
(* once more (BullMQ's default maxStalledCount).  Back-off delays count as *)
(* waiting.  The seven days a claim lives are longer than any behaviour    *)
(* here.                                                                   *)
(***************************************************************************)
EXTENDS Naturals, Sequences, FiniteSets

CONSTANTS
  Processes,             \* the API processes
  Events,                \* the outbox rows that may be written
  Handlers,              \* the registered consumers
  handlersFor,           \* the registry: the handlers of each event, in order
  Free,                  \* no process, and no job in hand
  BatchSize,             \* dispatchPending's take
  MaxAttempts,           \* the attempts a job gets
  MaxFaults,             \* bound on the faults of each kind (model bound)
  DispatcherBypassesRls  \* the poller's connection sees the rows of all tenants

FaultKind == {"relayError", "handlerError", "redisError", "lapse", "crash"}

ASSUME OutboxAssumption ==
  /\ Free \notin Processes \cup Events
  /\ handlersFor \in [Events -> Seq(Handlers)]
  /\ BatchSize \in Nat \ {0}
  /\ MaxAttempts \in Nat \ {0}
  /\ MaxFaults \in [FaultKind -> Nat]
  /\ DispatcherBypassesRls \in BOOLEAN

VARIABLES
  written,     \* the events in the outbox table, by occurredAt
  dispatched,  \* those whose dispatchedAt is set
  poller,      \* the rest of each process's batch, and if its head was added
  jobs,        \* the queue: the job of every event
  worker,      \* what each process's worker is at
  claims,      \* the idempotency keys in Redis
  effects,     \* how often each handler's transaction committed, per event
  faults       \* the faults so far, per kind

vars == <<written, dispatched, poller, jobs, worker, claims, effects, faults>>

JobState == {"none", "waiting", "active", "failed", "removed"}

Phase == {"claim", "run", "fail"}

noJob == [state |-> "none", attemptsMade |-> 0, stalled |-> 0, lock |-> Free]

idlePoller == [batch |-> <<>>, added |-> FALSE]

idleWorker == [job |-> Free, next |-> 1, phase |-> "claim"]

TypeOK ==
  /\ written \in Seq(Events)
  /\ dispatched \subseteq Events
  /\ poller \in [Processes -> [batch : Seq(Events), added : BOOLEAN]]
  /\ jobs \in [Events -> [state : JobState, attemptsMade : Nat, stalled : Nat,
                          lock : Processes \cup {Free}]]
  /\ worker \in [Processes -> [job : Events \cup {Free}, next : Nat, phase : Phase]]
  /\ claims \subseteq Handlers \X Events
  /\ effects \in [Handlers \X Events -> Nat]
  /\ faults \in [FaultKind -> Nat]

isWritten(e) == \E i \in DOMAIN written : written[i] = e

Init ==
  /\ written = <<>>
  /\ dispatched = {}
  /\ poller = [p \in Processes |-> idlePoller]
  /\ jobs = [e \in Events |-> noJob]
  /\ worker = [p \in Processes |-> idleWorker]
  /\ claims = {}
  /\ effects = [d \in Handlers \X Events |-> 0]
  /\ faults = [k \in FaultKind |-> 0]

strike(kind) ==
  /\ faults[kind] < MaxFaults[kind]
  /\ faults' = [faults EXCEPT ![kind] = @ + 1]

\* OutboxWriter.write, in the transaction of the state change.
WriteEvent(e) ==
  /\ ~isWritten(e)
  /\ written' = Append(written, e)
  /\ UNCHANGED <<dispatched, poller, jobs, worker, claims, effects, faults>>

-----------------------------------------------------------------------------
(* The poller. *)

undispatched == {e \in Events : isWritten(e) /\ e \notin dispatched}

isOlder(d, e) ==
  \E i, j \in DOMAIN written : i < j /\ written[i] = d /\ written[j] = e

\* findMany: undispatched rows, oldest first; one that is left out is younger
\* than all of a full batch.
isOldestOf(rows, batch) ==
  /\ \A i, j \in DOMAIN batch : i < j => isOlder(batch[i], batch[j])
  /\ \A e \in rows \ {batch[i] : i \in DOMAIN batch} :
       Len(batch) = BatchSize /\ isOlder(batch[BatchSize], e)

\* A poll that finds the previous one at work, or no row, changes nothing.
Poll(p) ==
  /\ poller[p].batch = <<>>
  /\ DispatcherBypassesRls
  /\ \E n \in 1..BatchSize : \E batch \in [1..n -> undispatched] :
       /\ isOldestOf(undispatched, batch)
       /\ poller' = [poller EXCEPT ![p].batch = batch]
  /\ UNCHANGED <<written, dispatched, jobs, worker, claims, effects, faults>>

isKnown(job) == job.state \notin {"none", "removed"}

\* Faulty: the job is added in a state that nothing takes it out of.
addJobDelayed(e) ==
  jobs' = [jobs EXCEPT ![e] =
             IF isKnown(@) THEN @ ELSE [noJob EXCEPT !.state = "delayed"]]

\* queue.add: ignored while the queue knows a job with this id.
addJob(e) ==
  jobs' = [jobs EXCEPT ![e] =
             IF isKnown(@) THEN @ ELSE [noJob EXCEPT !.state = "waiting"]]

\* Faulty: the row is marked first and added later.
EnqueueLater(p) ==
  /\ poller[p].batch # <<>>
  /\ ~poller[p].added
  /\ poller' = [poller EXCEPT ![p].added = TRUE]
  /\ UNCHANGED <<written, dispatched, jobs, worker, claims, effects, faults>>

Enqueue(p) ==
  /\ poller[p].batch # <<>>
  /\ ~poller[p].added
  /\ addJob(Head(poller[p].batch))
  /\ poller' = [poller EXCEPT ![p].added = TRUE]
  /\ UNCHANGED <<written, dispatched, worker, claims, effects, faults>>

\* Faulty: the first success marks the whole batch.
MarkDispatchedBatch(p) ==
  /\ poller[p].added
  /\ dispatched' = dispatched \cup {poller[p].batch[i] : i \in DOMAIN poller[p].batch}
  /\ poller' = [poller EXCEPT ![p] = idlePoller]
  /\ UNCHANGED <<written, jobs, worker, claims, effects, faults>>

MarkDispatched(p) ==
  /\ poller[p].added
  /\ dispatched' = dispatched \cup {Head(poller[p].batch)}
  /\ poller' = [poller EXCEPT ![p] = [batch |-> Tail(@.batch), added |-> FALSE]]
  /\ UNCHANGED <<written, jobs, worker, claims, effects, faults>>

\* The add or the update throws: the rest of the batch is dropped.
RelayFails(p) ==
  /\ poller[p].batch # <<>>
  /\ strike("relayError")
  /\ poller' = [poller EXCEPT ![p] = idlePoller]
  /\ UNCHANGED <<written, dispatched, jobs, worker, claims, effects>>

-----------------------------------------------------------------------------
(* The worker: one job at a time, its handlers in order. *)

TakeJob(p, e) ==
  /\ worker[p].job = Free
  /\ jobs[e].state = "waiting"
  /\ jobs' = [jobs EXCEPT ![e].state = "active", ![e].lock = p]
  /\ worker' = [worker EXCEPT ![p] = [job |-> e, next |-> 1, phase |-> "claim"]]
  /\ UNCHANGED <<written, dispatched, poller, claims, effects, faults>>

handlersLeft(p) ==
  worker[p].job # Free /\ worker[p].next <= Len(handlersFor[worker[p].job])

\* The handler p is at, with its event.
dutyOf(p) == <<handlersFor[worker[p].job][worker[p].next], worker[p].job>>

\* Faulty: the answer of SET NX is not looked at.
ClaimRegardless(p) ==
  /\ handlersLeft(p)
  /\ worker[p].phase = "claim"
  /\ claims' = claims \cup {dutyOf(p)}
  /\ worker' = [worker EXCEPT ![p].phase = "run"]
  /\ UNCHANGED <<written, dispatched, poller, jobs, effects, faults>>

\* SET NX: the handler is run by whoever sets the key, and passed over by others.
Claim(p) ==
  /\ handlersLeft(p)
  /\ worker[p].phase = "claim"
  /\ claims' = claims \cup {dutyOf(p)}
  /\ worker' = [worker EXCEPT ![p] =
                  IF dutyOf(p) \in claims
                  THEN [worker[p] EXCEPT !.next = @ + 1]
                  ELSE [worker[p] EXCEPT !.phase = "run"]]
  /\ UNCHANGED <<written, dispatched, poller, jobs, effects, faults>>

HandlerCommits(p) ==
  /\ worker[p].phase = "run"
  /\ effects' = [effects EXCEPT ![dutyOf(p)] = @ + 1]
  /\ worker' = [worker EXCEPT ![p].next = @ + 1, ![p].phase = "claim"]
  /\ UNCHANGED <<written, dispatched, poller, jobs, claims, faults>>

\* Faulty: the claim of a handler that failed is kept.
HandlerThrowsKeepingClaim(p) ==
  /\ worker[p].phase = "run"
  /\ strike("handlerError")
  /\ worker' = [worker EXCEPT ![p].phase = "fail"]
  /\ UNCHANGED <<written, dispatched, poller, jobs, claims, effects>>

\* The handler's transaction rolled back: the claim goes first.
HandlerThrows(p) ==
  /\ worker[p].phase = "run"
  /\ strike("handlerError")
  /\ claims' = claims \ {dutyOf(p)}
  /\ worker' = [worker EXCEPT ![p].phase = "fail"]
  /\ UNCHANGED <<written, dispatched, poller, jobs, effects>>

\* SET NX fails, or was executed and its answer is lost; or a handler throws and
\* its claim cannot be deleted.
RedisFails(p) ==
  /\ handlersLeft(p) /\ worker[p].phase \in {"claim", "run"}
  /\ strike("redisError")
  /\ \/ UNCHANGED claims
     \/ worker[p].phase = "claim" /\ claims' = claims \cup {dutyOf(p)}
  /\ worker' = [worker EXCEPT ![p].phase = "fail"]
  /\ UNCHANGED <<written, dispatched, poller, jobs, effects>>

\* Only the holder of the job's lock may settle it; the answer of a worker that
\* lost the lock is refused.
settle(p, outcome) ==
  LET e == worker[p].job
  IN  /\ jobs' = [jobs EXCEPT ![e] = IF @.lock = p THEN outcome ELSE @]
      /\ worker' = [worker EXCEPT ![p] = idleWorker]

\* The error reaches BullMQ: another attempt, until there are none left.
JobFails(p) ==
  LET job == jobs[worker[p].job]
      made == job.attemptsMade + 1
  IN  /\ worker[p].phase = "fail"
      /\ settle(p, [job EXCEPT !.attemptsMade = made, !.lock = Free,
                     !.state = IF made < MaxAttempts THEN "waiting" ELSE "failed"])
      /\ UNCHANGED <<written, dispatched, poller, claims, effects, faults>>

JobCompletes(p) ==
  /\ worker[p].job # Free
  /\ ~handlersLeft(p)
  /\ settle(p, [noJob EXCEPT !.state = "removed"])
  /\ UNCHANGED <<written, dispatched, poller, claims, effects, faults>>

-----------------------------------------------------------------------------
(* Stalls and crashes. *)

\* The job is handed out again the first time its lock lapses, failed the second.
moveStalled(e) ==
  jobs' = [jobs EXCEPT ![e].stalled = @ + 1, ![e].lock = Free,
                       ![e].state = IF jobs[e].stalled = 0 THEN "waiting" ELSE "failed"]

\* The worker lives but renews too late.
LockLapses(e) ==
  /\ jobs[e].state = "active" /\ worker[jobs[e].lock].job = e
  /\ strike("lapse")
  /\ moveStalled(e)
  /\ UNCHANGED <<written, dispatched, poller, worker, claims, effects>>

\* The worker that held the lock is gone.
ReclaimStalled(e) ==
  /\ jobs[e].state = "active" /\ worker[jobs[e].lock].job # e
  /\ moveStalled(e)
  /\ UNCHANGED <<written, dispatched, poller, worker, claims, effects, faults>>

Crash(p) ==
  /\ strike("crash")
  /\ poller' = [poller EXCEPT ![p] = idlePoller]
  /\ worker' = [worker EXCEPT ![p] = idleWorker]
  /\ UNCHANGED <<written, dispatched, jobs, claims, effects>>

-----------------------------------------------------------------------------
Relay(p) == Poll(p) \/ Enqueue(p) \/ MarkDispatched(p)

Work(p) ==
  \/ \E e \in Events : TakeJob(p, e)
  \/ Claim(p) \/ HandlerCommits(p) \/ HandlerThrows(p) \/ RedisFails(p)
  \/ JobFails(p) \/ JobCompletes(p)

Next ==
  \/ \E p \in Processes : Relay(p) \/ Work(p) \/ RelayFails(p) \/ Crash(p)
  \/ \E e \in Events : WriteEvent(e) \/ LockLapses(e) \/ ReclaimStalled(e)

Spec == Init /\ [][Next]_vars

\* setInterval polls every second, an idle worker fetches, BullMQ looks for
\* stalled jobs every 30 seconds.  Nothing makes a request write an event.
FairSpec ==
  /\ Spec
  /\ \A p \in Processes : WF_vars(Relay(p)) /\ WF_vars(Work(p))
  /\ \A e \in Events : WF_vars(ReclaimStalled(e))

-----------------------------------------------------------------------------
(* Properties. *)

duties == {d \in Handlers \X Events :
             \E i \in DOMAIN handlersFor[d[2]] : handlersFor[d[2]][i] = d[1]}

\* A row is marked dispatched only once the queue has a job for it: a poller
\* that fails or dies between the two leaves a row that is polled again.
DispatchedWasQueued == \A e \in dispatched : jobs[e].state # "none"

\* A job only leaves the queue when each of its handlers has run, so that
\* forgetting it (removeOnComplete) forgets nothing.
CompletedWasHandled ==
  \A d \in duties : jobs[d[2]].state = "removed" => effects[d] > 0

\* R4: "Outbox guarantees no event is lost".  domain-events.worker.ts: "the
\* idempotency key is only written on success".  Either way every handler of a
\* committed event gets to act on it.
EveryEventHandled == \A d \in duties : isWritten(d[2]) ~> effects[d] > 0

Delivery == INSTANCE EventDelivery WITH
  Emission <- Events,
  Duty <- Handlers \X Events,
  emitted <- {e \in Events : isWritten(e)},
  acted <- effects

\* A handler acts at most once on an event, and only on a committed one, however
\* often the event is polled, added and delivered.
ImplementsDelivery == Delivery!DeliverySpec

=============================================================================
