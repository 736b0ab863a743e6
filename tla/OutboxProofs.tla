---------------------------- MODULE OutboxProofs ----------------------------
(***************************************************************************)
(* Proofs about Outbox, for any processes, events, registry and faults.    *)
(*                                                                         *)
(* That a handler acts at most once is decided by the claims: whoever runs *)
(* a handler holds its claim, alone, on an event it has not acted on, and  *)
(* a claim outlives every action on its event.  That it acts on committed  *)
(* events only holds of the whole way an event takes: what is polled,      *)
(* queued or in a worker's hands has been written.                         *)
(***************************************************************************)
EXTENDS Outbox, TLAPS

\* What a poller holds was written; what it is about to mark is in the queue.
PollerInv ==
  \A p \in Processes :
    /\ \A i \in DOMAIN poller[p].batch : isWritten(poller[p].batch[i])
    /\ poller[p].added => /\ poller[p].batch # <<>>
                          /\ jobs[Head(poller[p].batch)].state # "none"

QueueInv == \A e \in Events : jobs[e].state # "none" => isWritten(e)

\* A worker that runs a handler has a job with that handler.
WorkerInv ==
  \A p \in Processes :
    /\ worker[p].next >= 1
    /\ worker[p].job # Free => isWritten(worker[p].job)
    /\ worker[p].phase = "run" => handlersLeft(p)
    /\ worker[p].phase = "fail" => worker[p].job # Free

isRunning(p, d) == worker[p].phase = "run" /\ dutyOf(p) = d

\* A handler runs under a claim of its own; one that acted is never run again.
ClaimInv ==
  \A d \in Handlers \X Events :
    /\ effects[d] > 0 => d \in claims
    /\ \A p \in Processes : isRunning(p, d) =>
         /\ d \in claims
         /\ effects[d] = 0
         /\ \A q \in Processes \ {p} : ~isRunning(q, d)

IInv == /\ TypeOK
        /\ PollerInv
        /\ QueueInv
        /\ WorkerInv
        /\ ClaimInv
        /\ DispatchedWasQueued

-----------------------------------------------------------------------------
(* While Redis answers, no lock lapses and no process dies, a job has one    *)
(* worker, and a claim is that of a handler that acted or runs.              *)

isCalm == faults["redisError"] = 0 /\ faults["lapse"] = 0 /\ faults["crash"] = 0

\* A worker and its job know of each other.
PairedInv ==
  /\ \A p \in Processes : worker[p].job # Free =>
       jobs[worker[p].job].state = "active" /\ jobs[worker[p].job].lock = p
  /\ \A e \in Events : jobs[e].state = "active" =>
       jobs[e].lock \in Processes /\ worker[jobs[e].lock].job = e

\* The handlers a worker is past have acted.
ProgressInv ==
  \A p \in Processes : worker[p].job # Free =>
    \A i \in DOMAIN handlersFor[worker[p].job] : i < worker[p].next =>
      effects[<<handlersFor[worker[p].job][i], worker[p].job>>] > 0

\* A claim was not made in vain: its handler has acted, or is at it.
ClaimedInv ==
  \A d \in claims : effects[d] > 0 \/ \E p \in Processes : isRunning(p, d)

CalmInv == isCalm => PairedInv /\ ProgressInv /\ ClaimedInv /\ CompletedWasHandled

-----------------------------------------------------------------------------
(* Lemmas about the values that the actions write. *)

Job == [state : JobState, attemptsMade : Nat, stalled : Nat, lock : Processes \cup {Free}]
Relayer == [batch : Seq(Events), added : BOOLEAN]
Consumer == [job : Events \cup {Free}, next : Nat, phase : Phase]

\* The parts of the state that actions share, by type.
LEMMA Types ==
  TypeOK <=> /\ written \in Seq(Events)
             /\ dispatched \subseteq Events
             /\ poller \in [Processes -> Relayer]
             /\ jobs \in [Events -> Job]
             /\ worker \in [Processes -> Consumer]
             /\ claims \subseteq Handlers \X Events
             /\ effects \in [Handlers \X Events -> Nat]
             /\ faults \in [FaultKind -> Nat]
BY DEF TypeOK, Relayer, Job, Consumer

\* A poller with nothing in hand, and one with a batch.
LEMMA RelayerFields ==
  /\ idlePoller \in Relayer /\ idlePoller.batch = <<>> /\ ~idlePoller.added
  /\ \A batch \in Seq(Events) :
       /\ [batch |-> batch, added |-> FALSE] \in Relayer
       /\ [batch |-> batch, added |-> FALSE].batch = batch
       /\ ~[batch |-> batch, added |-> FALSE].added
<1>1. <<>> \in Seq(Events)
  OBVIOUS
<1>2. QED
  BY <1>1, Zenon DEF idlePoller, Relayer

\* A poller whose head was added, or that took a batch.
LEMMA RelayerUpdates ==
  ASSUME NEW r \in Relayer, NEW batch \in Seq(Events)
  PROVE  /\ r.batch \in Seq(Events)
         /\ [r EXCEPT !.added = TRUE] \in Relayer
         /\ [r EXCEPT !.added = TRUE].batch = r.batch
         /\ [r EXCEPT !.batch = batch] \in Relayer
         /\ [r EXCEPT !.batch = batch].batch = batch
         /\ [r EXCEPT !.batch = batch].added <=> r.added
BY Zenon DEF Relayer

\* A worker with nothing in hand, and one that starts on a job.
LEMMA ConsumerFields ==
  /\ idleWorker \in Consumer /\ idleWorker.job = Free
  /\ idleWorker.next = 1 /\ idleWorker.phase = "claim"
  /\ \A e \in Events : [job |-> e, next |-> 1, phase |-> "claim"] \in Consumer
BY DEF idleWorker, Consumer, Phase

\* A worker that goes on to the next handler, runs the one it is at, or fails.
LEMMA ConsumerTypes ==
  ASSUME NEW w \in Consumer
  PROVE  w.job \in Events \cup {Free} /\ w.next \in Nat /\ w.phase \in Phase
BY DEF Consumer

\* A worker goes on without running the handler, which was claimed before.
LEMMA ConsumerPassesOver ==
  ASSUME NEW w \in Consumer
  PROVE  /\ [w EXCEPT !.next = @ + 1] \in Consumer
         /\ [w EXCEPT !.next = @ + 1].job = w.job
         /\ [w EXCEPT !.next = @ + 1].next = w.next + 1
         /\ [w EXCEPT !.next = @ + 1].phase = w.phase
BY DEF Consumer

\* A worker comes to another phase at the handler it is at.
LEMMA ConsumerEnters ==
  ASSUME NEW w \in Consumer, NEW phase \in Phase
  PROVE  /\ [w EXCEPT !.phase = phase] \in Consumer
         /\ [w EXCEPT !.phase = phase].job = w.job
         /\ [w EXCEPT !.phase = phase].next = w.next
         /\ [w EXCEPT !.phase = phase].phase = phase
BY DEF Consumer

\* A worker is done with the handler it ran.
LEMMA ConsumerGoesOn ==
  ASSUME NEW w \in Consumer
  PROVE  /\ [w EXCEPT !.next = @ + 1, !.phase = "claim"] \in Consumer
         /\ [w EXCEPT !.next = @ + 1, !.phase = "claim"].job = w.job
         /\ [w EXCEPT !.next = @ + 1, !.phase = "claim"].next = w.next + 1
         /\ [w EXCEPT !.next = @ + 1, !.phase = "claim"].phase = "claim"
<1>1. PICK v \in Consumer : /\ v = [w EXCEPT !.next = @ + 1]
                            /\ v.job = w.job /\ v.next = w.next + 1
  BY ConsumerPassesOver
<1>2. [w EXCEPT !.next = @ + 1, !.phase = "claim"] = [v EXCEPT !.phase = "claim"]
  BY <1>1
<1>3. QED
  BY <1>1, <1>2, ConsumerEnters DEF Phase

\* A job that a worker takes, fails or leaves to the next one.
LEMMA JobIsTaken ==
  ASSUME NEW j \in Job, NEW p \in Processes
  PROVE  /\ [j EXCEPT !.state = "active", !.lock = p] \in Job
         /\ [j EXCEPT !.state = "active", !.lock = p].state = "active"
         /\ [j EXCEPT !.state = "active", !.lock = p].lock = p
BY DEF Job, JobState

\* A job is put back, or given up, with one more attempt made.
LEMMA JobIsFailed ==
  ASSUME NEW j \in Job, NEW made \in Nat, NEW state \in JobState
  PROVE  /\ [j EXCEPT !.attemptsMade = made, !.lock = Free, !.state = state] \in Job
         /\ [j EXCEPT !.attemptsMade = made, !.lock = Free, !.state = state].state = state
BY DEF Job

\* A job is taken from a worker whose lock has lapsed.
LEMMA JobIsStalled ==
  ASSUME NEW j \in Job, NEW state \in JobState
  PROVE  /\ [j EXCEPT !.stalled = @ + 1, !.lock = Free, !.state = state] \in Job
         /\ [j EXCEPT !.stalled = @ + 1, !.lock = Free, !.state = state].state = state
<1>1. PICK n \in Nat : n = j.stalled + 1
  BY DEF Job
<1>2. /\ [j EXCEPT !.stalled = n, !.lock = Free, !.state = state] \in Job
      /\ [j EXCEPT !.stalled = n, !.lock = Free, !.state = state].state = state
  BY DEF Job
<1>3. QED
  BY <1>1, <1>2

\* A job that is new, and one that is done.
LEMMA NewJobFields ==
  /\ noJob \in Job /\ noJob.state = "none"
  /\ [noJob EXCEPT !.state = "waiting"] \in Job
  /\ [noJob EXCEPT !.state = "waiting"].state = "waiting"
  /\ [noJob EXCEPT !.state = "removed"] \in Job
  /\ [noJob EXCEPT !.state = "removed"].state = "removed"
BY DEF noJob, Job, JobState

\* Faults of one kind are counted, the others are not.
LEMMA Strike ==
  ASSUME TypeOK, NEW kind \in FaultKind, strike(kind)
  PROVE  /\ faults' \in [FaultKind -> Nat]
         /\ faults'[kind] = faults[kind] + 1
         /\ \A k \in FaultKind \ {kind} : faults'[k] = faults[k]
BY DEF TypeOK, strike

-----------------------------------------------------------------------------
(* What the two halves share: the poller's part of the invariant does not    *)
(* look at the workers, nor theirs at the queue.                             *)

\* What concerns the workers alone survives the steps of the poller and of the queue.
LEMMA FrameWorker ==
  ASSUME WorkerInv, ClaimInv, UNCHANGED <<written, worker, claims, effects>>
  PROVE  WorkerInv' /\ ClaimInv'
BY DEF WorkerInv, ClaimInv, isWritten, handlersLeft, isRunning, dutyOf

\* Workers take and settle jobs; none is lost, and none is of an unwritten event.
LEMMA FramePoller ==
  ASSUME TypeOK, PollerInv, QueueInv, DispatchedWasQueued,
         UNCHANGED <<written, dispatched, poller>>,
         \A e \in Events : /\ jobs[e].state # "none" => jobs'[e].state # "none"
                           /\ jobs'[e].state # "none" => isWritten(e)
  PROVE  PollerInv' /\ QueueInv' /\ DispatchedWasQueued'
<1>1. ASSUME NEW p \in Processes, poller[p].added PROVE Head(poller[p].batch) \in Events
  <2>1. poller[p].batch \in Seq(Events) /\ poller[p].batch # <<>>
    BY <1>1, Types, RelayerUpdates DEF PollerInv
  <2>2. QED
    BY <2>1
<1>2. dispatched \subseteq Events
  BY DEF TypeOK
<1>3. QED
  BY <1>1, <1>2 DEF PollerInv, QueueInv, DispatchedWasQueued, isWritten

\* Nothing is written, queued or claimed at first.
LEMMA InitIInv == Init => IInv /\ CalmInv
<1> SUFFICES ASSUME Init PROVE IInv /\ CalmInv
  OBVIOUS
<1>1. TypeOK
  <2>1. <<>> \in Seq(Events)
    OBVIOUS
  <2>2. QED
    BY <2>1, Types, RelayerFields, ConsumerFields, NewJobFields DEF Init
<1>2. PollerInv
  BY RelayerFields DEF Init, PollerInv
<1>3. QueueInv
  BY NewJobFields DEF Init, QueueInv
<1>4. WorkerInv
  BY DEF Init, WorkerInv, idleWorker
<1>5. ClaimInv
  BY DEF Init, ClaimInv, isRunning, idleWorker
<1>6. DispatchedWasQueued
  BY DEF Init, DispatchedWasQueued
<1>7. CalmInv
  BY OutboxAssumption
  DEF Init, CalmInv, PairedInv, ProgressInv, ClaimedInv, CompletedWasHandled, duties,
      idleWorker, noJob
<1>8. QED
  BY <1>1, <1>2, <1>3, <1>4, <1>5, <1>6, <1>7 DEF IInv

-----------------------------------------------------------------------------
(* The poller. *)

\* A use case commits an event: the others stay written.
LEMMA WriteEventIInv ==
  ASSUME IInv, NEW e \in Events, WriteEvent(e)
  PROVE  IInv'
<1>1. /\ written' = Append(written, e) /\ written \in Seq(Events)
      /\ UNCHANGED <<dispatched, poller, jobs, worker, claims, effects, faults>>
  BY DEF WriteEvent, IInv, TypeOK
<1>2. ASSUME NEW d, isWritten(d) PROVE isWritten(d)'
  BY <1>1, <1>2 DEF isWritten
<1>3. TypeOK'
  BY <1>1 DEF IInv, TypeOK
<1>4. PollerInv'
  BY <1>1, <1>2 DEF IInv, PollerInv, isWritten
<1>5. QueueInv' /\ WorkerInv'
  BY <1>1, <1>2 DEF IInv, QueueInv, WorkerInv, handlersLeft, isWritten
<1>6. ClaimInv' /\ DispatchedWasQueued'
  BY <1>1 DEF IInv, ClaimInv, isRunning, dutyOf, DispatchedWasQueued
<1>7. QED
  BY <1>3, <1>4, <1>5, <1>6 DEF IInv

\* One poller moves on; the queue forgets no job meanwhile.
LEMMA WritePoller ==
  ASSUME TypeOK, PollerInv, NEW p \in Processes, NEW r \in Relayer,
         poller' = [poller EXCEPT ![p] = r], UNCHANGED written,
         \A e \in Events : jobs[e].state # "none" => jobs'[e].state # "none",
         \A i \in DOMAIN r.batch : isWritten(r.batch[i]),
         r.added => r.batch # <<>> /\ jobs'[Head(r.batch)].state # "none"
  PROVE  poller' \in [Processes -> Relayer] /\ PollerInv'
<1>1. /\ poller' \in [Processes -> Relayer] /\ poller'[p] = r
      /\ \A q \in Processes \ {p} : poller'[q] = poller[q]
  BY Types
<1>2. \A e : isWritten(e)' <=> isWritten(e)
  BY DEF isWritten
<1>3. ASSUME NEW q \in Processes, poller[q].added PROVE Head(poller[q].batch) \in Events
  <2>1. poller[q].batch \in Seq(Events) /\ poller[q].batch # <<>>
    BY <1>3, Types, RelayerUpdates DEF PollerInv
  <2>2. QED
    BY <2>1
<1>4. QED
  BY <1>1, <1>2, <1>3 DEF PollerInv

\* The poller takes rows that are in the outbox.
LEMMA PollIInv ==
  ASSUME IInv, NEW p \in Processes, Poll(p)
  PROVE  IInv'
<1>1. PICK n \in 1..BatchSize : \E batch \in [1..n -> undispatched] :
        poller' = [poller EXCEPT ![p].batch = batch]
  BY DEF Poll
<1>2. PICK batch \in [1..n -> undispatched] : poller' = [poller EXCEPT ![p].batch = batch]
  BY <1>1
<1>3. /\ poller[p].batch = <<>>
      /\ UNCHANGED <<written, dispatched, jobs, worker, claims, effects, faults>>
  BY DEF Poll
<1>4. poller[p] \in Relayer /\ ~poller[p].added
  BY <1>3, Types DEF IInv, PollerInv
<1>5. batch \in Seq(Events) /\ \A i \in DOMAIN batch : isWritten(batch[i])
  BY OutboxAssumption DEF undispatched
<1>6. PICK r : /\ r = [poller[p] EXCEPT !.batch = batch]
               /\ r \in Relayer /\ r.batch = batch /\ ~r.added
  BY <1>4, <1>5, RelayerUpdates
<1>7. poller' = [poller EXCEPT ![p] = r]
  BY <1>2, <1>6
<1>8. poller' \in [Processes -> Relayer] /\ PollerInv'
  BY <1>3, <1>5, <1>6, <1>7, WritePoller DEF IInv
<1>9. TypeOK'
  BY <1>3, <1>8 DEF IInv, TypeOK, Relayer
<1>10. QED
  BY <1>3, <1>8, <1>9, FrameWorker
  DEF IInv, QueueInv, DispatchedWasQueued, isWritten

\* queue.add leaves a job that the queue knows, and makes any other a waiting one.
LEMMA AddJob ==
  ASSUME TypeOK, NEW e \in Events, addJob(e)
  PROVE  /\ jobs' \in [Events -> Job]
         /\ jobs'[e].state \notin {"none", "removed"}
         /\ isKnown(jobs[e]) => jobs'[e] = jobs[e]
         /\ ~isKnown(jobs[e]) => jobs'[e].state = "waiting"
         /\ \A d \in Events \ {e} : jobs'[d] = jobs[d]
<1>. DEFINE new == [noJob EXCEPT !.state = "waiting"]
<1>1. new \in Job /\ new.state = "waiting" /\ jobs \in [Events -> Job]
  BY NewJobFields, Types
<1>2. jobs' = [jobs EXCEPT ![e] = IF isKnown(jobs[e]) THEN jobs[e] ELSE new]
  BY DEF addJob
<1>. HIDE DEF new
<1>3. QED
  BY <1>1, <1>2 DEF isKnown

\* The job of the batch's head is in the queue when it is marked, new or not.
LEMMA EnqueueIInv ==
  ASSUME IInv, NEW p \in Processes, Enqueue(p)
  PROVE  IInv'
<1>1. PICK e : e = Head(poller[p].batch)
  OBVIOUS
<1>2. /\ poller[p].batch # <<>> /\ addJob(e)
      /\ poller' = [poller EXCEPT ![p] = [poller[p] EXCEPT !.added = TRUE]]
      /\ UNCHANGED <<written, dispatched, worker, claims, effects, faults>>
  BY <1>1 DEF Enqueue
<1>3. poller[p] \in Relayer /\ poller[p].batch \in Seq(Events)
  BY Types, RelayerUpdates DEF IInv
<1>4. e \in Events /\ isWritten(e)
  BY <1>1, <1>2, <1>3 DEF IInv, PollerInv
<1>5. PICK r \in Relayer : /\ r = [poller[p] EXCEPT !.added = TRUE]
                           /\ r.batch = poller[p].batch
  BY <1>3, RelayerUpdates
<1>6. poller' = [poller EXCEPT ![p] = r]
  BY <1>2, <1>5
<1>7. /\ jobs' \in [Events -> Job] /\ jobs'[e].state # "none"
      /\ \A d \in Events : jobs[d].state # "none" => jobs'[d].state # "none"
      /\ \A d \in Events \ {e} : jobs'[d] = jobs[d]
  BY <1>2, <1>4, AddJob DEF IInv, isKnown
<1>8. poller' \in [Processes -> Relayer] /\ PollerInv'
  <2>1. \A i \in DOMAIN r.batch : isWritten(r.batch[i])
    BY <1>5 DEF IInv, PollerInv
  <2>2. r.batch # <<>> /\ jobs'[Head(r.batch)].state # "none"
    BY <1>1, <1>2, <1>5, <1>7
  <2>3. QED
    BY <1>2, <1>6, <1>7, <2>1, <2>2, WritePoller DEF IInv
<1>9. TypeOK'
  BY <1>2, <1>7, <1>8 DEF IInv, TypeOK, Relayer, Job
<1>10. QueueInv'
  BY <1>2, <1>4, <1>7 DEF IInv, QueueInv, isWritten
<1>11. DispatchedWasQueued'
  BY <1>2, <1>7 DEF IInv, TypeOK, DispatchedWasQueued
<1>12. QED
  BY <1>2, <1>8, <1>9, <1>10, <1>11, FrameWorker DEF IInv

\* A row is marked once its job was added, and what is left of the batch is not.
LEMMA MarkDispatchedIInv ==
  ASSUME IInv, NEW p \in Processes, MarkDispatched(p)
  PROVE  IInv'
<1>. DEFINE rest == Tail(poller[p].batch)
<1>1. /\ poller[p].added
      /\ dispatched' = dispatched \cup {Head(poller[p].batch)}
      /\ poller' = [poller EXCEPT ![p] = [batch |-> rest, added |-> FALSE]]
      /\ UNCHANGED <<written, jobs, worker, claims, effects, faults>>
  BY DEF MarkDispatched
<1>2. /\ poller[p].batch \in Seq(Events) /\ poller[p].batch # <<>>
      /\ jobs[Head(poller[p].batch)].state # "none"
      /\ \A i \in DOMAIN poller[p].batch : isWritten(poller[p].batch[i])
  BY <1>1, Types, RelayerUpdates DEF IInv, PollerInv
<1>3. /\ Head(poller[p].batch) \in Events /\ rest \in Seq(Events)
      /\ \A i \in DOMAIN rest : isWritten(rest[i])
  <2>1. \A i \in DOMAIN rest : i + 1 \in DOMAIN poller[p].batch /\ rest[i] = poller[p].batch[i + 1]
    BY <1>2
  <2>2. QED
    BY <1>2, <2>1
<1>4. PICK r \in Relayer : /\ r = [batch |-> rest, added |-> FALSE]
                           /\ r.batch = rest /\ ~r.added
  BY <1>3, RelayerFields
<1>5. poller' \in [Processes -> Relayer] /\ PollerInv'
  BY <1>1, <1>3, <1>4, WritePoller DEF IInv
<1>6. TypeOK'
  BY <1>1, <1>3, <1>5 DEF IInv, TypeOK, Relayer
<1>7. QueueInv' /\ DispatchedWasQueued'
  BY <1>1, <1>2 DEF IInv, QueueInv, DispatchedWasQueued, isWritten
<1>8. QED
  BY <1>1, <1>5, <1>6, <1>7, FrameWorker DEF IInv

\* A poller that gives up marks nothing.
LEMMA RelayFailsIInv ==
  ASSUME IInv, NEW p \in Processes, RelayFails(p)
  PROVE  IInv'
<1>1. /\ poller' = [poller EXCEPT ![p] = idlePoller] /\ strike("relayError")
      /\ UNCHANGED <<written, dispatched, jobs, worker, claims, effects>>
  BY DEF RelayFails
<1>2. PICK r \in Relayer : r = idlePoller /\ r.batch = <<>> /\ ~r.added
  BY RelayerFields
<1>3. poller' \in [Processes -> Relayer] /\ PollerInv'
  <2>1. \A i \in DOMAIN r.batch : isWritten(r.batch[i])
    BY <1>2
  <2>2. poller' = [poller EXCEPT ![p] = r]
    BY <1>1, <1>2
  <2>3. QED
    BY <1>1, <1>2, <2>1, <2>2, WritePoller DEF IInv
<1>4. faults' \in [FaultKind -> Nat]
  BY <1>1, Strike DEF IInv, FaultKind
<1>5. TypeOK'
  BY <1>1, <1>3, <1>4 DEF IInv, TypeOK, Relayer
<1>6. QED
  BY <1>1, <1>3, <1>5, FrameWorker DEF IInv, QueueInv, DispatchedWasQueued, isWritten

-----------------------------------------------------------------------------
(* The worker. *)

\* One worker moves on.
LEMMA WriteWorker ==
  ASSUME TypeOK, WorkerInv, NEW p \in Processes, NEW w \in Consumer,
         worker' = [worker EXCEPT ![p] = w], UNCHANGED written,
         w.next >= 1, w.job # Free => isWritten(w.job),
         w.phase = "run" => w.job # Free /\ w.next <= Len(handlersFor[w.job]),
         w.phase = "fail" => w.job # Free
  PROVE  /\ worker' \in [Processes -> Consumer] /\ worker'[p] = w
         /\ \A q \in Processes \ {p} : worker'[q] = worker[q]
         /\ WorkerInv'
<1>1. /\ worker' \in [Processes -> Consumer] /\ worker'[p] = w
      /\ \A q \in Processes \ {p} : worker'[q] = worker[q]
  BY Types
<1>2. \A e : isWritten(e)' <=> isWritten(e)
  BY DEF isWritten
<1>3. QED
  BY <1>1, <1>2 DEF WorkerInv, handlersLeft

\* The duty of a worker at a handler is a duty.
LEMMA DutyOf ==
  ASSUME TypeOK, WorkerInv, NEW p \in Processes, handlersLeft(p)
  PROVE  /\ worker[p].job \in Events
         /\ worker[p].next \in DOMAIN handlersFor[worker[p].job]
         /\ dutyOf(p) \in Handlers \X Events
<1>1. worker[p] \in Consumer
  BY Types
<1>2. worker[p].job \in Events /\ worker[p].next \in Nat \ {0}
  BY <1>1 DEF Consumer, handlersLeft, WorkerInv
<1>3. handlersFor[worker[p].job] \in Seq(Handlers)
  BY <1>2, OutboxAssumption
<1>4. worker[p].next \in DOMAIN handlersFor[worker[p].job]
  BY <1>2, <1>3 DEF handlersLeft
<1>5. QED
  BY <1>2, <1>3, <1>4 DEF dutyOf

\* The others stay where they are.
LEMMA OthersRun ==
  ASSUME NEW q \in Processes, worker'[q] = worker[q], NEW d
  PROVE  isRunning(q, d)' <=> isRunning(q, d)
BY DEF isRunning, dutyOf

\* A worker that runs nothing afterwards disturbs no claim.
LEMMA StopsRunning ==
  ASSUME ClaimInv, NEW p \in Processes, worker'[p].phase # "run",
         \A q \in Processes \ {p} : worker'[q] = worker[q],
         claims \subseteq claims', UNCHANGED effects
  PROVE  ClaimInv'
<1>1. \A d : ~isRunning(p, d)'
  BY DEF isRunning
<1>2. QED
  BY <1>1, OthersRun DEF ClaimInv

\* Handing a job out changes its state and its lock.
LEMMA TakeJobStep ==
  ASSUME IInv, NEW p \in Processes, NEW e \in Events, TakeJob(p, e)
  PROVE  /\ worker[p].job = Free /\ jobs[e].state = "waiting" /\ isWritten(e)
         /\ jobs' \in [Events -> Job] /\ jobs'[e].state = "active" /\ jobs'[e].lock = p
         /\ \A d \in Events \ {e} : jobs'[d] = jobs[d]
         /\ worker'[p].job = e /\ worker'[p].next = 1 /\ worker'[p].phase = "claim"
         /\ worker' \in [Processes -> Consumer] /\ WorkerInv'
         /\ \A q \in Processes \ {p} : worker'[q] = worker[q]
         /\ UNCHANGED <<written, dispatched, poller, claims, effects, faults>>
<1>1. /\ worker[p].job = Free /\ jobs[e].state = "waiting" /\ jobs[e] \in Job
      /\ jobs' = [jobs EXCEPT ![e] = [jobs[e] EXCEPT !.state = "active", !.lock = p]]
      /\ worker' = [worker EXCEPT ![p] = [job |-> e, next |-> 1, phase |-> "claim"]]
      /\ UNCHANGED <<written, dispatched, poller, claims, effects, faults>>
  BY Types DEF TakeJob, IInv
<1>2. PICK j \in Job : /\ j = [jobs[e] EXCEPT !.state = "active", !.lock = p]
                       /\ j.state = "active" /\ j.lock = p
  <2>1. PICK k \in Job : k = jobs[e]
    BY <1>1
  <2>2. QED
    BY <2>1, JobIsTaken
<1>3. PICK w \in Consumer : /\ w = [job |-> e, next |-> 1, phase |-> "claim"]
                            /\ w.job = e /\ w.next = 1 /\ w.phase = "claim"
  BY ConsumerFields
<1>4. isWritten(e)
  BY <1>1 DEF IInv, QueueInv
<1>5. /\ jobs' \in [Events -> Job] /\ jobs'[e] = j
      /\ \A d \in Events \ {e} : jobs'[d] = jobs[d]
  BY <1>1, <1>2, Types DEF IInv
<1>6. /\ worker' \in [Processes -> Consumer] /\ worker'[p] = w
      /\ \A q \in Processes \ {p} : worker'[q] = worker[q]
      /\ WorkerInv'
  <2>1. worker' = [worker EXCEPT ![p] = w]
    BY <1>1, <1>3
  <2>2. /\ w.next >= 1 /\ isWritten(w.job) /\ w.phase # "run" /\ w.phase # "fail"
    BY <1>3, <1>4
  <2>3. QED
    BY <1>1, <2>1, <2>2, WriteWorker DEF IInv
<1>7. QED
  BY <1>1, <1>2, <1>3, <1>4, <1>5, <1>6

\* A worker takes a job of an event that was written, and runs no handler yet.
LEMMA TakeJobIInv ==
  ASSUME IInv, NEW p \in Processes, NEW e \in Events, TakeJob(p, e)
  PROVE  IInv'
<1>1. TypeOK'
  <2>1. /\ jobs' \in [Events -> Job] /\ worker' \in [Processes -> Consumer]
        /\ UNCHANGED <<written, dispatched, poller, claims, effects, faults>>
    BY TakeJobStep
  <2>2. QED
    BY <2>1 DEF IInv, TypeOK, Job, Consumer
<1>2. PollerInv' /\ QueueInv' /\ DispatchedWasQueued'
  BY TakeJobStep, FramePoller DEF IInv, QueueInv
<1>3. ClaimInv'
  BY TakeJobStep, StopsRunning DEF IInv
<1>4. QED
  BY <1>1, <1>2, <1>3, TakeJobStep DEF IInv

\* SET NX: a key that is there is passed over, any other is set.
LEMMA ClaimStep ==
  ASSUME IInv, NEW p \in Processes, Claim(p)
  PROVE  LET d == dutyOf(p)
         IN  /\ d \in Handlers \X Events /\ worker[p].phase = "claim" /\ worker[p].job # Free
             /\ worker[p].job \in Events /\ worker[p].next \in Nat
             /\ claims' = claims \cup {d} /\ worker'[p].job = worker[p].job
             /\ d \in claims => /\ worker'[p].next = worker[p].next + 1
                                /\ worker'[p].phase = "claim"
             /\ d \notin claims => /\ worker'[p].next = worker[p].next
                                   /\ worker'[p].phase = "run"
             /\ worker' \in [Processes -> Consumer] /\ WorkerInv'
             /\ \A q \in Processes \ {p} : worker'[q] = worker[q]
             /\ UNCHANGED <<written, dispatched, poller, jobs, effects, faults>>
<1>. DEFINE d == dutyOf(p)
<1>1. /\ handlersLeft(p) /\ worker[p].phase = "claim" /\ claims' = claims \cup {d}
      /\ worker' = [worker EXCEPT ![p] = IF d \in claims
                                        THEN [worker[p] EXCEPT !.next = @ + 1]
                                        ELSE [worker[p] EXCEPT !.phase = "run"]]
      /\ UNCHANGED <<written, dispatched, poller, jobs, effects, faults>>
  BY DEF Claim
<1>2. /\ d \in Handlers \X Events /\ worker[p].job \in Events /\ worker[p] \in Consumer
      /\ worker[p].next \in Nat /\ worker[p].next >= 1
      /\ worker[p].job # Free /\ isWritten(worker[p].job)
      /\ worker[p].next <= Len(handlersFor[worker[p].job])
  BY <1>1, DutyOf, Types DEF IInv, WorkerInv, handlersLeft, Consumer
<1>3. PICK w \in Consumer :
        /\ worker' = [worker EXCEPT ![p] = w] /\ w.job = worker[p].job
        /\ d \in claims => w.next = worker[p].next + 1 /\ w.phase = "claim"
        /\ d \notin claims => w.next = worker[p].next /\ w.phase = "run"
  <2>1. CASE d \in claims
    <3>1. PICK w \in Consumer :
            /\ w = [worker[p] EXCEPT !.next = @ + 1] /\ w.job = worker[p].job
            /\ w.next = worker[p].next + 1 /\ w.phase = worker[p].phase
      BY <1>2, ConsumerPassesOver
    <3>2. QED
      BY <1>1, <2>1, <3>1
  <2>2. CASE d \notin claims
    <3>1. PICK w \in Consumer :
            /\ w = [worker[p] EXCEPT !.phase = "run"] /\ w.job = worker[p].job
            /\ w.next = worker[p].next /\ w.phase = "run"
      BY <1>2, ConsumerEnters DEF Phase
    <3>2. QED
      BY <1>1, <2>2, <3>1
  <2>3. QED
    BY <2>1, <2>2
<1>4. /\ worker' \in [Processes -> Consumer] /\ worker'[p] = w
      /\ \A q \in Processes \ {p} : worker'[q] = worker[q]
      /\ WorkerInv'
  <2>1. /\ w.next >= 1 /\ w.job # Free /\ isWritten(w.job)
        /\ w.phase = "run" => w.next <= Len(handlersFor[w.job])
    BY <1>2, <1>3
  <2>2. QED
    BY <1>1, <1>3, <2>1, WriteWorker DEF IInv
<1>5. QED
  BY <1>1, <1>2, <1>3, <1>4

\* Whoever sets the key is the only one to run the handler.
LEMMA ClaimIInv ==
  ASSUME IInv, NEW p \in Processes, Claim(p)
  PROVE  IInv'
<1>1. PICK d \in Handlers \X Events :
        /\ d = dutyOf(p) /\ worker[p].phase = "claim" /\ claims' = claims \cup {d}
        /\ worker'[p].job = worker[p].job
        /\ d \in claims => worker'[p].phase = "claim"
        /\ d \notin claims => worker'[p].next = worker[p].next /\ worker'[p].phase = "run"
  BY ClaimStep
<1>2. /\ \A q \in Processes \ {p} : worker'[q] = worker[q]
      /\ worker' \in [Processes -> Consumer] /\ WorkerInv'
      /\ UNCHANGED <<written, dispatched, poller, jobs, effects, faults>>
  BY ClaimStep
<1>3. TypeOK'
  BY <1>1, <1>2 DEF IInv, TypeOK, Consumer
<1>4. ClaimInv'
  <2>1. CASE d \in claims
    <3>1. claims' = claims /\ worker'[p].phase # "run"
      BY <1>1, <2>1
    <3>2. QED
      BY <1>2, <3>1, StopsRunning DEF IInv
  <2>2. CASE d \notin claims
    <3>1. \A c : isRunning(p, c)' <=> c = d
      BY <1>1, <2>2 DEF isRunning, dutyOf
    <3>2. \A q \in Processes \ {p} : \A c : isRunning(q, c)' <=> isRunning(q, c)
      BY <1>2, OthersRun
    <3>3. effects[d] = 0 /\ \A q \in Processes : ~isRunning(q, d)
      BY <1>1, <2>2 DEF IInv, ClaimInv, TypeOK
    <3>4. \A c : ~isRunning(p, c)
      BY <1>1 DEF isRunning
    <3>5. QED
      BY <1>1, <1>2, <3>1, <3>2, <3>3, <3>4 DEF IInv, ClaimInv
  <2>3. QED
    BY <2>1, <2>2
<1>5. QED
  BY <1>2, <1>3, <1>4, FramePoller DEF IInv, QueueInv

\* A worker that is about to leave a handler it runs: it alone held the claim.
LEMMA Running ==
  ASSUME IInv, NEW p \in Processes, worker[p].phase = "run"
  PROVE  /\ handlersLeft(p) /\ dutyOf(p) \in Handlers \X Events
         /\ worker[p] \in Consumer /\ worker[p].job # Free /\ isWritten(worker[p].job)
         /\ worker[p].job \in Events /\ worker[p].next \in Nat /\ worker[p].next >= 1
         /\ dutyOf(p) \in claims /\ effects[dutyOf(p)] = 0
         /\ \A q \in Processes \ {p} : ~isRunning(q, dutyOf(p))
<1>1. handlersLeft(p) /\ dutyOf(p) \in Handlers \X Events /\ isRunning(p, dutyOf(p))
  BY DutyOf DEF IInv, WorkerInv, isRunning
<1>2. worker[p] \in Consumer /\ worker[p].job # Free /\ isWritten(worker[p].job)
  BY <1>1, Types DEF IInv, WorkerInv, handlersLeft
<1>3. worker[p].job \in Events /\ worker[p].next \in Nat /\ worker[p].next >= 1
  BY <1>2, ConsumerTypes DEF IInv, WorkerInv
<1>4. QED
  BY <1>1, <1>2, <1>3 DEF IInv, ClaimInv

\* Redis fails: the claims are what they were, or one more.
LEMMA RedisFailsIInv ==
  ASSUME IInv, NEW p \in Processes, RedisFails(p)
  PROVE  IInv'
<1>1. /\ handlersLeft(p) /\ dutyOf(p) \in Handlers \X Events /\ strike("redisError")
      /\ claims \subseteq claims' /\ claims' \subseteq claims \cup {dutyOf(p)}
      /\ worker' = [worker EXCEPT ![p] = [worker[p] EXCEPT !.phase = "fail"]]
      /\ UNCHANGED <<written, dispatched, poller, jobs, effects>>
  BY DutyOf DEF RedisFails, IInv
<1>2. worker[p] \in Consumer /\ worker[p].next >= 1 /\ worker[p].job # Free
      /\ isWritten(worker[p].job)
  BY <1>1, Types DEF IInv, WorkerInv, handlersLeft
<1>3. PICK w \in Consumer :
        /\ w = [worker[p] EXCEPT !.phase = "fail"]
        /\ w.job = worker[p].job /\ w.next = worker[p].next /\ w.phase = "fail"
  <2>1. PICK v \in Consumer : v = worker[p]
    BY <1>2
  <2>2. QED
    BY <2>1, ConsumerEnters DEF Phase
<1>4. /\ worker' \in [Processes -> Consumer] /\ worker'[p] = w
      /\ \A q \in Processes \ {p} : worker'[q] = worker[q]
      /\ WorkerInv'
  <2>1. worker' = [worker EXCEPT ![p] = w]
    BY <1>1, <1>3
  <2>2. w.next >= 1 /\ w.job # Free /\ isWritten(w.job) /\ w.phase # "run"
    BY <1>2, <1>3
  <2>3. QED
    BY <1>1, <2>1, <2>2, WriteWorker DEF IInv
<1>5. faults' \in [FaultKind -> Nat]
  BY <1>1, Strike DEF IInv, FaultKind
<1>6. TypeOK'
  BY <1>1, <1>4, <1>5 DEF IInv, TypeOK, Consumer
<1>7. ClaimInv'
  BY <1>1, <1>3, <1>4, StopsRunning DEF IInv
<1>8. QED
  BY <1>1, <1>4, <1>6, <1>7, FramePoller DEF IInv, QueueInv

\* A handler that commits runs under its claim, alone and for the first time.
LEMMA HandlerCommitsStep ==
  ASSUME IInv, NEW p \in Processes, HandlerCommits(p)
  PROVE  LET d == dutyOf(p)
         IN  /\ d \in Handlers \X Events /\ d \in claims /\ effects[d] = 0
             /\ worker[p].job \in Events /\ worker[p].next \in Nat
             /\ \A q \in Processes \ {p} : ~isRunning(q, d)
             /\ effects' = [effects EXCEPT ![d] = @ + 1]
             /\ worker'[p].job = worker[p].job /\ worker'[p].next = worker[p].next + 1
             /\ worker'[p].phase = "claim"
             /\ worker' \in [Processes -> Consumer] /\ WorkerInv'
             /\ \A q \in Processes \ {p} : worker'[q] = worker[q]
             /\ UNCHANGED <<written, dispatched, poller, jobs, claims, faults>>
<1>1. PICK d : d = dutyOf(p)
  OBVIOUS
<1>2. /\ worker[p].phase = "run" /\ effects' = [effects EXCEPT ![d] = @ + 1]
      /\ worker' = [worker EXCEPT ![p] = [worker[p] EXCEPT !.next = @ + 1, !.phase = "claim"]]
      /\ UNCHANGED <<written, dispatched, poller, jobs, claims, faults>>
  BY <1>1 DEF HandlerCommits
<1>3. /\ d \in Handlers \X Events /\ worker[p] \in Consumer /\ isWritten(worker[p].job)
      /\ worker[p].job \in Events /\ worker[p].next \in Nat /\ d \in claims /\ effects[d] = 0
      /\ \A q \in Processes \ {p} : ~isRunning(q, d)
  BY <1>1, <1>2, Running
<1>4. PICK w \in Consumer :
        /\ w = [worker[p] EXCEPT !.next = @ + 1, !.phase = "claim"]
        /\ w.job = worker[p].job /\ w.next = worker[p].next + 1 /\ w.phase = "claim"
  <2>1. PICK v \in Consumer : v = worker[p]
    BY <1>3
  <2>2. QED
    BY <2>1, ConsumerGoesOn
<1>5. /\ worker' \in [Processes -> Consumer] /\ worker'[p] = w
      /\ \A q \in Processes \ {p} : worker'[q] = worker[q]
      /\ WorkerInv'
  <2>1. worker' = [worker EXCEPT ![p] = w]
    BY <1>2, <1>4
  <2>2. w.next >= 1 /\ isWritten(w.job) /\ w.phase # "run" /\ w.phase # "fail"
    BY <1>3, <1>4
  <2>3. QED
    BY <1>2, <2>1, <2>2, WriteWorker DEF IInv
<1>6. QED
  BY <1>1, <1>2, <1>3, <1>4, <1>5

\* The claim stays, so that nobody runs the handler of this event again.
LEMMA HandlerCommitsIInv ==
  ASSUME IInv, NEW p \in Processes, HandlerCommits(p)
  PROVE  IInv'
<1>1. PICK d \in Handlers \X Events :
        /\ d \in claims /\ effects[d] = 0 /\ effects' = [effects EXCEPT ![d] = @ + 1]
        /\ \A q \in Processes \ {p} : ~isRunning(q, d)
  BY HandlerCommitsStep
<1>2. /\ worker'[p].phase = "claim" /\ \A q \in Processes \ {p} : worker'[q] = worker[q]
      /\ worker' \in [Processes -> Consumer] /\ WorkerInv'
      /\ UNCHANGED <<written, dispatched, poller, jobs, claims, faults>>
  BY HandlerCommitsStep
<1>3. /\ effects' \in [Handlers \X Events -> Nat] /\ effects'[d] = 1
      /\ \A c \in (Handlers \X Events) \ {d} : effects'[c] = effects[c]
  BY <1>1 DEF IInv, TypeOK
<1>4. TypeOK'
  BY <1>2, <1>3 DEF IInv, TypeOK, Consumer
<1>5. ClaimInv'
  <2>1. \A c : ~isRunning(p, c)'
    BY <1>2 DEF isRunning
  <2>2. \A q \in Processes \ {p} : \A c : isRunning(q, c)' <=> isRunning(q, c)
    BY <1>2, OthersRun
  <2>3. QED
    BY <1>1, <1>2, <1>3, <2>1, <2>2 DEF IInv, ClaimInv
<1>6. QED
  BY <1>2, <1>4, <1>5, FramePoller DEF IInv, QueueInv

\* The claim that goes is of a handler that has not acted.
LEMMA HandlerThrowsStep ==
  ASSUME IInv, NEW p \in Processes, HandlerThrows(p)
  PROVE  LET d == dutyOf(p)
         IN  /\ d \in Handlers \X Events /\ effects[d] = 0 /\ claims' = claims \ {d}
             /\ \A q \in Processes \ {p} : ~isRunning(q, d)
             /\ worker'[p].job = worker[p].job /\ worker'[p].next = worker[p].next
             /\ worker'[p].phase = "fail" /\ strike("handlerError")
             /\ worker' \in [Processes -> Consumer] /\ WorkerInv'
             /\ \A q \in Processes \ {p} : worker'[q] = worker[q]
             /\ UNCHANGED <<written, dispatched, poller, jobs, effects>>
<1>1. PICK d : d = dutyOf(p)
  OBVIOUS
<1>2. /\ worker[p].phase = "run" /\ claims' = claims \ {d} /\ strike("handlerError")
      /\ worker' = [worker EXCEPT ![p] = [worker[p] EXCEPT !.phase = "fail"]]
      /\ UNCHANGED <<written, dispatched, poller, jobs, effects>>
  BY <1>1 DEF HandlerThrows
<1>3. /\ d \in Handlers \X Events /\ worker[p] \in Consumer /\ isWritten(worker[p].job)
      /\ worker[p].job # Free /\ worker[p].next >= 1 /\ effects[d] = 0
      /\ \A q \in Processes \ {p} : ~isRunning(q, d)
  BY <1>1, <1>2, Running
<1>4. PICK w \in Consumer :
        /\ w = [worker[p] EXCEPT !.phase = "fail"]
        /\ w.job = worker[p].job /\ w.next = worker[p].next /\ w.phase = "fail"
  <2>1. PICK v \in Consumer : v = worker[p]
    BY <1>3
  <2>2. QED
    BY <2>1, ConsumerEnters DEF Phase
<1>5. /\ worker' \in [Processes -> Consumer] /\ worker'[p] = w
      /\ \A q \in Processes \ {p} : worker'[q] = worker[q]
      /\ WorkerInv'
  <2>1. worker' = [worker EXCEPT ![p] = w]
    BY <1>2, <1>4
  <2>2. w.next >= 1 /\ w.job # Free /\ isWritten(w.job) /\ w.phase # "run"
    BY <1>3, <1>4
  <2>3. QED
    BY <1>2, <2>1, <2>2, WriteWorker DEF IInv
<1>6. QED
  BY <1>1, <1>2, <1>3, <1>4, <1>5

\* The claim is given back only by the worker that holds it, and that did not act.
LEMMA HandlerThrowsIInv ==
  ASSUME IInv, NEW p \in Processes, HandlerThrows(p)
  PROVE  IInv'
<1>1. PICK d \in Handlers \X Events :
        /\ effects[d] = 0 /\ claims' = claims \ {d}
        /\ \A q \in Processes \ {p} : ~isRunning(q, d)
  BY HandlerThrowsStep
<1>2. /\ worker'[p].phase = "fail" /\ \A q \in Processes \ {p} : worker'[q] = worker[q]
      /\ worker' \in [Processes -> Consumer] /\ WorkerInv' /\ strike("handlerError")
      /\ UNCHANGED <<written, dispatched, poller, jobs, effects>>
  BY HandlerThrowsStep
<1>3. faults' \in [FaultKind -> Nat]
  BY <1>2, Strike DEF IInv, FaultKind
<1>4. TypeOK'
  BY <1>1, <1>2, <1>3 DEF IInv, TypeOK, Consumer
<1>5. ClaimInv'
  <2>1. \A c : ~isRunning(p, c)'
    BY <1>2 DEF isRunning
  <2>2. \A q \in Processes \ {p} : \A c : isRunning(q, c)' <=> isRunning(q, c)
    BY <1>2, OthersRun
  <2>3. QED
    BY <1>1, <1>2, <2>1, <2>2 DEF IInv, ClaimInv
<1>6. QED
  BY <1>2, <1>4, <1>5, FramePoller DEF IInv, QueueInv

\* A worker that settles its job has nothing in hand, and the job is still known
\* of, or was never its own to settle.
LEMMA SettleStep ==
  ASSUME IInv, NEW p \in Processes, worker[p].job # Free, NEW outcome \in Job,
         settle(p, outcome), UNCHANGED written
  PROVE  LET e == worker[p].job
         IN  /\ e \in Events /\ isWritten(e) /\ jobs' \in [Events -> Job]
             /\ jobs'[e] = IF jobs[e].lock = p THEN outcome ELSE jobs[e]
             /\ \A d \in Events \ {e} : jobs'[d] = jobs[d]
             /\ worker'[p].job = Free /\ worker'[p].phase = "claim"
             /\ worker' \in [Processes -> Consumer] /\ WorkerInv'
             /\ \A q \in Processes \ {p} : worker'[q] = worker[q]
<1>1. PICK e \in Events : e = worker[p].job /\ isWritten(e)
  BY Types, ConsumerTypes DEF IInv, WorkerInv
<1>2. /\ jobs' = [jobs EXCEPT ![e] = IF jobs[e].lock = p THEN outcome ELSE jobs[e]]
      /\ worker' = [worker EXCEPT ![p] = idleWorker]
  BY <1>1 DEF settle
<1>3. /\ jobs' \in [Events -> Job] /\ jobs'[e] = IF jobs[e].lock = p THEN outcome ELSE jobs[e]
      /\ \A d \in Events \ {e} : jobs'[d] = jobs[d]
  BY <1>2, Types DEF IInv
<1>4. PICK w \in Consumer : /\ w = idleWorker /\ w.job = Free
                            /\ w.next = 1 /\ w.phase = "claim"
  BY <1>1, ConsumerFields
<1>5. /\ worker' \in [Processes -> Consumer] /\ worker'[p] = w
      /\ \A q \in Processes \ {p} : worker'[q] = worker[q]
      /\ WorkerInv'
  <2>1. worker' = [worker EXCEPT ![p] = w]
    BY <1>2, <1>4
  <2>2. w.next >= 1 /\ w.job = Free /\ w.phase # "run" /\ w.phase # "fail"
    BY <1>4
  <2>3. QED
    BY <2>1, <2>2, WriteWorker DEF IInv
<1>6. QED
  BY <1>1, <1>3, <1>4, <1>5

\* A job that is settled, with whatever outcome, stays in the queue.
LEMMA SettleIInv ==
  ASSUME IInv, NEW p \in Processes, worker[p].job # Free, NEW outcome \in Job,
         outcome.state # "none", settle(p, outcome),
         UNCHANGED <<written, dispatched, poller, claims, effects, faults>>
  PROVE  IInv'
<1>1. PICK e \in Events :
        /\ isWritten(e) /\ jobs' \in [Events -> Job] /\ jobs'[e] \in {outcome, jobs[e]}
        /\ \A d \in Events \ {e} : jobs'[d] = jobs[d]
  BY SettleStep
<1>2. /\ worker'[p].phase = "claim" /\ \A q \in Processes \ {p} : worker'[q] = worker[q]
      /\ worker' \in [Processes -> Consumer] /\ WorkerInv'
  BY SettleStep
<1>3. TypeOK'
  BY <1>1, <1>2 DEF IInv, TypeOK, Job, Consumer
<1>4. PollerInv' /\ QueueInv' /\ DispatchedWasQueued'
  BY <1>1, FramePoller DEF IInv, QueueInv
<1>5. ClaimInv'
  BY <1>2, StopsRunning DEF IInv
<1>6. QED
  BY <1>2, <1>3, <1>4, <1>5 DEF IInv

\* A job fails: its worker is free, its claims are settled already.
LEMMA JobFailsIInv ==
  ASSUME IInv, NEW p \in Processes, JobFails(p)
  PROVE  IInv'
<1>1. worker[p].job \in Events /\ worker[p].job # Free
  BY Types, ConsumerTypes DEF IInv, WorkerInv, JobFails
<1>2. PICK j \in Job : j = jobs[worker[p].job]
  BY <1>1, Types DEF IInv
<1>3. PICK made \in Nat : made = j.attemptsMade + 1
  BY DEF Job
<1>4. PICK state \in JobState :
        state = (IF made < MaxAttempts THEN "waiting" ELSE "failed") /\ state # "none"
  BY DEF JobState
<1>. DEFINE failed == [j EXCEPT !.attemptsMade = made, !.lock = Free, !.state = state]
<1>5. failed \in Job /\ failed.state = state
  BY JobIsFailed
<1>. HIDE DEF failed
<1>6. /\ settle(p, failed)
      /\ UNCHANGED <<written, dispatched, poller, claims, effects, faults>>
  BY <1>2, <1>3, <1>4 DEF JobFails, failed
<1>7. QED
  BY <1>1, <1>4, <1>5, <1>6, SettleIInv

\* A job completes: its worker is free.
LEMMA JobCompletesIInv ==
  ASSUME IInv, NEW p \in Processes, JobCompletes(p)
  PROVE  IInv'
<1>1. PICK outcome \in Job :
        outcome = [noJob EXCEPT !.state = "removed"] /\ outcome.state = "removed"
  BY NewJobFields
<1>2. /\ worker[p].job # Free /\ settle(p, outcome)
      /\ UNCHANGED <<written, dispatched, poller, claims, effects, faults>>
  BY <1>1 DEF JobCompletes
<1>3. QED
  BY <1>1, <1>2, SettleIInv

-----------------------------------------------------------------------------
(* Stalls and crashes. *)

\* A stalled job waits or has failed.
LEMMA MoveStalled ==
  ASSUME IInv, NEW e \in Events, jobs[e].state = "active", moveStalled(e),
         UNCHANGED <<written, dispatched, poller, worker, claims, effects>>,
         faults' \in [FaultKind -> Nat]
  PROVE  IInv'
<1>1. PICK j \in Job : j = jobs[e] /\ j.state = "active" /\ isWritten(e)
  BY Types DEF IInv, QueueInv
<1>2. PICK state \in JobState :
        state = (IF j.stalled = 0 THEN "waiting" ELSE "failed") /\ state # "none"
  BY DEF JobState
<1>3. PICK k \in Job : /\ k = [j EXCEPT !.stalled = @ + 1, !.lock = Free, !.state = state]
                       /\ k.state = state
  BY JobIsStalled
<1>4. jobs' = [jobs EXCEPT ![e] = k]
  BY <1>1, <1>2, <1>3 DEF moveStalled
<1>5. /\ jobs' \in [Events -> Job] /\ jobs'[e] = k
      /\ \A d \in Events \ {e} : jobs'[d] = jobs[d]
  BY <1>4, Types DEF IInv
<1>6. TypeOK'
  BY <1>5 DEF IInv, TypeOK, Job
<1>7. PollerInv' /\ QueueInv' /\ DispatchedWasQueued'
  BY <1>1, <1>2, <1>3, <1>5, FramePoller DEF IInv, QueueInv
<1>8. QED
  BY <1>6, <1>7, FrameWorker DEF IInv

\* A worker that loses its lock goes on unaware.
LEMMA LockLapsesIInv ==
  ASSUME IInv, NEW e \in Events, LockLapses(e)
  PROVE  IInv'
<1>1. faults' \in [FaultKind -> Nat]
  BY Strike DEF LockLapses, IInv, FaultKind
<1>2. QED
  BY <1>1, MoveStalled DEF LockLapses

\* A stalled job is handed out again while its worker may be running a handler.
LEMMA ReclaimStalledIInv ==
  ASSUME IInv, NEW e \in Events, ReclaimStalled(e)
  PROVE  IInv'
<1>1. faults' \in [FaultKind -> Nat]
  BY DEF ReclaimStalled, IInv, TypeOK
<1>2. QED
  BY <1>1, MoveStalled DEF ReclaimStalled

\* What a process had in hand is gone; what the database and Redis have stays.
LEMMA CrashIInv ==
  ASSUME IInv, NEW p \in Processes, Crash(p)
  PROVE  IInv'
<1>1. /\ strike("crash")
      /\ poller' = [poller EXCEPT ![p] = idlePoller]
      /\ worker' = [worker EXCEPT ![p] = idleWorker]
      /\ UNCHANGED <<written, dispatched, jobs, claims, effects>>
  BY DEF Crash
<1>2. PICK r \in Relayer : r = idlePoller /\ r.batch = <<>> /\ ~r.added
  BY RelayerFields
<1>3. poller' \in [Processes -> Relayer] /\ PollerInv'
  <2>1. \A i \in DOMAIN r.batch : isWritten(r.batch[i])
    BY <1>2
  <2>2. poller' = [poller EXCEPT ![p] = r]
    BY <1>1, <1>2
  <2>3. QED
    BY <1>1, <1>2, <2>1, <2>2, WritePoller DEF IInv
<1>4. PICK w \in Consumer : /\ w = idleWorker /\ w.job = Free
                            /\ w.next = 1 /\ w.phase = "claim"
  BY ConsumerFields
<1>5. /\ worker' \in [Processes -> Consumer] /\ worker'[p] = w
      /\ \A q \in Processes \ {p} : worker'[q] = worker[q]
      /\ WorkerInv'
  <2>1. worker' = [worker EXCEPT ![p] = w]
    BY <1>1, <1>4
  <2>2. w.next >= 1 /\ w.job = Free /\ w.phase # "run" /\ w.phase # "fail"
    BY <1>4
  <2>3. QED
    BY <1>1, <2>1, <2>2, WriteWorker DEF IInv
<1>6. faults' \in [FaultKind -> Nat]
  BY <1>1, Strike DEF IInv, FaultKind
<1>7. TypeOK'
  BY <1>1, <1>3, <1>5, <1>6 DEF IInv, TypeOK, Relayer, Consumer
<1>8. ClaimInv'
  BY <1>1, <1>4, <1>5, StopsRunning DEF IInv
<1>9. QED
  BY <1>1, <1>3, <1>5, <1>7, <1>8 DEF IInv, QueueInv, DispatchedWasQueued, isWritten

\* One case per action of the pipeline.
LEMMA NextIInv == IInv /\ [Next]_vars => IInv'
<1> SUFFICES ASSUME IInv, [Next]_vars PROVE IInv'
  OBVIOUS
<1>1. ASSUME NEW p \in Processes, Relay(p) PROVE IInv'
  BY <1>1, PollIInv, EnqueueIInv, MarkDispatchedIInv DEF Relay
<1>2. ASSUME NEW p \in Processes, Work(p) PROVE IInv'
  BY <1>2, TakeJobIInv, ClaimIInv, HandlerCommitsIInv, HandlerThrowsIInv,
     RedisFailsIInv, JobFailsIInv, JobCompletesIInv DEF Work
<1>3. ASSUME NEW p \in Processes, RelayFails(p) PROVE IInv'
  BY <1>3, RelayFailsIInv
<1>4. ASSUME NEW p \in Processes, Crash(p) PROVE IInv'
  BY <1>4, CrashIInv
<1>5. ASSUME NEW e \in Events, WriteEvent(e) PROVE IInv'
  BY <1>5, WriteEventIInv
<1>6. ASSUME NEW e \in Events, LockLapses(e) PROVE IInv'
  BY <1>6, LockLapsesIInv
<1>7. ASSUME NEW e \in Events, ReclaimStalled(e) PROVE IInv'
  BY <1>7, ReclaimStalledIInv
<1>8. CASE UNCHANGED vars
  <2>1. TypeOK'
    BY <1>8 DEF vars, IInv, TypeOK
  <2>2. PollerInv' /\ QueueInv' /\ DispatchedWasQueued'
    BY <1>8, FramePoller DEF vars, IInv, QueueInv
  <2>3. QED
    BY <1>8, <2>1, <2>2, FrameWorker DEF vars, IInv
<1>9. QED
  BY <1>1, <1>2, <1>3, <1>4, <1>5, <1>6, <1>7, <1>8 DEF Next

\* The invariant holds of every behaviour.
LEMMA Inductive == Spec => []IInv
<1>1. Init => IInv
  BY InitIInv
<1>2. QED
  BY <1>1, NextIInv, PTL DEF Spec

\* The outbox, the queue, the workers and the claims have their types; of a job this
\* says that it is always in a state that some step takes it out of.
THEOREM TypeCorrect == Spec => []TypeOK
<1>1. IInv => TypeOK
  BY DEF IInv
<1>2. QED
  BY <1>1, Inductive, PTL

\* Whatever fails or dies in between, no row is marked before its job was added.
THEOREM DispatchedWasQueuedHolds == Spec => []DispatchedWasQueued
<1>1. IInv => DispatchedWasQueued
  BY DEF IInv
<1>2. QED
  BY <1>1, Inductive, PTL

-----------------------------------------------------------------------------
(* The refinement: writing an event emits it, a handler's commit acts on it. *)

\* The other steps are invisible to the specification of the delivery.
LEMMA Invisible ==
  ASSUME UNCHANGED <<written, effects>>
  PROVE  UNCHANGED <<{e \in Events : isWritten(e)}, effects>>
BY DEF isWritten

\* Writing an event emits it, a handler's commit acts on it, and nothing else is visible.
LEMMA StepRefines ==
  IInv /\ [Next]_vars => [Delivery!DeliveryNext]_<<{e \in Events : isWritten(e)}, effects>>
<1> SUFFICES ASSUME IInv, [Next]_vars
             PROVE  \/ Delivery!DeliveryNext
                    \/ UNCHANGED <<{e \in Events : isWritten(e)}, effects>>
  OBVIOUS
<1>1. ASSUME NEW e \in Events, WriteEvent(e) PROVE Delivery!DeliveryNext
  <2>1. written \in Seq(Events) /\ written' = Append(written, e) /\ UNCHANGED effects
    BY <1>1 DEF WriteEvent, IInv, TypeOK
  <2>2. \A d \in Events : isWritten(d)' <=> isWritten(d) \/ d = e
    <3> SUFFICES ASSUME NEW d \in Events PROVE isWritten(d)' <=> isWritten(d) \/ d = e
      OBVIOUS
    <3>1. /\ DOMAIN written' = DOMAIN written \cup {Len(written) + 1}
          /\ written'[Len(written) + 1] = e
          /\ \A i \in DOMAIN written : written'[i] = written[i]
      BY <2>1
    <3>2. QED
      BY <3>1 DEF isWritten
  <2>3. Delivery!EmitEvent(e)
    BY <1>1, <2>1, <2>2 DEF WriteEvent, Delivery!EmitEvent
  <2>4. QED
    BY <2>3 DEF Delivery!DeliveryNext
<1>2. ASSUME NEW p \in Processes, HandlerCommits(p) PROVE Delivery!DeliveryNext
  <2>1. PICK d \in Handlers \X Events : /\ d = dutyOf(p) /\ effects[d] = 0
                                        /\ d[2] \in Events /\ isWritten(d[2])
    BY <1>2, Running DEF HandlerCommits, dutyOf
  <2>2. effects' = [effects EXCEPT ![d] = 1] /\ UNCHANGED written
    BY <1>2, <2>1 DEF HandlerCommits
  <2>3. Delivery!Act(d)
    BY <2>1, <2>2, Zenon DEF Delivery!Act, isWritten
  <2>4. QED
    BY <2>3 DEF Delivery!DeliveryNext
<1>3. ASSUME NEW p \in Processes,
             Relay(p) \/ RelayFails(p) \/ Crash(p) \/ (Work(p) /\ ~HandlerCommits(p))
      PROVE  UNCHANGED <<written, effects>>
  BY <1>3
  DEF Relay, Poll, Enqueue, MarkDispatched, RelayFails, Crash, Work, TakeJob, Claim,
      HandlerThrows, RedisFails, JobFails, JobCompletes
<1>4. ASSUME NEW e \in Events, LockLapses(e) \/ ReclaimStalled(e)
      PROVE  UNCHANGED <<written, effects>>
  BY <1>4 DEF LockLapses, ReclaimStalled
<1>5. CASE UNCHANGED vars
  BY <1>5, Invisible DEF vars
<1>6. QED
  BY <1>1, <1>2, <1>3, <1>4, <1>5, Invisible DEF Next

\* At-least-once delivery with a claim per handler and event makes every handler act
\* at most once on an event, and only on one that was committed, whatever is polled
\* twice, added twice, handed out twice, or lost in a crash.
THEOREM Refinement == Spec => ImplementsDelivery
<1>1. Init => Delivery!DeliveryInit
  BY DEF Init, Delivery!DeliveryInit, isWritten
<1>2. QED
  BY <1>1, StepRefines, Inductive, PTL DEF Spec, ImplementsDelivery, Delivery!DeliverySpec

-----------------------------------------------------------------------------
(* While no lock lapses and no process dies, forgetting a job that completed *)
(* forgets nothing.  The steps are those above, looked at again.             *)

Calm == PairedInv /\ ProgressInv /\ ClaimedInv /\ CompletedWasHandled

\* A worker has one job at a time, and nobody else has it.
LEMMA OneWorker ==
  ASSUME PairedInv, NEW p \in Processes, NEW q \in Processes,
         worker[p].job # Free, worker[q].job = worker[p].job
  PROVE  q = p
BY DEF PairedInv

\* Workers that keep their jobs stay paired with them.
LEMMA StaysPaired ==
  ASSUME PairedInv, UNCHANGED jobs, \A q \in Processes : worker'[q].job = worker[q].job
  PROVE  PairedInv'
BY DEF PairedInv

\* A handler of an event comes at a position of its list.
LEMMA Position ==
  ASSUME NEW e \in Events, NEW i \in DOMAIN handlersFor[e]
  PROVE  i \in Nat /\ handlersFor[e][i] \in Handlers
<1>1. handlersFor[e] \in Seq(Handlers)
  BY OutboxAssumption
<1>2. QED
  BY <1>1

\* What the poller does to the queue is no worker's business.
LEMMA PollerKeepsCalm ==
  ASSUME IInv, Calm, UNCHANGED <<worker, claims, effects>>,
         \A e \in Events : \/ jobs'[e] = jobs[e]
                           \/ /\ jobs[e].state \in {"none", "removed"}
                              /\ jobs'[e].state = "waiting"
  PROVE  Calm'
<1>1. \A p \in Processes : worker[p].job \in Events \cup {Free}
  BY Types, ConsumerTypes DEF IInv
<1>2. PairedInv'
  BY <1>1 DEF Calm, PairedInv
<1>3. ProgressInv' /\ ClaimedInv' /\ CompletedWasHandled'
  BY DEF Calm, ProgressInv, ClaimedInv, CompletedWasHandled, duties, isRunning, dutyOf
<1>4. QED
  BY <1>2, <1>3 DEF Calm

\* A job that is waiting has no worker, so that the one who takes it is the only one.
LEMMA TakeJobCalm ==
  ASSUME IInv, Calm, NEW p \in Processes, NEW e \in Events, TakeJob(p, e)
  PROVE  Calm'
<1>1. /\ worker[p].job = Free /\ jobs[e].state = "waiting"
      /\ jobs'[e].state = "active" /\ jobs'[e].lock = p
      /\ \A d \in Events \ {e} : jobs'[d] = jobs[d]
      /\ worker'[p].job = e /\ worker'[p].next = 1 /\ worker'[p].phase = "claim"
      /\ \A q \in Processes \ {p} : worker'[q] = worker[q]
      /\ UNCHANGED <<claims, effects>>
  BY TakeJobStep
<1>2. \A q \in Processes : worker[q].job \in Events \cup {Free}
  BY Types, ConsumerTypes DEF IInv
<1>3. PairedInv'
  <2>1. ASSUME NEW q \in Processes \ {p}, worker[q].job # Free
        PROVE  worker[q].job \in Events \ {e}
    BY <1>1, <1>2, <2>1 DEF Calm, PairedInv
  <2>2. ASSUME NEW d \in Events \ {e}, jobs[d].state = "active"
        PROVE  jobs[d].lock \in Processes \ {p} /\ worker[jobs[d].lock].job = d
    BY <1>1, <2>2, OutboxAssumption DEF Calm, PairedInv
  <2>3. QED
    BY <1>1, <2>1, <2>2 DEF Calm, PairedInv
<1>4. ProgressInv'
  <2>1. \A i \in DOMAIN handlersFor[e] : ~(i < 1)
    BY OutboxAssumption
  <2>2. QED
    BY <1>1, <2>1 DEF Calm, ProgressInv
<1>5. ClaimedInv'
  <2>1. \A d : ~isRunning(p, d)
    BY <1>1 DEF isRunning, IInv, WorkerInv, handlersLeft
  <2>2. \A q \in Processes \ {p} : \A d : isRunning(q, d)' <=> isRunning(q, d)
    BY <1>1, OthersRun
  <2>3. QED
    BY <1>1, <2>1, <2>2 DEF Calm, ClaimedInv
<1>6. CompletedWasHandled'
  BY <1>1 DEF Calm, CompletedWasHandled, duties
<1>7. QED
  BY <1>3, <1>4, <1>5, <1>6 DEF Calm

\* A handler that is passed over has acted: nobody else has the job, so that nobody
\* runs it.
LEMMA ClaimCalm ==
  ASSUME IInv, Calm, NEW p \in Processes, Claim(p)
  PROVE  Calm'
<1>1. PICK d \in Handlers \X Events :
        /\ d = dutyOf(p) /\ claims' = claims \cup {d}
        /\ worker[p].phase = "claim" /\ worker[p].job # Free /\ worker[p].job \in Events
        /\ worker[p].next \in Nat /\ worker'[p].job = worker[p].job
        /\ d \in claims => worker'[p].next = worker[p].next + 1
        /\ d \notin claims => /\ worker'[p].next = worker[p].next
                              /\ worker'[p].phase = "run"
  BY ClaimStep
<1>2. /\ \A q \in Processes \ {p} : worker'[q] = worker[q]
      /\ UNCHANGED <<jobs, effects>>
  BY ClaimStep
<1>3. PairedInv'
  BY <1>1, <1>2, StaysPaired DEF Calm
<1>4. \A c : ~isRunning(p, c)
  BY <1>1 DEF isRunning
<1>5. \A q \in Processes \ {p} : \A c : isRunning(q, c)' <=> isRunning(q, c)
  BY <1>2, OthersRun
<1>6. d \in claims => effects[d] > 0
  <2> SUFFICES ASSUME d \in claims, NEW q \in Processes, isRunning(q, d) PROVE FALSE
    BY DEF Calm, ClaimedInv
  <2>1. worker[q].job = worker[p].job
    BY <1>1 DEF isRunning, dutyOf
  <2>2. q = p
    BY <1>1, <2>1, OneWorker DEF Calm
  <2>3. QED
    BY <1>4, <2>2
<1>7. ProgressInv'
  <2> SUFFICES ASSUME NEW q \in Processes, worker'[q].job # Free,
                      NEW i \in DOMAIN handlersFor[worker'[q].job], i < worker'[q].next
               PROVE  effects[<<handlersFor[worker'[q].job][i], worker'[q].job>>] > 0
    BY <1>2 DEF ProgressInv
  <2>1. i \in Nat
    <3>1. worker[q] \in Consumer
      BY Types DEF IInv
    <3>2. worker[q].job \in Events \cup {Free}
      BY <3>1, ConsumerTypes
    <3>3. worker'[q].job = worker[q].job
      BY <1>1, <1>2
    <3>4. worker'[q].job \in Events
      BY <3>2, <3>3
    <3>5. QED
      BY <3>4, Position
  <2>2. CASE q = p /\ i = worker[p].next
    <3>1. dutyOf(p) = <<handlersFor[worker'[q].job][i], worker'[q].job>>
      BY <1>1, <2>2 DEF dutyOf
    <3>2. d = <<handlersFor[worker'[q].job][i], worker'[q].job>>
      BY <1>1, <3>1
    <3>3. d \in claims
      <4>1. worker'[p].next # worker[p].next
        BY <1>1, <2>2
      <4>2. QED
        BY <1>1, <4>1
    <3>4. QED
      BY <1>6, <3>2, <3>3
  <2>3. CASE q # p \/ i # worker[p].next
    BY <1>1, <1>2, <2>1, <2>3 DEF Calm, ProgressInv
  <2>4. QED
    BY <2>2, <2>3
<1>8. ClaimedInv'
  <2>1. d \notin claims => isRunning(p, d)'
    BY <1>1 DEF isRunning, dutyOf
  <2>2. QED
    BY <1>1, <1>2, <1>4, <1>5, <1>6, <2>1 DEF Calm, ClaimedInv
<1>9. CompletedWasHandled'
  BY <1>2 DEF Calm, CompletedWasHandled, duties
<1>10. QED
  BY <1>3, <1>7, <1>8, <1>9 DEF Calm

\* The handler that the worker moves past has acted.
LEMMA HandlerCommitsCalm ==
  ASSUME IInv, Calm, NEW p \in Processes, HandlerCommits(p)
  PROVE  Calm'
<1>1. PICK d \in Handlers \X Events :
        /\ d = dutyOf(p) /\ effects' = [effects EXCEPT ![d] = @ + 1]
        /\ worker[p].job \in Events /\ worker[p].next \in Nat
        /\ worker'[p].job = worker[p].job /\ worker'[p].next = worker[p].next + 1
  BY HandlerCommitsStep
<1>2. /\ \A q \in Processes \ {p} : worker'[q] = worker[q]
      /\ UNCHANGED <<jobs, claims>> /\ worker[p].phase = "run"
  BY HandlerCommitsStep DEF HandlerCommits
<1>3. /\ effects'[d] > 0
      /\ \A c \in Handlers \X Events : effects[c] > 0 => effects'[c] > 0
  BY <1>1 DEF IInv, TypeOK
<1>4. PairedInv'
  BY <1>1, <1>2, StaysPaired DEF Calm
<1>5. \A q \in Processes \ {p} : \A c : isRunning(q, c)' <=> isRunning(q, c)
  BY <1>2, OthersRun
<1>6. \A c : isRunning(p, c) => c = d
  BY <1>1 DEF isRunning
<1>7. ProgressInv'
  <2> SUFFICES ASSUME NEW q \in Processes, worker'[q].job # Free,
                      NEW i \in DOMAIN handlersFor[worker'[q].job], i < worker'[q].next
               PROVE  effects'[<<handlersFor[worker'[q].job][i], worker'[q].job>>] > 0
    BY DEF ProgressInv
  <2>1. /\ i \in Nat
        /\ <<handlersFor[worker'[q].job][i], worker'[q].job>> \in Handlers \X Events
    <3>1. worker[q] \in Consumer
      BY Types DEF IInv
    <3>2. worker[q].job \in Events \cup {Free}
      BY <3>1, ConsumerTypes
    <3>3. worker'[q].job = worker[q].job
      BY <1>1, <1>2
    <3>4. worker'[q].job \in Events
      BY <3>2, <3>3
    <3>5. QED
      BY <3>4, Position
  <2>2. CASE q = p /\ i = worker[p].next
    BY <1>1, <1>3, <2>2 DEF dutyOf
  <2>3. CASE q # p \/ i # worker[p].next
    BY <1>1, <1>2, <1>3, <2>1, <2>3 DEF Calm, ProgressInv
  <2>4. QED
    BY <2>2, <2>3
<1>8. ClaimedInv'
  BY <1>2, <1>3, <1>5, <1>6 DEF Calm, ClaimedInv, IInv, TypeOK
<1>9. CompletedWasHandled'
  BY <1>2, <1>3 DEF Calm, CompletedWasHandled, duties
<1>10. QED
  BY <1>4, <1>7, <1>8, <1>9 DEF Calm

\* The claim that is given back is that of a handler that did not act.
LEMMA HandlerThrowsCalm ==
  ASSUME IInv, Calm, NEW p \in Processes, HandlerThrows(p)
  PROVE  Calm'
<1>1. PICK d \in Handlers \X Events :
        /\ d = dutyOf(p) /\ claims' = claims \ {d}
        /\ worker'[p].job = worker[p].job /\ worker'[p].next = worker[p].next
  BY HandlerThrowsStep
<1>2. /\ \A q \in Processes \ {p} : worker'[q] = worker[q]
      /\ UNCHANGED <<jobs, effects>>
  BY HandlerThrowsStep
<1>3. PairedInv' /\ ProgressInv'
  BY <1>1, <1>2, StaysPaired DEF Calm, ProgressInv
<1>4. ClaimedInv'
  <2>1. \A c : isRunning(p, c) => c = d
    BY <1>1 DEF isRunning
  <2>2. \A q \in Processes \ {p} : \A c : isRunning(q, c)' <=> isRunning(q, c)
    BY <1>2, OthersRun
  <2>3. QED
    BY <1>1, <1>2, <2>1, <2>2 DEF Calm, ClaimedInv
<1>5. CompletedWasHandled'
  BY <1>2 DEF Calm, CompletedWasHandled, duties
<1>6. QED
  BY <1>3, <1>4, <1>5 DEF Calm

\* A job is removed by the worker that has it, when it is past its last handler.
LEMMA SettleCalm ==
  ASSUME IInv, Calm, NEW p \in Processes, worker[p].job # Free, worker[p].phase # "run",
         NEW outcome \in Job, outcome.state \notin {"none", "active"},
         outcome.state = "removed" => ~handlersLeft(p),
         settle(p, outcome), UNCHANGED <<written, claims, effects>>
  PROVE  Calm'
<1>1. PICK e \in Events :
        /\ e = worker[p].job /\ jobs'[e] = IF jobs[e].lock = p THEN outcome ELSE jobs[e]
        /\ \A d \in Events \ {e} : jobs'[d] = jobs[d]
  BY SettleStep
<1>2. /\ worker'[p].job = Free /\ worker'[p].phase = "claim"
      /\ \A q \in Processes \ {p} : worker'[q] = worker[q]
  BY SettleStep
<1>3. jobs'[e] = outcome /\ \A q \in Processes \ {p} : worker[q].job # e
  BY <1>1, OneWorker DEF Calm, PairedInv
<1>4. \A q \in Processes : worker[q].job \in Events \cup {Free}
  BY Types, ConsumerTypes DEF IInv
<1>5. PairedInv'
  <2>1. ASSUME NEW q \in Processes \ {p}, worker[q].job # Free
        PROVE  worker[q].job \in Events \ {e}
    BY <1>3, <1>4, <2>1
  <2>2. ASSUME NEW d \in Events \ {e}, jobs[d].state = "active"
        PROVE  jobs[d].lock \in Processes \ {p} /\ worker[jobs[d].lock].job = d
    BY <1>1, <2>2 DEF Calm, PairedInv
  <2>3. QED
    BY <1>1, <1>2, <1>3, <2>1, <2>2 DEF Calm, PairedInv
<1>6. ProgressInv'
  BY <1>2 DEF Calm, ProgressInv
<1>7. ClaimedInv'
  <2>1. \A d : ~isRunning(p, d)
    BY DEF isRunning
  <2>2. \A q \in Processes \ {p} : \A d : isRunning(q, d)' <=> isRunning(q, d)
    BY <1>2, OthersRun
  <2>3. QED
    BY <2>1, <2>2 DEF Calm, ClaimedInv
<1>8. CompletedWasHandled'
  <2> SUFFICES ASSUME NEW d \in duties, jobs'[d[2]].state = "removed" PROVE effects[d] > 0
    BY DEF CompletedWasHandled
  <2>1. CASE d[2] # e
    BY <1>1, <2>1 DEF Calm, CompletedWasHandled, duties
  <2>2. CASE d[2] = e
    <3>1. PICK i \in DOMAIN handlersFor[e] : handlersFor[e][i] = d[1]
      BY <2>2 DEF duties
    <3>2. handlersFor[e] \in Seq(Handlers) /\ worker[p].next \in Nat
      BY Types, ConsumerTypes, OutboxAssumption DEF IInv
    <3>3. i < worker[p].next
      BY <1>1, <1>3, <2>2, <3>1, <3>2 DEF handlersLeft
    <3>4. d = <<handlersFor[e][i], e>>
      BY <2>2, <3>1 DEF duties
    <3>5. QED
      BY <1>1, <3>3, <3>4 DEF Calm, ProgressInv
  <2>3. QED
    BY <2>1, <2>2
<1>9. QED
  BY <1>5, <1>6, <1>7, <1>8 DEF Calm

\* A job that failed is no longer in anybody's hands.
LEMMA JobFailsCalm ==
  ASSUME IInv, Calm, NEW p \in Processes, JobFails(p)
  PROVE  Calm'
<1>1. worker[p].job \in Events /\ worker[p].job # Free /\ worker[p].phase # "run"
  BY Types, ConsumerTypes DEF IInv, WorkerInv, JobFails
<1>2. PICK j \in Job : j = jobs[worker[p].job]
  BY <1>1, Types DEF IInv
<1>3. PICK made \in Nat : made = j.attemptsMade + 1
  BY DEF Job
<1>4. PICK state \in JobState :
        /\ state = (IF made < MaxAttempts THEN "waiting" ELSE "failed")
        /\ state \notin {"none", "active", "removed"}
  BY DEF JobState
<1>. DEFINE failed == [j EXCEPT !.attemptsMade = made, !.lock = Free, !.state = state]
<1>5. failed \in Job /\ failed.state = state
  BY JobIsFailed
<1>. HIDE DEF failed
<1>6. /\ settle(p, failed)
      /\ UNCHANGED <<written, claims, effects>>
  BY <1>2, <1>3, <1>4 DEF JobFails, failed
<1>7. QED
  BY <1>1, <1>4, <1>5, <1>6, SettleCalm

\* A worker that is past all its handlers leaves an event that all of them acted on.
LEMMA JobCompletesCalm ==
  ASSUME IInv, Calm, NEW p \in Processes, JobCompletes(p)
  PROVE  Calm'
<1>1. PICK outcome \in Job :
        outcome = [noJob EXCEPT !.state = "removed"] /\ outcome.state = "removed"
  BY NewJobFields
<1>2. /\ worker[p].job # Free /\ ~handlersLeft(p) /\ settle(p, outcome)
      /\ UNCHANGED <<written, claims, effects>>
  BY <1>1 DEF JobCompletes
<1>3. worker[p].phase # "run"
  BY <1>2 DEF IInv, WorkerInv
<1>4. QED
  BY <1>1, <1>2, <1>3, SettleCalm

\* queue.add revives a job that is gone, and no other.
LEMMA EnqueueCalm ==
  ASSUME IInv, Calm, NEW p \in Processes, Enqueue(p)
  PROVE  Calm'
<1>1. PICK e : e = Head(poller[p].batch)
  OBVIOUS
<1>2. /\ poller[p].batch # <<>> /\ addJob(e)
      /\ UNCHANGED <<worker, claims, effects>>
  BY <1>1 DEF Enqueue
<1>3. poller[p].batch \in Seq(Events)
  BY Types, RelayerUpdates DEF IInv
<1>4. e \in Events
  BY <1>1, <1>2, <1>3
<1>5. \A d \in Events : \/ jobs'[d] = jobs[d]
                         \/ /\ jobs[d].state \in {"none", "removed"}
                            /\ jobs'[d].state = "waiting"
  BY <1>2, <1>4, AddJob DEF IInv, isKnown
<1>6. QED
  BY <1>2, <1>5, PollerKeepsCalm

\* Every step that is no fault keeps the calm, and a fault of another kind does not
\* begin it again.
LEMMA NextCalm == IInv /\ CalmInv /\ [Next]_vars => CalmInv'
<1> SUFFICES ASSUME IInv, CalmInv, [Next]_vars, isCalm' PROVE Calm'
  BY DEF CalmInv, Calm
<1>1. /\ ~\E e \in Events : LockLapses(e)
      /\ ~\E p \in Processes : Crash(p) \/ RedisFails(p)
      /\ isCalm
  <2>1. ASSUME strike("lapse") PROVE FALSE
    BY <2>1, Strike DEF IInv, isCalm, TypeOK, FaultKind
  <2>2. ASSUME strike("crash") PROVE FALSE
    BY <2>2, Strike DEF IInv, isCalm, TypeOK, FaultKind
  <2>3. ASSUME strike("redisError") PROVE FALSE
    BY <2>3, Strike DEF IInv, isCalm, TypeOK, FaultKind
  <2>4. (\E p \in Processes : RelayFails(p) \/ HandlerThrows(p)) => isCalm
    BY Strike DEF RelayFails, HandlerThrows, IInv, isCalm, FaultKind
  <2>5. (\E p \in Processes : RelayFails(p) \/ HandlerThrows(p)) \/ UNCHANGED faults
    BY <2>1, <2>2, <2>3
    DEF RedisFails, Next, Relay, Work, Poll, Enqueue, MarkDispatched, TakeJob, Claim, HandlerCommits,
        JobFails, JobCompletes, WriteEvent, LockLapses, ReclaimStalled, Crash, vars
  <2>6. QED
    BY <2>1, <2>2, <2>4, <2>5, <2>3 DEF isCalm, LockLapses, Crash, RedisFails
<1>2. Calm
  BY <1>1 DEF CalmInv, Calm
<1>3. ASSUME NEW p \in Processes, Relay(p) \/ RelayFails(p) PROVE Calm'
  <2>1. ASSUME Poll(p) \/ MarkDispatched(p) \/ RelayFails(p) PROVE Calm'
    BY <1>2, <2>1, PollerKeepsCalm DEF Poll, MarkDispatched, RelayFails
  <2>2. QED
    BY <1>2, <1>3, <2>1, EnqueueCalm DEF Relay
<1>4. ASSUME NEW p \in Processes, Work(p) PROVE Calm'
  BY <1>1, <1>2, <1>4, TakeJobCalm, ClaimCalm, HandlerCommitsCalm, HandlerThrowsCalm,
     JobFailsCalm, JobCompletesCalm DEF Work
<1>5. ASSUME NEW e \in Events, ReclaimStalled(e) PROVE FALSE
  BY <1>2, <1>5 DEF Calm, PairedInv, ReclaimStalled
<1>6. ASSUME NEW e \in Events, WriteEvent(e) PROVE Calm'
  BY <1>2, <1>6, PollerKeepsCalm DEF WriteEvent
<1>7. CASE UNCHANGED vars
  BY <1>2, <1>7, PollerKeepsCalm DEF vars
<1>8. QED
  BY <1>1, <1>3, <1>4, <1>5, <1>6, <1>7 DEF Next

\* Until Redis fails, a lock lapses or a process dies, a job leaves the queue only when
\* each of its handlers has acted, whatever throws and is tried again, so that
\* removeOnComplete forgets nothing.  (Then it may: a claim without an effect is left, or
\* a second worker passes over the claim of a handler that the first is still running,
\* and that fails.)
THEOREM CompletedWasHandledUntilFault == Spec => [](isCalm => CompletedWasHandled)
<1>1. Init => IInv /\ CalmInv
  BY InitIInv
<1>2. CalmInv => (isCalm => CompletedWasHandled)
  BY DEF CalmInv
<1>3. QED
  BY <1>1, <1>2, NextIInv, NextCalm, PTL DEF Spec

=============================================================================
