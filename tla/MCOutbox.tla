------------------------------ MODULE MCOutbox ------------------------------
(* Instances of Outbox: two processes; MemberLeft, which has two consumers,  *)
(* and an event with one.                                                    *)
EXTENDS Outbox, TLC

CONSTANTS p1, p2, left, opened, audit, reassign

Registry == (left :> <<audit, reassign>>) @@ (opened :> <<audit>>)

Budget(relay, handler, redis, lapse, crash) ==
  [relayError |-> relay, handlerError |-> handler, redisError |-> redis,
   lapse |-> lapse, crash |-> crash]

AllFaults == Budget(0, 1, 1, 1, 1)
SoftFaults == Budget(1, 2, 0, 0, 0)
Lapses == Budget(0, 1, 0, 1, 0)
Crashes == Budget(0, 0, 0, 0, 1)
NoFaults == Budget(0, 0, 0, 0, 0)

ProcessSymmetry == Permutations(Processes)
=============================================================================
