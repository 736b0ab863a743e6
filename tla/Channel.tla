------------------------------- MODULE Channel -------------------------------
(***************************************************************************)
(* What a subscription promises: from the moment it begins a subscriber    *)
(* gets everything that is published on its topic, in order and once, up   *)
(* to the moment it ends; it may get it late.                              *)
(***************************************************************************)
EXTENDS Naturals, Sequences

CONSTANTS Topics, Subscribers

VARIABLES
  log,       \* what was published on each topic
  feed,      \* per subscriber: its topic, and the part of the log it is owed
  received   \* what each subscriber got

channelVars == <<log, feed, received>>

NoTopic == "none"

NoFeed == [topic |-> NoTopic, from |-> 0, upTo |-> 0, ended |-> FALSE]

ChannelInit ==
  /\ log = [t \in Topics |-> <<>>]
  /\ feed = [s \in Subscribers |-> NoFeed]
  /\ received = [s \in Subscribers |-> <<>>]

\* Something is published, on one topic or on several at once.
Announce ==
  /\ log' # log
  /\ \A t \in Topics :
       /\ Len(log'[t]) \in {Len(log[t]), Len(log[t]) + 1}
       /\ SubSeq(log'[t], 1, Len(log[t])) = log[t]
  /\ feed' = [s \in Subscribers |->
                IF feed[s].topic = NoTopic \/ feed[s].ended THEN feed[s]
                ELSE [feed[s] EXCEPT !.upTo = Len(log'[feed[s].topic])]]
  /\ UNCHANGED received

Begin(s) ==
  /\ feed[s] = NoFeed
  /\ \E t \in Topics :
       feed' = [feed EXCEPT ![s] = [topic |-> t, from |-> Len(log[t]),
                                    upTo |-> Len(log[t]), ended |-> FALSE]]
  /\ UNCHANGED <<log, received>>

\* The next value, and no other.
Deliver(s) ==
  LET k == feed[s].from + Len(received[s]) + 1
  IN  /\ k <= feed[s].upTo
      /\ received' = [received EXCEPT ![s] = Append(@, log[feed[s].topic][k])]
      /\ UNCHANGED <<log, feed>>

End(s) ==
  /\ feed[s].topic \in Topics /\ ~feed[s].ended
  /\ feed' = [feed EXCEPT ![s].ended = TRUE]
  /\ UNCHANGED <<log, received>>

ChannelNext == Announce \/ \E s \in Subscribers : Begin(s) \/ Deliver(s) \/ End(s)

ChannelSpec == ChannelInit /\ [][ChannelNext]_channelVars

=============================================================================
