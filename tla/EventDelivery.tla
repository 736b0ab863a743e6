--------------------------- MODULE EventDelivery ---------------------------
(***************************************************************************)
(* What the event backbone promises its consumers: a handler only ever     *)
(* acts on an event that was committed with its state change, and it acts  *)
(* on it at most once.  How the event travels is left open.                *)
(***************************************************************************)
EXTENDS Naturals

CONSTANTS
  Emission,   \* the domain events
  Duty        \* <<handler, event>>: who has to act on what

VARIABLES
  emitted,    \* the events committed so far
  acted       \* how often each duty was carried out

EmitEvent(e) ==
  /\ e \notin emitted
  /\ emitted' = emitted \cup {e}
  /\ UNCHANGED acted

Act(d) ==
  /\ d[2] \in emitted
  /\ acted[d] = 0
  /\ acted' = [acted EXCEPT ![d] = 1]
  /\ UNCHANGED emitted

DeliveryInit == emitted = {} /\ acted = [d \in Duty |-> 0]

DeliveryNext ==
  \/ \E e \in Emission : EmitEvent(e)
  \/ \E d \in Duty : Act(d)

DeliverySpec == DeliveryInit /\ [][DeliveryNext]_<<emitted, acted>>

=============================================================================
