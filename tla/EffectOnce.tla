----------------------------- MODULE EffectOnce ------------------------------
(***************************************************************************)
(* What the event pipeline promises its consumers (KAFKA_DESIGN.md,        *)
(* "Exactly-once effects on an at-least-once log"): an event that was      *)
(* published takes effect once, or is set aside for an operator, and an    *)
(* event that was not published does neither.  Nothing is said about       *)
(* brokers, offsets, retries or crashes.  EventPipeline implements it.     *)
(***************************************************************************)
EXTENDS Integers

CONSTANT Event

VARIABLES
  published,  \* the events whose transaction committed
  effects,    \* how often each event took effect
  setAside    \* the events in the dead-letter topic

vars == <<published, effects, setAside>>

Init ==
  /\ published = {}
  /\ effects = [e \in Event |-> 0]
  /\ setAside = {}

Publish(e) ==
  /\ e \notin published
  /\ published' = published \cup {e}
  /\ UNCHANGED <<effects, setAside>>

TakeEffect(e) ==
  /\ e \in published
  /\ effects[e] = 0
  /\ effects' = [effects EXCEPT ![e] = 1]
  /\ UNCHANGED <<published, setAside>>

SetAside(e) ==
  /\ e \in published
  /\ setAside' = setAside \cup {e}
  /\ UNCHANGED <<published, effects>>

Next == \E e \in Event : Publish(e) \/ TakeEffect(e) \/ SetAside(e)

Spec == Init /\ [][Next]_vars
=============================================================================
