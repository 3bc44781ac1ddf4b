---------------------------- MODULE IdempotentLog ----------------------------
(***************************************************************************)
(* What the room-message pipeline promises its clients, with nothing said  *)
(* about Redis, sequence numbers, replicas or retries: a log of messages   *)
(* in which a client id is live at most once per room, and answers that    *)
(* only ever name a message the log really accepted for that client id in  *)
(* that room ("a retry returns the original row",                          *)
(* MessageService.java:59-63).  RoomSend implements it.                    *)
(***************************************************************************)
EXTENDS Integers

CONSTANTS
  Id,         \* the ids messages get
  NoId,       \* the idempotency key of a message sent without one
  Draft       \* the messages clients may submit: [user, room, cid]

VARIABLES
  live,       \* the messages in the log: [id, draft]
  accepted,   \* every message the log ever accepted
  answers     \* the answers clients were given: [id, draft]

vars == <<live, accepted, answers>>

Entry == [id : Id, draft : Draft]

\* Two drafts a retry cannot be told from: same room, same client id.
SameSend(d, e) == d.cid # NoId /\ d.room = e.room /\ d.cid = e.cid

Init ==
  /\ live = {}
  /\ accepted = {}
  /\ answers = {}

\* A message is accepted under an id that was never used, and only if no live
\* message is the same send.
Accept(e) ==
  /\ \A a \in accepted : a.id # e.id
  /\ \A m \in live : ~SameSend(m.draft, e.draft)
  /\ live' = live \cup {e}
  /\ accepted' = accepted \cup {e}
  /\ UNCHANGED answers

\* Messages are removed: deleted by their author, or self-destructed.
Retract(gone) ==
  /\ live' = live \ gone
  /\ UNCHANGED <<accepted, answers>>

\* A client that submitted d is told the id of an accepted message, its own or
\* the original of the same send.
Answer(d, e) ==
  /\ e \in accepted
  /\ e.draft = d \/ SameSend(e.draft, d)
  /\ answers' = answers \cup {[id |-> e.id, draft |-> d]}
  /\ UNCHANGED <<live, accepted>>

Next ==
  \/ \E e \in Entry : Accept(e)
  \/ \E gone \in SUBSET live : Retract(gone)
  \/ \E d \in Draft, e \in accepted : Answer(d, e)

Spec == Init /\ [][Next]_vars
=============================================================================
