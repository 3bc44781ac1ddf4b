---------------------------- MODULE EventPipeline ----------------------------
(***************************************************************************)
(* From a committed transaction to its durable side effect: the outbox     *)
(* (event_publication, OutboxResubmitter), the partition of a Kafka topic  *)
(* that carries one conversation, and a consumer group that claims every   *)
(* event in ProcessedEventLedger (NotificationConsumer, AuditConsumer).    *)
(*                                                                         *)
(* Events are numbered in the order their transactions committed.  An      *)
(* attempt to externalize one runs on a pool thread of some replica, so    *)
(* attempts run in any order; each may be given up (the broker is down,    *)
(* delivery.timeout.ms passes, the replica dies) before or after the       *)
(* broker appended the record.  A group member may crash between any two   *)
(* steps, and a rebalance may hand the partition to another member while   *)
(* the first still works on a record.                                      *)
(*                                                                         *)
(* Left out: the sweep of the ledger and Kafka's retention (both 7 days:   *)
(* a record outlives its ledger row only if the broker keeps it longer     *)
(* than configured); payloads; the analytics group, which has no ledger.   *)
(***************************************************************************)
EXTENDS Integers, Sequences, FiniteSets

CONSTANTS
  MaxEvents,  \* bound: events ever published
  Member,     \* the members of the consumer group
  MaxCopies,  \* bound: records of one event in the partition
  MaxQueued,  \* bound: attempts to send one event that wait at the same time
  MaxRetries  \* retries of a failing record before it is dead-lettered

ASSUME EventPipelineAssumption ==
  /\ MaxEvents \in Nat
  /\ MaxCopies \in Nat \ {0}
  /\ MaxQueued \in Nat \ {0}
  /\ MaxRetries \in Nat

Event == 1..MaxEvents

VARIABLES
  published,   \* how many events were committed; theirs are 1..published
  incomplete,  \* event_publication: the rows not completed (completed: deleted)
  queued,      \* attempts per event that have not reached the broker
  acks,        \* attempts per event that did, whose replica has yet to learn it
  log,         \* the partition
  dlt,         \* the events copied to <topic>-dlt
  offset,      \* the group's committed offset
  owner,       \* the member the partition is assigned to
  fenced,      \* members still busy with a record of an assignment they lost
  pc,          \* where each member stands with its record
  pos,         \* the record it works on
  retries,     \* how often the handler failed on it
  ledger,      \* processed_events: the events claimed by this group
  effects      \* how often each event's side effect was committed

outbox   == <<published, incomplete, queued, acks>>
members  == <<owner, fenced, pc, pos, retries>>
database == <<ledger, effects>>
vars     == <<outbox, log, dlt, offset, members, database>>

PCs == {"idle", "fetched", "claimed", "failed", "handled"}

TypeOK ==
  /\ published \in 0..MaxEvents
  /\ incomplete \subseteq 1..published
  /\ queued \in [Event -> 0..MaxQueued]
  /\ acks \in [Event -> 0..MaxCopies]
  /\ log \in Seq(Event)
  /\ dlt \subseteq Event
  /\ offset \in 0..Len(log)
  /\ owner \in Member
  /\ fenced \subseteq Member
  /\ pc \in [Member -> PCs]
  /\ pos \in [Member -> 0..Len(log)]
  /\ retries \in [Member -> 0..MaxRetries]
  /\ ledger \subseteq Event
  /\ effects \in [Event -> Nat]

Init ==
  /\ published = 0
  /\ incomplete = {}
  /\ queued = [e \in Event |-> 0]
  /\ acks = [e \in Event |-> 0]
  /\ log = <<>>
  /\ dlt = {}
  /\ offset = 0
  /\ owner \in Member
  /\ fenced = {}
  /\ pc = [m \in Member |-> "idle"]
  /\ pos = [m \in Member |-> 0]
  /\ retries = [m \in Member |-> 0]
  /\ ledger = {}
  /\ effects = [e \in Event |-> 0]

Plus(f, e)  == [f EXCEPT ![e] = @ + 1]
Minus(f, e) == [f EXCEPT ![e] = @ - 1]

Copies(e) == Cardinality({k \in 1..Len(log) : log[k] = e})

-----------------------------------------------------------------------------
(* The producing side. *)

\* A transaction commits with its event_publication row, and the externalizing
\* listener is handed to the event executor.
Publish ==
  LET e == published + 1
  IN /\ e \in Event
     /\ published' = e
     /\ incomplete' = incomplete \cup {e}
     /\ queued' = Plus(queued, e)
     /\ UNCHANGED <<acks, log, dlt, offset, members, database>>

\* The broker appends the record.
AppendRecord(e) ==
  /\ queued[e] > 0
  /\ Copies(e) < MaxCopies /\ acks[e] < MaxCopies
  /\ queued' = Minus(queued, e)
  /\ acks' = Plus(acks, e)
  /\ log' = Append(log, e)
  /\ UNCHANGED <<published, incomplete, dlt, offset, members, database>>

\* The acknowledgement (acks=all) completes the publication: its row is deleted.
Complete(e) ==
  /\ acks[e] > 0
  /\ acks' = Minus(acks, e)
  /\ incomplete' = incomplete \ {e}
  /\ UNCHANGED <<published, queued, log, dlt, offset, members, database>>

\* An attempt is given up without effect, or the acknowledgement never arrives.
GiveUp(e) ==
  /\ \/ queued[e] > 0 /\ queued' = Minus(queued, e) /\ UNCHANGED acks
     \/ acks[e] > 0 /\ acks' = Minus(acks, e) /\ UNCHANGED queued
  /\ UNCHANGED <<published, incomplete, log, dlt, offset, members, database>>

\* Faulty variant: incomplete publications are left to the next restart.
ResubmitNever(n) == FALSE

\* A tick of the resubmitter that got the advisory lock: every incomplete
\* publication older than resubmit-after (the first n) is handed to the executor
\* again.  A restart does the same with all of them (n = published).
\* resubmit-after exceeds delivery.timeout.ms, not the time spent in the queue.
Resubmit(n) ==
  LET old == {e \in incomplete : e <= n /\ queued[e] < MaxQueued}
  IN /\ old # {}
     /\ queued' = [e \in Event |-> IF e \in old THEN queued[e] + 1 ELSE queued[e]]
     /\ UNCHANGED <<published, incomplete, acks, log, dlt, offset, members, database>>

-----------------------------------------------------------------------------
(* The consuming side. *)

Record(m) == log[pos[m]]

Goto(m, from, to) ==
  /\ pc[m] = from
  /\ pc' = [pc EXCEPT ![m] = to]

\* The member is done with its record.
Rest(m) ==
  /\ pc' = [pc EXCEPT ![m] = "idle"]
  /\ pos' = [pos EXCEPT ![m] = 0]
  /\ retries' = [retries EXCEPT ![m] = 0]

NextRecord == offset + 1

\* The owner polls the record after the committed offset.
Poll(m) ==
  /\ m = owner
  /\ offset < Len(log)
  /\ Goto(m, "idle", "fetched")
  /\ pos' = [pos EXCEPT ![m] = NextRecord]
  /\ UNCHANGED <<outbox, log, dlt, offset, owner, fenced, retries, database>>

\* insert into processed_events ... on conflict do nothing.  The insert waits for
\* another transaction that has claimed the event and not ended.
\* Faulty variant: a consumer that does not ask the ledger.
NeverProcessed(e) == FALSE
Processed(e) == e \in ledger

Unclaimed(m) == \A o \in Member \ {m} : ~(pc[o] = "claimed" /\ Record(o) = Record(m))

Claim(m) ==
  /\ Goto(m, "fetched", "claimed")
  /\ Unclaimed(m)
  /\ ~Processed(Record(m))
  /\ UNCHANGED <<outbox, log, dlt, offset, owner, fenced, pos, retries, database>>

\* The claim loses: the handler returns.
Skip(m) ==
  /\ Goto(m, "fetched", "handled")
  /\ Unclaimed(m)
  /\ Processed(Record(m))
  /\ UNCHANGED <<outbox, log, dlt, offset, owner, fenced, pos, retries, database>>

\* Claim and side effect commit together.

CommitEffect(m) ==
  /\ Goto(m, "claimed", "handled")
  /\ ledger' = ledger \cup {Record(m)}
  /\ effects' = Plus(effects, Record(m))
  /\ UNCHANGED <<outbox, log, dlt, offset, owner, fenced, pos, retries>>

\* The side effect throws and the claim rolls back with it; the error handler
\* retries with back-off, MaxRetries times.
Retry(m) ==
  /\ Goto(m, "claimed", "fetched")
  /\ retries[m] < MaxRetries
  /\ retries' = [retries EXCEPT ![m] = @ + 1]
  /\ UNCHANGED <<outbox, log, dlt, offset, owner, fenced, pos, database>>

\* The retries are used up, or the exception is of a kind that is not retried.
Exhaust(m) ==
  /\ Goto(m, "claimed", "failed")
  /\ UNCHANGED <<outbox, log, dlt, offset, owner, fenced, pos, retries, database>>

\* DeadLetterPublishingRecoverer: the record is copied to the DLT, or the copy
\* fails and the record is delivered again.
DeadLetterFails(m) ==
  /\ Goto(m, "failed", "fetched")
  /\ retries' = [retries EXCEPT ![m] = 0]
  /\ UNCHANGED <<outbox, log, dlt, offset, owner, fenced, pos, database>>

DeadLetter(m) ==
  /\ Goto(m, "failed", "handled")
  /\ dlt' = dlt \cup {Record(m)}
  /\ UNCHANGED <<outbox, log, offset, owner, fenced, pos, retries, database>>

\* ack-mode record: the offset moves past a record once it is handled.
\* Faulty variant: the offset committed when the record is polled.
AsPolled(m) == pc[m] # "idle"
IsHandled(m) == pc[m] = "handled"

CommitOffset(m) ==
  /\ m \notin fenced
  /\ IsHandled(m)
  /\ offset' = pos[m]
  /\ Rest(m)
  /\ UNCHANGED <<outbox, log, dlt, owner, fenced, database>>

\* The commit of a member that lost the partition meanwhile is refused.
OffsetRefused(m) ==
  /\ m \in fenced
  /\ pc[m] = "handled"
  /\ fenced' = fenced \ {m}
  /\ Rest(m)
  /\ UNCHANGED <<outbox, log, dlt, offset, owner, database>>

\* A member dies (its transaction rolls back) and starts anew.
Crash(m) ==
  /\ pc[m] # "idle"
  /\ fenced' = fenced \ {m}
  /\ Rest(m)
  /\ UNCHANGED <<outbox, log, dlt, offset, owner, database>>

\* The partition is assigned to m; members at work do not notice until they commit.
Rebalance(m) ==
  /\ m # owner
  /\ owner' = m
  /\ fenced' = fenced \cup {o \in Member : pc[o] # "idle"}
  /\ UNCHANGED <<outbox, log, dlt, offset, pc, pos, retries, database>>

Work(m) ==
  \/ Poll(m) \/ Claim(m) \/ Skip(m) \/ CommitEffect(m)
  \/ Retry(m) \/ Exhaust(m) \/ DeadLetter(m) \/ DeadLetterFails(m)
  \/ CommitOffset(m) \/ OffsetRefused(m)

Next ==
  \/ Publish
  \/ \E e \in Event : AppendRecord(e) \/ Complete(e) \/ GiveUp(e)
  \/ \E n \in Event : Resubmit(n)
  \/ \E m \in Member : Work(m) \/ Crash(m) \/ Rebalance(m)

Spec == Init /\ [][Next]_vars

\* The resubmitter ticks every 15 s and publications get old, a member
\* goes on with its record, and the broker does not fail forever: a send or a copy
\* to the DLT that is tried again and again gets through.  The group settles in the
\* end; until then members may crash and the partition may move at any step.
\* Nothing obliges the system to publish, to give up or to fail.
GroupSettles == <>[][\A m \in Member : ~Crash(m) /\ ~Rebalance(m)]_vars

FairSpec ==
  /\ Spec
  /\ WF_vars(Resubmit(MaxEvents))
  /\ \A e \in Event : SF_vars(AppendRecord(e))
  /\ \A m \in Member : WF_vars(Work(m)) /\ SF_vars(DeadLetter(m))
  /\ GroupSettles

-----------------------------------------------------------------------------
(* Properties. *)

\* The claim and the effect are one transaction (ProcessedEventLedger:15-24):
\* whatever is redelivered, resubmitted or handled by two members at once, an
\* event takes effect at most once, and exactly if it is in the ledger, so an
\* event that failed for good leaves no ledger row behind.
EffectsFollowLedger ==
  \A e \in Event : effects[e] = IF e \in ledger THEN 1 ELSE 0

\* No crash loses an event: until it took effect or was dead-lettered, a published
\* event is in the outbox or in a part of the log the group has yet to consume.
Ahead(e)   == \E k \in (offset + 1)..Len(log) : log[k] = e
Settled(e) == effects[e] > 0 \/ e \in dlt
NothingLost ==
  \A e \in 1..published : e \in incomplete \/ Ahead(e) \/ Settled(e)

\* Delivery happens (OutboxResubmitter:19-24): every published event takes effect
\* or is dead-lettered, without an operator and without a restart.
EverythingSettles == \A e \in Event : e <= published ~> Settled(e)

\* EventPipeline implements EffectOnce.
Once == INSTANCE EffectOnce WITH
          published <- 1..published,
          setAside  <- dlt

ImplementsEffectOnce == Once!Spec

-----------------------------------------------------------------------------
(* The inductive invariant behind the safety properties. *)

InLog(e) == \E k \in 1..Len(log) : log[k] = e

\* Only published events are sent, recorded, claimed or set aside.
OnlyPublished ==
  /\ \A e \in Event : queued[e] > 0 => e <= published
  /\ \A k \in 1..Len(log) : log[k] <= published
  /\ ledger \cup dlt \subseteq 1..published

\* A publication is completed, and an attempt acknowledged, for a record there is.
Recorded ==
  /\ \A e \in Event : acks[e] > 0 => InLog(e)
  /\ \A e \in 1..published : e \notin incomplete => InLog(e)

\* The group has settled every record up to its offset.
OffsetSound == \A k \in 1..offset : Settled(log[k])

\* A member that still has the partition works on the record after the offset;
\* claims are exclusive; a record is handled only once it is settled.
MemberSound(m) ==
  /\ pc[m] # "idle" => pos[m] # 0
  /\ pc[m] # "idle" /\ m \notin fenced => m = owner /\ pos[m] = offset + 1
  /\ pc[m] = "claimed" => Record(m) \notin ledger
  /\ pc[m] = "claimed" => Unclaimed(m)
  /\ pc[m] = "handled" => Settled(Record(m))

MembersSound == \A m \in Member : MemberSound(m)

IInv ==
  /\ TypeOK
  /\ OnlyPublished
  /\ Recorded
  /\ OffsetSound
  /\ MembersSound
  /\ EffectsFollowLedger
=============================================================================
