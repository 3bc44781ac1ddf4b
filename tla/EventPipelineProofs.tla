------------------------- MODULE EventPipelineProofs -------------------------
(***************************************************************************)
(* Theorems about EventPipeline, for every number of events, copies,       *)
(* attempts and retries and every consumer group.                          *)
(*                                                                         *)
(* The argument has two halves.  Producers: a publication is completed     *)
(* only once its record is in the log.  Consumers: the offset passes a     *)
(* record only once the event is settled, and an effect commits only with  *)
(* a claim nobody else holds.  So an event that is no longer in the outbox *)
(* is ahead of the offset, or it is settled.                               *)
(***************************************************************************)
EXTENDS EventPipeline, TLAPS

USE EventPipelineAssumption

LEMMA EventsAreNumbers == Event \subseteq Nat /\ \A e \in Event : e >= 1
BY DEF Event

LEMMA Initially == Init => IInv
<1> SUFFICES ASSUME Init  PROVE IInv
  OBVIOUS
<1>1. Len(log) = 0 /\ log \in Seq(Event)
  BY DEF Init
<1> QED
  BY <1>1 DEF Init, IInv, TypeOK, OnlyPublished, Recorded, InLog, OffsetSound, MembersSound,
              MemberSound, EffectsFollowLedger, PCs

-----------------------------------------------------------------------------
(* Steps of the producing side. *)

\* Nothing of a consumer's but the log may change, and the log only grows.
LogGrows ==
  \/ UNCHANGED log
  \/ \E e \in Event : e <= published /\ log' = Append(log, e)

LEMMA LongerLog ==
  ASSUME TypeOK, LogGrows
  PROVE  /\ log' \in Seq(Event)
         /\ Len(log') >= Len(log)
         /\ \A k \in 1..Len(log) : log'[k] = log[k]
         /\ \A k \in 1..Len(log') : k \in 1..Len(log) \/ (k = Len(log) + 1 /\ log' = Append(log, log'[k]))
         /\ \A e \in Event : InLog(e) => InLog(e)'
<1>1. log \in Seq(Event) /\ Len(log) \in Nat
  BY DEF TypeOK
<1>2. CASE UNCHANGED log
  BY <1>1, <1>2 DEF InLog
<1>3. ASSUME NEW e \in Event, log' = Append(log, e)
      PROVE  /\ log' \in Seq(Event)
             /\ Len(log') = Len(log) + 1
             /\ \A k \in 1..Len(log) : log'[k] = log[k]
             /\ log'[Len(log) + 1] = e
  BY <1>1, <1>3
<1>4. ASSUME NEW e \in Event, log' = Append(log, e)
      PROVE  /\ \A k \in 1..Len(log') : k \in 1..Len(log) \/ (k = Len(log) + 1 /\ log' = Append(log, log'[k]))
             /\ \A d \in Event : InLog(d) => InLog(d)'
  BY <1>1, <1>3, <1>4 DEF InLog
<1> QED
  BY <1>1, <1>2, <1>3, <1>4 DEF LogGrows

\* A member's record stays what it was.
LEMMA ProducersKeepConsumers ==
  ASSUME IInv, LogGrows, UNCHANGED <<dlt, offset, members, database>>
  PROVE  OffsetSound' /\ MembersSound' /\ EffectsFollowLedger' /\ pos' \in [Member -> 0..Len(log')]
         /\ offset' \in 0..Len(log')
<1> USE DEF members, database
<1>0. /\ log' \in Seq(Event)
      /\ Len(log') >= Len(log)
      /\ \A k \in 1..Len(log) : log'[k] = log[k]
  BY LongerLog DEF IInv
<1>1. /\ offset \in 0..Len(log) /\ Len(log) \in Nat /\ Len(log') \in Nat
      /\ pos \in [Member -> 0..Len(log)]
      /\ Len(log') >= Len(log)
      /\ \A k \in 1..Len(log) : log'[k] = log[k]
  BY <1>0 DEF IInv, TypeOK
<1>2. OffsetSound'
  <2>1. \A k \in 1..offset : log'[k] = log[k]
    BY <1>1
  <2> QED
    BY <2>1 DEF IInv, OffsetSound, Settled
<1>3. \A m \in Member : pc[m] # "idle" => Record(m)' = Record(m)
  <2> SUFFICES ASSUME NEW m \in Member, pc[m] # "idle"  PROVE log'[pos[m]] = log[pos[m]]
    BY DEF Record
  <2>1. pos[m] \in 1..Len(log)
    BY <1>1 DEF IInv, MembersSound, MemberSound
  <2> QED
    BY <1>1, <2>1
<1>4. MembersSound'
  <2> SUFFICES ASSUME NEW m \in Member
               PROVE  /\ pc[m] # "idle" => pos[m] # 0
                      /\ pc[m] # "idle" /\ m \notin fenced => m = owner /\ pos[m] = offset + 1
                      /\ pc[m] = "claimed" => Record(m)' \notin ledger
                      /\ pc[m] = "claimed" => Unclaimed(m)'
                      /\ pc[m] = "handled" => Settled(Record(m))'
    BY DEF MembersSound, MemberSound
  <2>1. pc[m] = "claimed" => Unclaimed(m)'
    BY <1>3 DEF IInv, MembersSound, MemberSound, Unclaimed
  <2>2. pc[m] = "handled" => Settled(Record(m))'
    BY <1>3 DEF IInv, MembersSound, MemberSound, Settled
  <2> QED
    BY <1>3, <2>1, <2>2 DEF IInv, MembersSound, MemberSound
<1>5. EffectsFollowLedger'
  BY DEF IInv, EffectsFollowLedger
<1> QED
  BY <1>1, <1>2, <1>4, <1>5

LEMMA PublishKeeps ==
  ASSUME IInv, Publish
  PROVE  IInv'
<1> DEFINE e == published + 1
<1> USE DEF Event, members, database
<1>1. /\ published \in 0..MaxEvents /\ MaxEvents \in Nat /\ published' = e /\ e \in 1..MaxEvents
      /\ incomplete' = incomplete \cup {e}
      /\ queued' = [queued EXCEPT ![e] = @ + 1]
      /\ queued \in [Event -> 0..MaxQueued] /\ MaxQueued \in Nat \ {0}
      /\ UNCHANGED <<acks, log, dlt, offset, members, database>>
  BY DEF Publish, Plus, IInv, TypeOK
<1>2. queued[e] = 0
  BY <1>1 DEF IInv, OnlyPublished
<1>3. OffsetSound' /\ MembersSound' /\ EffectsFollowLedger'
  BY <1>1, ProducersKeepConsumers DEF LogGrows
<1>4. queued' \in [Event -> 0..MaxQueued]
  BY <1>1, <1>2
<1>5. TypeOK'
  <2>1. published' \in 0..MaxEvents /\ incomplete' \subseteq 1..published'
    <3>1. incomplete \subseteq 1..published
      BY DEF IInv, TypeOK
    <3> QED
      BY <1>1, <3>1
  <2> QED
    BY <1>1, <1>4, <2>1 DEF IInv, TypeOK
<1>6. OnlyPublished'
  <2>1. \A d \in Event : queued'[d] > 0 => d <= published'
    BY <1>1 DEF IInv, OnlyPublished
  <2>2. \A k \in 1..Len(log) : log[k] <= published'
    <3> SUFFICES ASSUME NEW k \in 1..Len(log)  PROVE log[k] <= published'
      OBVIOUS
    <3>1. log \in Seq(1..MaxEvents) /\ log[k] <= published
      BY DEF IInv, TypeOK, OnlyPublished
    <3>2. log[k] \in 1..MaxEvents
      BY <3>1
    <3> QED
      BY <1>1, <3>1, <3>2
  <2>3. ledger \cup dlt \subseteq 1..published'
    BY <1>1 DEF IInv, OnlyPublished
  <2> QED
    BY <1>1, <2>1, <2>2, <2>3 DEF OnlyPublished
<1>7. Recorded'
  BY <1>1 DEF IInv, Recorded, InLog
<1> QED
  BY <1>3, <1>5, <1>6, <1>7 DEF IInv

LEMMA AppendKeeps ==
  ASSUME IInv, NEW e \in Event, AppendRecord(e)
  PROVE  IInv'
<1> USE DEF members, database
<1>1. /\ queued' = [queued EXCEPT ![e] = @ - 1] /\ queued[e] > 0
      /\ acks' = [acks EXCEPT ![e] = @ + 1] /\ acks[e] < MaxCopies
      /\ log' = Append(log, e)
      /\ UNCHANGED <<published, incomplete, dlt, offset, members, database>>
  BY DEF AppendRecord, Plus, Minus
<1>2. /\ queued \in [Event -> 0..MaxQueued] /\ acks \in [Event -> 0..MaxCopies]
      /\ MaxQueued \in Nat /\ MaxCopies \in Nat /\ log \in Seq(Event) /\ Len(log) \in Nat
  BY DEF IInv, TypeOK
<1>3. LogGrows
  BY <1>1 DEF LogGrows, IInv, OnlyPublished
<1>4. OffsetSound' /\ MembersSound' /\ EffectsFollowLedger' /\ pos' \in [Member -> 0..Len(log')]
      /\ offset' \in 0..Len(log')
  BY <1>1, <1>3, ProducersKeepConsumers
<1>5. /\ log' \in Seq(Event)
      /\ Len(log') = Len(log) + 1
      /\ log'[Len(log) + 1] = e
      /\ \A k \in 1..Len(log) : log'[k] = log[k]
  BY <1>1, <1>2
<1>6. queued' \in [Event -> 0..MaxQueued] /\ acks' \in [Event -> 0..MaxCopies]
  BY <1>1, <1>2
<1>7. TypeOK'
  BY <1>1, <1>4, <1>5, <1>6 DEF IInv, TypeOK
<1>8. OnlyPublished'
  <2>1. \A d \in Event : queued'[d] > 0 => d <= published
    BY <1>1, <1>2 DEF IInv, OnlyPublished
  <2>2. \A k \in 1..Len(log') : log'[k] <= published
    BY <1>1, <1>2, <1>5 DEF IInv, OnlyPublished
  <2> QED
    BY <1>1, <2>1, <2>2 DEF IInv, OnlyPublished
<1>9. InLog(e)' /\ \A d \in Event : InLog(d) => InLog(d)'
  <2>1. Len(log) + 1 \in 1..Len(log')
    BY <1>2, <1>5
  <2> QED
    BY <1>5, <1>3, <2>1, LongerLog DEF InLog, IInv
<1>10. Recorded'
  <2>1. \A d \in Event : acks'[d] > 0 => d = e \/ acks[d] > 0
    BY <1>1, <1>2
  <2>2. 1..published \subseteq Event
    BY DEF Event, IInv, TypeOK
  <2> QED
    BY <1>1, <1>9, <2>1, <2>2 DEF IInv, Recorded
<1> QED
  BY <1>4, <1>7, <1>8, <1>10 DEF IInv

LEMMA OutboxKeeps ==
  ASSUME IInv,
         \/ \E e \in Event : Complete(e) \/ GiveUp(e)
         \/ \E n \in Event : Resubmit(n)
  PROVE  IInv'
<1> USE DEF members, database
<1>1. /\ queued \in [Event -> 0..MaxQueued] /\ acks \in [Event -> 0..MaxCopies]
      /\ MaxQueued \in Nat \ {0} /\ MaxCopies \in Nat
      /\ published \in 0..MaxEvents /\ MaxEvents \in Nat
  BY DEF IInv, TypeOK
<1>2. /\ UNCHANGED <<published, log, dlt, offset, members, database>>
      /\ incomplete' \subseteq incomplete
      /\ queued' \in [Event -> 0..MaxQueued]
      /\ acks' \in [Event -> 0..MaxCopies]
      /\ \A e \in Event : queued'[e] > 0 => queued[e] > 0 \/ e \in incomplete
      /\ \A e \in Event : acks'[e] > 0 => acks[e] > 0
      /\ \A e \in incomplete : e \notin incomplete' => acks[e] > 0
  <2>1. ASSUME NEW e \in Event, Complete(e)
        PROVE  /\ acks' = [acks EXCEPT ![e] = @ - 1] /\ acks[e] > 0
               /\ acks' \in [Event -> 0..MaxCopies]
    BY <1>1, <2>1 DEF Complete, Minus
  <2>2. CASE \E e \in Event : Complete(e)
    BY <1>1, <2>1, <2>2 DEF Complete
  <2>3. CASE \E e \in Event : GiveUp(e)
    <3>1. PICK e \in Event : GiveUp(e)
      BY <2>3
    <3>2. CASE queued[e] > 0 /\ queued' = Minus(queued, e) /\ UNCHANGED acks
      BY <1>1, <3>1, <3>2 DEF GiveUp, Minus
    <3>3. CASE acks[e] > 0 /\ acks' = Minus(acks, e) /\ UNCHANGED queued
      BY <1>1, <3>1, <3>3 DEF GiveUp, Minus
    <3> QED
      BY <3>1, <3>2, <3>3 DEF GiveUp
  <2>4. CASE \E n \in Event : Resubmit(n)
    BY <1>1, <2>4 DEF Resubmit
  <2> QED
    BY <2>2, <2>3, <2>4
<1>3. OffsetSound' /\ MembersSound' /\ EffectsFollowLedger'
  BY <1>2, ProducersKeepConsumers DEF LogGrows
<1>4. TypeOK'
  BY <1>2 DEF IInv, TypeOK
<1>5. \A e \in incomplete : e <= published /\ e \in Event
  BY <1>1 DEF IInv, TypeOK, Event
<1>6. OnlyPublished'
  BY <1>2, <1>5 DEF IInv, OnlyPublished
<1>7. Recorded'
  BY <1>2, <1>5 DEF IInv, Recorded, InLog
<1> QED
  BY <1>3, <1>4, <1>6, <1>7 DEF IInv

-----------------------------------------------------------------------------
(* Steps of the consuming side. *)

\* Settled, in terms of the ledger.
LEMMA SettledMeans ==
  EffectsFollowLedger => \A e \in Event : Settled(e) <=> e \in ledger \cup dlt
BY DEF EffectsFollowLedger, Settled

LEMMA SettledMeansNext ==
  EffectsFollowLedger' => \A e \in Event : Settled(e)' <=> e \in ledger' \cup dlt'
BY DEF EffectsFollowLedger, Settled

\* A member's record is one of the log's.
LEMMA RecordTyped ==
  ASSUME IInv, NEW m \in Member, pc[m] # "idle"
  PROVE  pos[m] \in 1..Len(log) /\ Record(m) \in Event
<1>1. pos[m] \in 0..Len(log) /\ log \in Seq(Event) /\ pos[m] # 0
  BY DEF IInv, TypeOK, MembersSound, MemberSound
<1> QED
  BY <1>1 DEF Record

LEMMA ConsumersKeepProducers ==
  ASSUME IInv, UNCHANGED <<outbox, log>>, ledger' \cup dlt' \subseteq 1..published
  PROVE  OnlyPublished' /\ Recorded'
BY DEF IInv, outbox, OnlyPublished, Recorded, InLog

\* What every step of m on a record it holds, or polls, has in common.
WorksOn(m, to) ==
  /\ UNCHANGED <<outbox, log, offset, owner, fenced>>
  /\ pc' = [pc EXCEPT ![m] = to]
  /\ to \in PCs \ {"idle"}
  /\ \/ pc[m] # "idle" /\ UNCHANGED pos
     \/ m = owner /\ offset < Len(log) /\ to = "fetched" /\ pos' = [pos EXCEPT ![m] = offset + 1]
  /\ retries' \in [Member -> 0..MaxRetries]

LEMMA WorkKeeps ==
  ASSUME IInv, NEW m \in Member, NEW to, WorksOn(m, to),
         ledger \subseteq ledger', dlt \subseteq dlt', ledger' \cup dlt' \subseteq 1..published,
         effects' \in [Event -> Nat], EffectsFollowLedger',
         \A o \in Member \ {m} : pc[o] = "claimed" => Record(o) \notin ledger',
         to = "claimed" => Record(m) \notin ledger' /\ Unclaimed(m),
         to = "handled" => Record(m) \in ledger' \cup dlt'
  PROVE  IInv'
<1>1. /\ pc \in [Member -> PCs] /\ pos \in [Member -> 0..Len(log)]
      /\ offset \in 0..Len(log) /\ Len(log) \in Nat /\ log \in Seq(Event)
      /\ published \in 0..MaxEvents /\ MaxEvents \in Nat
  BY DEF IInv, TypeOK
<1>2. UNCHANGED <<published, incomplete, queued, acks, log, offset, owner, fenced>>
  BY DEF WorksOn, outbox
<1>3. /\ pc' \in [Member -> PCs] /\ pc'[m] = to
      /\ \A o \in Member \ {m} : pc'[o] = pc[o]
  BY <1>1 DEF WorksOn
<1>4. /\ pos' \in [Member -> 0..Len(log)]
      /\ \A o \in Member \ {m} : pos'[o] = pos[o]
  <2>1. CASE UNCHANGED pos
    BY <1>1, <2>1
  <2>2. CASE offset < Len(log) /\ pos' = [pos EXCEPT ![m] = offset + 1]
    <3>1. offset + 1 \in 0..Len(log)
      BY <1>1, <2>2
    <3> QED
      BY <1>1, <2>2, <3>1
  <2> QED
    BY <2>1, <2>2 DEF WorksOn
<1>5. TypeOK'
  <2>1. ledger' \subseteq Event /\ dlt' \subseteq Event
    BY <1>1 DEF Event
  <2> QED
    BY <1>2, <1>3, <1>4, <2>1 DEF IInv, TypeOK, WorksOn
<1>6. OnlyPublished' /\ Recorded'
  BY ConsumersKeepProducers DEF WorksOn
<1>7. \A e \in Event : Settled(e) => Settled(e)'
  BY SettledMeans, SettledMeansNext DEF IInv
<1>8. OffsetSound'
  <2>1. \A k \in 1..offset : log[k] \in Event
    BY <1>1
  <2> QED
    BY <1>2, <1>7, <2>1 DEF IInv, OffsetSound, Settled
<1>9. /\ \A o \in Member \ {m} : Record(o)' = Record(o)
      /\ pc[m] # "idle" /\ pos' = pos => Record(m)' = Record(m)
  BY <1>2, <1>4 DEF Record
<1>10. ASSUME NEW o \in Member \ {m}  PROVE MemberSound(o)'
  <2>1. MemberSound(o)
    BY DEF IInv, MembersSound
  <2>2. pc[o] = "claimed" => Unclaimed(o)'
    <3> SUFFICES ASSUME pc[o] = "claimed", NEW q \in Member \ {o},
                        pc'[q] = "claimed", Record(q)' = Record(o)'
                 PROVE  FALSE
      BY DEF Unclaimed
    <3>1. CASE q # m
      BY <1>3, <1>9, <2>1, <3>1 DEF MemberSound, Unclaimed
    <3>2. CASE q = m
      <4>1. to = "claimed" /\ pos' = pos /\ pc[m] # "idle"
        BY <1>3, <3>2 DEF WorksOn
      <4>2. Record(m) = Record(o)
        BY <1>9, <3>2, <4>1
      <4> QED
        BY <4>1, <4>2 DEF Unclaimed
    <3> QED
      BY <3>1, <3>2
  <2>3. pc[o] = "handled" => Settled(Record(o))'
    <3> SUFFICES ASSUME pc[o] = "handled"  PROVE Settled(Record(o))'
      OBVIOUS
    <3>1. Record(o) \in Event
      BY RecordTyped
    <3>2. Settled(Record(o))
      BY <2>1 DEF MemberSound
    <3> QED
      BY <1>7, <1>9, <3>1, <3>2 DEF Settled
  <2> QED
    <3>1. /\ pc'[o] # "idle" => pos'[o] # 0
          /\ pc'[o] # "idle" /\ o \notin fenced' => o = owner' /\ pos'[o] = offset' + 1
      BY <1>2, <1>3, <1>4, <2>1 DEF MemberSound
    <3>2. pc'[o] = "claimed" => Record(o)' \notin ledger'
      BY <1>3, <1>9
    <3> QED
      BY <1>3, <3>1, <3>2, <2>2, <2>3 DEF MemberSound
<1>11. MemberSound(m)'
  <2>1. CASE pc[m] # "idle" /\ UNCHANGED pos
    <3>1. MemberSound(m) /\ Record(m) \in Event /\ Record(m)' = Record(m)
      BY <1>9, <2>1, RecordTyped DEF IInv, MembersSound
    <3>2. to = "handled" => Settled(Record(m))'
      BY <3>1, SettledMeansNext DEF Settled
    <3>3. to = "claimed" => Unclaimed(m)'
      BY <1>3, <1>9, <3>1 DEF Unclaimed
    <3> QED
      BY <1>2, <1>3, <2>1, <3>1, <3>2, <3>3 DEF MemberSound
  <2>2. CASE m = owner /\ to = "fetched" /\ pos' = [pos EXCEPT ![m] = offset + 1]
    BY <1>1, <1>2, <1>3, <2>2 DEF MemberSound
  <2> QED
    BY <2>1, <2>2 DEF WorksOn
<1> QED
  BY <1>5, <1>6, <1>8, <1>10, <1>11 DEF IInv, MembersSound

\* The step leaves the database alone.
LEMMA MoveKeeps ==
  ASSUME IInv, NEW m \in Member, NEW to, WorksOn(m, to), UNCHANGED <<dlt, database>>,
         to = "claimed" => Record(m) \notin ledger /\ Unclaimed(m),
         to = "handled" => Record(m) \in ledger
  PROVE  IInv'
<1>1. UNCHANGED <<dlt, ledger, effects>>
  BY DEF database
<1>2. /\ ledger' \cup dlt' \subseteq 1..published
      /\ effects' \in [Event -> Nat]
      /\ \A o \in Member \ {m} : pc[o] = "claimed" => Record(o) \notin ledger'
  BY <1>1 DEF IInv, TypeOK, OnlyPublished, MembersSound, MemberSound
<1>3. EffectsFollowLedger'
  BY <1>1 DEF IInv, EffectsFollowLedger
<1> QED
  BY <1>1, <1>2, <1>3, WorkKeeps

LEMMA WorkingKeeps ==
  ASSUME IInv, NEW m \in Member,
         \/ Poll(m) \/ Claim(m) \/ Skip(m) \/ Retry(m) \/ Exhaust(m) \/ DeadLetterFails(m)
  PROVE  IInv'
<1>1. /\ retries \in [Member -> 0..MaxRetries]
      /\ MaxRetries \in Nat
  BY DEF IInv, TypeOK
<1>2. CASE Poll(m)
  <2>1. WorksOn(m, "fetched") /\ UNCHANGED <<dlt, database>>
    BY <1>1, <1>2 DEF Poll, Goto, NextRecord, WorksOn, PCs
  <2> QED
    BY <2>1, MoveKeeps
<1>3. CASE Claim(m)
  <2>1. WorksOn(m, "claimed") /\ UNCHANGED <<dlt, database>> /\ Record(m) \notin ledger /\ Unclaimed(m)
    BY <1>1, <1>3 DEF Claim, Goto, Processed, WorksOn, PCs
  <2> QED
    BY <2>1, MoveKeeps
<1>4. CASE Skip(m)
  <2>1. WorksOn(m, "handled") /\ UNCHANGED <<dlt, database>> /\ Record(m) \in ledger
    BY <1>1, <1>4 DEF Skip, Goto, Processed, WorksOn, PCs
  <2> QED
    BY <2>1, MoveKeeps
<1>5. CASE Retry(m)
  <2>1. retries' \in [Member -> 0..MaxRetries]
    BY <1>1, <1>5 DEF Retry
  <2>2. WorksOn(m, "fetched") /\ UNCHANGED <<dlt, database>>
    BY <2>1, <1>5 DEF Retry, Goto, WorksOn, PCs
  <2> QED
    BY <2>2, MoveKeeps
<1>6. CASE Exhaust(m)
  <2>1. WorksOn(m, "failed") /\ UNCHANGED <<dlt, database>>
    BY <1>1, <1>6 DEF Exhaust, Goto, WorksOn, PCs
  <2> QED
    BY <2>1, MoveKeeps
<1>7. CASE DeadLetterFails(m)
  <2>1. retries' \in [Member -> 0..MaxRetries]
    BY <1>1, <1>7 DEF DeadLetterFails
  <2>2. WorksOn(m, "fetched") /\ UNCHANGED <<dlt, database>>
    BY <2>1, <1>7 DEF DeadLetterFails, Goto, WorksOn, PCs
  <2> QED
    BY <2>2, MoveKeeps
<1> QED
  BY <1>2, <1>3, <1>4, <1>5, <1>6, <1>7

\* The claim is exclusive, so the effect is the event's first and no other
\* claim is for the same event.
LEMMA CommitKeeps ==
  ASSUME IInv, NEW m \in Member, CommitEffect(m)
  PROVE  IInv' /\ Record(m) \in 1..published /\ effects[Record(m)] = 0
<1> DEFINE e == Record(m)
<1>1. /\ pc[m] = "claimed"
      /\ ledger' = ledger \cup {e}
      /\ effects' = [effects EXCEPT ![e] = @ + 1]
      /\ UNCHANGED <<dlt, retries>>
  BY DEF CommitEffect, Goto, Plus
<1>2. WorksOn(m, "handled")
  BY <1>1 DEF CommitEffect, Goto, WorksOn, PCs, IInv, TypeOK
<1>3. e \in Event /\ pos[m] \in 1..Len(log) /\ e \notin ledger /\ Unclaimed(m)
  BY <1>1, RecordTyped DEF IInv, MembersSound, MemberSound
<1>4. effects \in [Event -> Nat] /\ effects[e] = 0
  BY <1>3 DEF IInv, TypeOK, EffectsFollowLedger
<1>5. e \in 1..published
  <2>1. e \in Nat /\ e >= 1
    BY <1>3, EventsAreNumbers
  <2>2. e <= published /\ published \in Nat
    BY <1>3 DEF IInv, TypeOK, OnlyPublished, Record
  <2> QED
    BY <2>1, <2>2
<1>6. ledger' \cup dlt' \subseteq 1..published
  BY <1>1, <1>5 DEF IInv, OnlyPublished
<1>7. effects' \in [Event -> Nat] /\ EffectsFollowLedger'
  <2>1. effects' = [effects EXCEPT ![e] = 1]
    BY <1>1, <1>3, <1>4
  <2> QED
    BY <1>1, <1>3, <1>4, <2>1 DEF IInv, EffectsFollowLedger
<1>8. \A o \in Member \ {m} : pc[o] = "claimed" => Record(o) \notin ledger'
  BY <1>1, <1>3 DEF IInv, MembersSound, MemberSound, Unclaimed
<1> QED
  BY <1>1, <1>2, <1>4, <1>5, <1>6, <1>7, <1>8, WorkKeeps

LEMMA DeadLetterKeeps ==
  ASSUME IInv, NEW m \in Member, DeadLetter(m)
  PROVE  IInv' /\ Record(m) \in 1..published
<1> DEFINE e == Record(m)
<1>1. /\ pc[m] = "failed"
      /\ dlt' = dlt \cup {e}
      /\ UNCHANGED <<ledger, effects, retries>>
  BY DEF DeadLetter, Goto, database
<1>2. WorksOn(m, "handled")
  BY <1>1 DEF DeadLetter, Goto, WorksOn, PCs, IInv, TypeOK
<1>3. e \in Event /\ pos[m] \in 1..Len(log)
  BY <1>1, RecordTyped
<1>4. e \in 1..published
  <2>1. e \in Nat /\ e >= 1
    BY <1>3, EventsAreNumbers
  <2>2. e <= published /\ published \in Nat
    BY <1>3 DEF IInv, TypeOK, OnlyPublished, Record
  <2> QED
    BY <2>1, <2>2
<1>5. ledger' \cup dlt' \subseteq 1..published
  BY <1>1, <1>4 DEF IInv, OnlyPublished
<1>6. effects' \in [Event -> Nat] /\ EffectsFollowLedger'
  BY <1>1 DEF IInv, TypeOK, EffectsFollowLedger
<1>7. \A o \in Member \ {m} : pc[o] = "claimed" => Record(o) \notin ledger'
  BY <1>1 DEF IInv, MembersSound, MemberSound
<1> QED
  BY <1>1, <1>2, <1>4, <1>5, <1>6, <1>7, WorkKeeps

\* A member that is done, or gone, leaves the others as they are; only a member
\* that has the partition moves the offset, and then no other has it.
LEMMA RestKeeps ==
  ASSUME IInv, NEW m \in Member,
         CommitOffset(m) \/ OffsetRefused(m) \/ Crash(m)
  PROVE  IInv'
<1>1. /\ UNCHANGED <<published, incomplete, queued, acks, log, dlt, owner, ledger, effects>>
      /\ UNCHANGED <<outbox, log>>
      /\ Rest(m)
      /\ fenced' \subseteq fenced /\ \A o \in Member \ {m} : o \in fenced => o \in fenced'
      /\ \/ offset' = offset
         \/ m \notin fenced /\ pc[m] = "handled" /\ offset' = pos[m]
  BY DEF CommitOffset, OffsetRefused, Crash, IsHandled, Goto, outbox, database
<1>2. /\ pc \in [Member -> PCs] /\ pos \in [Member -> 0..Len(log)]
      /\ retries \in [Member -> 0..MaxRetries] /\ MaxRetries \in Nat
      /\ offset \in 0..Len(log) /\ Len(log) \in Nat /\ log \in Seq(Event)
  BY DEF IInv, TypeOK
<1>3. /\ pc' \in [Member -> PCs] /\ pos' \in [Member -> 0..Len(log)]
      /\ retries' \in [Member -> 0..MaxRetries]
      /\ pc'[m] = "idle"
      /\ \A o \in Member \ {m} : pc'[o] = pc[o] /\ pos'[o] = pos[o]
  BY <1>1, <1>2 DEF Rest, PCs
<1>4. offset' = offset
      \/ /\ offset' = offset + 1 /\ offset' \in 0..Len(log) /\ Settled(log[offset'])
         /\ \A o \in Member \ {m} : pc[o] # "idle" => o \in fenced
  <2> SUFFICES ASSUME m \notin fenced, pc[m] = "handled", offset' = pos[m]
               PROVE  /\ offset' = offset + 1 /\ offset' \in 0..Len(log) /\ Settled(log[offset'])
                      /\ \A o \in Member \ {m} : pc[o] # "idle" => o \in fenced
    BY <1>1
  <2>1. pos[m] = offset + 1 /\ Settled(Record(m)) /\ m = owner
    BY DEF IInv, MembersSound, MemberSound
  <2>2. \A o \in Member \ {m} : pc[o] # "idle" => o \in fenced
    BY <2>1 DEF IInv, MembersSound, MemberSound
  <2> QED
    BY <1>2, <2>1, <2>2 DEF Record
<1>5. TypeOK'
  BY <1>1, <1>2, <1>3, <1>4 DEF IInv, TypeOK
<1>6. OnlyPublished' /\ Recorded'
  <2>1. ledger' \cup dlt' \subseteq 1..published
    BY <1>1 DEF IInv, OnlyPublished
  <2> QED
    BY <1>1, <2>1, ConsumersKeepProducers
<1>7. OffsetSound'
  <2>1. \A k \in 1..offset' : k \in 1..offset \/ (k = offset' /\ Settled(log[k]))
    BY <1>2, <1>4
  <2> QED
    BY <1>1, <2>1 DEF IInv, OffsetSound, Settled
<1>8. ASSUME NEW o \in Member  PROVE MemberSound(o)'
  <2>1. CASE o = m
    BY <1>3, <2>1 DEF MemberSound
  <2>2. CASE o # m
    <3>1. MemberSound(o) /\ o \in Member \ {m}
      BY <2>2 DEF IInv, MembersSound
    <3>2. pc'[o] = pc[o] /\ pos'[o] = pos[o] /\ Record(o)' = Record(o)
      BY <1>1, <1>3, <3>1 DEF Record
    <3>3. pc[o] = "claimed" => Unclaimed(o)'
      <4> SUFFICES ASSUME pc[o] = "claimed", NEW q \in Member \ {o},
                          pc'[q] = "claimed", Record(q)' = Record(o)'
                   PROVE  FALSE
        BY DEF Unclaimed
      <4>1. q \in Member \ {m}
        BY <1>3
      <4>2. pc[q] = "claimed" /\ Record(q) = Record(o)
        BY <1>1, <1>3, <3>2, <4>1 DEF Record
      <4> QED
        BY <3>1, <4>2 DEF MemberSound, Unclaimed
    <3>4. pc[o] = "handled" => Settled(Record(o))'
      BY <1>1, <3>1, <3>2 DEF MemberSound, Settled
    <3>5. pc[o] # "idle" /\ o \notin fenced' => o = owner /\ pos[o] = offset' + 1
      BY <1>1, <1>4, <3>1 DEF MemberSound
    <3> QED
      BY <1>1, <3>1, <3>2, <3>3, <3>4, <3>5 DEF MemberSound
  <2> QED
    BY <2>1, <2>2
<1>9. EffectsFollowLedger'
  BY <1>1 DEF IInv, EffectsFollowLedger
<1> QED
  BY <1>5, <1>6, <1>7, <1>8, <1>9 DEF IInv, MembersSound

\* Whoever is at work when the partition moves is fenced.
LEMMA RebalanceKeeps ==
  ASSUME IInv, NEW m \in Member, Rebalance(m)
  PROVE  IInv'
<1>1. /\ UNCHANGED <<published, incomplete, queued, acks, log, dlt, offset, pc, pos, retries, ledger, effects>>
      /\ owner' = m
      /\ fenced' = fenced \cup {o \in Member : pc[o] # "idle"}
  BY DEF Rebalance, outbox, database
<1>2. TypeOK'
  BY <1>1 DEF IInv, TypeOK
<1>3. OnlyPublished' /\ Recorded' /\ OffsetSound' /\ EffectsFollowLedger'
  BY <1>1 DEF IInv, OnlyPublished, Recorded, InLog, OffsetSound, Settled, EffectsFollowLedger
<1>4. ASSUME NEW o \in Member  PROVE MemberSound(o)'
  <2>1. MemberSound(o)
    BY DEF IInv, MembersSound
  <2> QED
    BY <1>1, <2>1 DEF MemberSound, Record, Unclaimed, Settled
<1> QED
  BY <1>2, <1>3, <1>4 DEF IInv, MembersSound

LEMMA StutterKeeps ==
  ASSUME IInv, UNCHANGED vars
  PROVE  IInv'
<1>1. UNCHANGED <<published, incomplete, queued, acks, log, dlt, offset, owner, fenced,
                  pc, pos, retries, ledger, effects>>
  BY DEF vars, outbox, members, database
<1>2. TypeOK' /\ OnlyPublished' /\ Recorded' /\ OffsetSound' /\ EffectsFollowLedger'
  BY <1>1 DEF IInv, TypeOK, OnlyPublished, Recorded, InLog, OffsetSound, Settled, EffectsFollowLedger
<1>3. MembersSound'
  BY <1>1 DEF IInv, MembersSound, MemberSound, Record, Unclaimed, Settled
<1> QED
  BY <1>2, <1>3 DEF IInv

-----------------------------------------------------------------------------
(* The theorems. *)

\* The inductive invariant: the outbox, the log, the ledger and the members agree
\* after every step of every execution.
THEOREM Invariance == Spec => []IInv
<1>1. IInv /\ [Next]_vars => IInv'
  <2> SUFFICES ASSUME IInv, [Next]_vars  PROVE IInv'
    OBVIOUS
  <2>1. CASE Publish
    BY <2>1, PublishKeeps
  <2>2. CASE \E e \in Event : AppendRecord(e)
    BY <2>2, AppendKeeps
  <2>3. CASE (\E e \in Event : Complete(e) \/ GiveUp(e)) \/ \E n \in Event : Resubmit(n)
    BY <2>3, OutboxKeeps
  <2>4. CASE \E m \in Member : Work(m)
    BY <2>4, WorkingKeeps, CommitKeeps, DeadLetterKeeps, RestKeeps DEF Work
  <2>5. CASE \E m \in Member : Crash(m) \/ Rebalance(m)
    BY <2>5, RestKeeps, RebalanceKeeps
  <2>6. CASE UNCHANGED vars
    BY <2>6, StutterKeeps
  <2> QED
    BY <2>1, <2>2, <2>3, <2>4, <2>5, <2>6 DEF Next
<1> QED
  BY <1>1, Initially, PTL DEF Spec

\* Every variable has its type.
THEOREM TypeCorrect == Spec => []TypeOK
<1>1. IInv => TypeOK
  BY DEF IInv
<1> QED
  BY <1>1, Invariance, PTL

\* Claim and effect are one transaction (ProcessedEventLedger:15-24): an event takes
\* effect at most once, and exactly if it is in the ledger.
THEOREM EffectsFollowLedgerAlways == Spec => []EffectsFollowLedger
<1>1. IInv => EffectsFollowLedger
  BY DEF IInv
<1> QED
  BY <1>1, Invariance, PTL

\* A published event is in the outbox, ahead of the group in the log, or settled:
\* a publication is completed for a record there is, and the group has settled
\* every record up to its offset.
THEOREM NothingLostAlways == Spec => []NothingLost
<1>1. IInv => NothingLost
  <2> SUFFICES ASSUME IInv, NEW e \in 1..published, e \notin incomplete
               PROVE  Ahead(e) \/ Settled(e)
    BY DEF NothingLost
  <2>1. PICK k \in 1..Len(log) : log[k] = e
    BY DEF IInv, Recorded, InLog
  <2>2. offset \in Nat /\ Len(log) \in Nat
    BY DEF IInv, TypeOK
  <2>3. CASE k \in 1..offset
    BY <2>1, <2>3 DEF IInv, OffsetSound
  <2>4. CASE k \in (offset + 1)..Len(log)
    BY <2>1, <2>4 DEF Ahead
  <2> QED
    BY <2>2, <2>3, <2>4
<1> QED
  BY <1>1, Invariance, PTL

\* The pipeline keeps EffectOnce's promise: every step is a step of EffectOnce's, or
\* one it does not see.
THEOREM Refinement == Spec => ImplementsEffectOnce
<1>1. Init => Once!Init
  BY DEF Init, Once!Init
<1>2. IInv /\ [Next]_vars => [Once!Next]_(Once!vars)
  <2> SUFFICES ASSUME IInv, [Next]_vars  PROVE [Once!Next]_(Once!vars)
    OBVIOUS
  <2>1. CASE Publish
    <3>1. /\ published + 1 \in Event /\ published' = published + 1 /\ published \in Nat
          /\ UNCHANGED <<effects, dlt>>
      BY <2>1 DEF Publish, database, IInv, TypeOK
    <3>2. Once!Publish(published + 1)
      BY <3>1 DEF Once!Publish
    <3> QED
      BY <3>1, <3>2 DEF Once!Next
  <2>2. CASE \E m \in Member : CommitEffect(m)
    <3>1. PICK m \in Member : CommitEffect(m)
      BY <2>2
    <3>2. Record(m) \in 1..published /\ effects[Record(m)] = 0 /\ Record(m) \in Event
      <4>1. 1..published \subseteq Event
        BY DEF IInv, TypeOK, Event
      <4> QED
        BY <3>1, <4>1, CommitKeeps
    <3>3. Once!TakeEffect(Record(m))
      <4>1. effects' = [effects EXCEPT ![Record(m)] = 1] /\ UNCHANGED <<published, dlt>>
        <5>1. effects \in [Event -> Nat]
          BY DEF IInv, TypeOK
        <5> QED
          BY <3>1, <3>2, <5>1 DEF CommitEffect, Plus, outbox
      <4> QED
        BY <3>2, <4>1 DEF Once!TakeEffect
    <3> QED
      BY <3>2, <3>3 DEF Once!Next
  <2>3. CASE \E m \in Member : DeadLetter(m)
    <3>1. PICK m \in Member : DeadLetter(m)
      BY <2>3
    <3>2. Record(m) \in 1..published /\ Record(m) \in Event
      <4>1. 1..published \subseteq Event
        BY DEF IInv, TypeOK, Event
      <4> QED
        BY <3>1, <4>1, DeadLetterKeeps
    <3>3. Once!SetAside(Record(m))
      BY <3>1, <3>2 DEF DeadLetter, Once!SetAside, outbox, database
    <3> QED
      BY <3>2, <3>3 DEF Once!Next
  <2>4. ASSUME UNCHANGED <<published, effects, dlt>>
        PROVE  [Once!Next]_(Once!vars)
    BY <2>4 DEF Once!vars
  <2>5. CASE \E e \in Event : AppendRecord(e) \/ Complete(e) \/ GiveUp(e)
    BY <2>4, <2>5 DEF AppendRecord, Complete, GiveUp, database
  <2>6. CASE \E n \in Event : Resubmit(n)
    BY <2>4, <2>6 DEF Resubmit, database
  <2>7. CASE \E m \in Member : Crash(m) \/ Rebalance(m)
    BY <2>4, <2>7 DEF Crash, Rebalance, database, outbox
  <2>8. CASE \E m \in Member : \/ Poll(m) \/ Claim(m) \/ Skip(m) \/ Retry(m) \/ Exhaust(m)
                               \/ DeadLetterFails(m) \/ CommitOffset(m) \/ OffsetRefused(m)
    BY <2>4, <2>8 DEF Poll, Claim, Skip, Retry, Exhaust, DeadLetterFails, CommitOffset,
                      OffsetRefused, database, outbox
  <2>9. CASE UNCHANGED vars
    BY <2>4, <2>9 DEF vars, database, outbox
  <2> QED
    BY <2>1, <2>2, <2>3, <2>5, <2>6, <2>7, <2>8, <2>9 DEF Next, Work
<1> QED
  BY <1>1, <1>2, Invariance, PTL DEF Spec, ImplementsEffectOnce, Once!Spec
=============================================================================
