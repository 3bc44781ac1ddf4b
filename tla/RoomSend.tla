------------------------------ MODULE RoomSend ------------------------------
(***************************************************************************)
(* The send path of a chat room: MessageService.sendDraft and what it runs *)
(* on, MessagePersistence.persist, RedisDeduplicator, RedisSequenceCounter *)
(* and the two unique indexes of the messages table.                       *)
(*                                                                         *)
(* A worker is one request in progress on some replica (a STOMP or REST    *)
(* handler on its own virtual thread).  Every Redis command and every SQL  *)
(* statement outside a transaction is a step of its own, so any number of  *)
(* requests, retries of the same client id included, interleave between    *)
(* them; persist is one transaction and so one step.  A worker may die     *)
(* between any two steps (the replica is killed, the connection drops, a   *)
(* call throws), Redis may be unreachable for a while, and Redis may lose  *)
(* any key (eviction, TTL, a restart without persistence).                 *)
(*                                                                         *)
(* Left out: message bodies, file and location payloads, metrics; the room *)
(* membership row the last step writes (module RoomMembership); pins,      *)
(* reactions and edits, which change neither identity nor order.           *)
(***************************************************************************)
EXTENDS Integers, FiniteSets

CONSTANTS
  Room,       \* chat rooms
  User,       \* senders
  ClientId,   \* the idempotency keys clients generate (UUIDs)
  NoId,       \* a send without a client id
  Draft,      \* the messages clients may submit, each possibly many times
  Worker,     \* requests that can be in progress at once, on all replicas
  MaxSeq,     \* bound: highest sequence number Redis hands out
  MaxRows     \* bound: rows ever inserted

ASSUME RoomSendAssumption ==
  /\ NoId \notin ClientId
  /\ Draft \subseteq [user : User, room : Room, cid : ClientId \cup {NoId}]
  /\ MaxSeq \in Nat
  /\ MaxRows \in Nat

VARIABLES
  messages,   \* table messages: the live rows [id, seq, draft]
  history,    \* every row ever committed, and with it (same transaction) the
              \* MessageSent events recorded in event_publication
  readState,  \* table room_read_state: watermark per user and room
  seqKey,     \* Redis seq:<room>, or Absent
  dedupKey,   \* Redis dedup:<room>:<clientId>, a message id or NoRow
  redisUp,    \* whether Redis answers
  lost,       \* has Redis ever lost a sequence key
  pc,         \* where each worker stands in sendDraft
  draft,      \* the message a worker is sending
  found,      \* the message id a worker holds (from Redis, or its row), or NoRow
  num,        \* the persisted maximum a worker read, then the slot it was given
  answers     \* every answer [id, draft] a client was given

db     == <<messages, history, readState>>
redis  == <<seqKey, dedupKey, redisUp, lost>>
local  == <<draft, found, num>>
vars   == <<db, redis, pc, local, answers>>

Absent == -1
NoRow  == 0

Seqs == 0..MaxSeq
Ids  == 1..MaxRows
Row  == [id : Ids, seq : Seqs, draft : Draft]
Key  == Room \X ClientId

KeyOf(d) == <<d.room, d.cid>>

SameSend(d, e) == d.cid # NoId /\ d.room = e.room /\ d.cid = e.cid

PCs == {"idle", "received", "lookup", "byId", "byClientId", "max", "seed",
        "incr", "insert", "resolve", "mark", "answer"}

TypeOK ==
  /\ messages \subseteq Row
  /\ history \subseteq Row
  /\ readState \in [User \X Room -> Seqs]
  /\ seqKey \in [Room -> Seqs \cup {Absent}]
  /\ dedupKey \in [Key -> Ids \cup {NoRow}]
  /\ redisUp \in BOOLEAN
  /\ lost \in BOOLEAN
  /\ pc \in [Worker -> PCs]
  /\ draft \in [Worker -> Draft]
  /\ found \in [Worker -> Ids \cup {NoRow}]
  /\ num \in [Worker -> Seqs]
  /\ answers \subseteq [id : Ids \cup {NoRow}, draft : Draft]

Init ==
  /\ messages = {}
  /\ history = {}
  /\ readState = [ur \in User \X Room |-> 0]
  /\ seqKey = [r \in Room |-> Absent]
  /\ dedupKey = [k \in Key |-> NoRow]
  /\ redisUp = TRUE
  /\ lost = FALSE
  /\ pc = [w \in Worker |-> "idle"]
  /\ draft \in [Worker -> Draft]
  /\ found = [w \in Worker |-> NoRow]
  /\ num = [w \in Worker |-> 0]
  /\ answers = {}

-----------------------------------------------------------------------------
(* The database's rules. *)

\* UNIQUE (chatroom_id, sequence_number)
SlotTaken(r, n) == \E m \in messages : m.draft.room = r /\ m.seq = n

\* Faulty variant: no unique index on client ids.
ClientIdUnindexed(d) == FALSE

\* UNIQUE (chatroom_id, client_message_id) WHERE client_message_id IS NOT NULL
ClientIdTaken(d) == \E m \in messages : SameSend(m.draft, d)

\* REFERENCES messages(id): a draft that replies to a row deleted since is refused
ReplyTargetGone(r) == \E m \in history \ messages : m.draft.room = r

\* select coalesce(max(sequence_number), 0) ... where chatroom_id = r
IsPersistedMax(r, n) ==
  /\ \A m \in messages : m.draft.room = r => m.seq <= n
  /\ n = 0 \/ SlotTaken(r, n)

\* Faulty variant: the watermark overwritten.
Overwritten(old, new) == new

\* insert ... on conflict do update set last_read_sequence = greatest(...)
Greatest(old, new) == IF old < new THEN new ELSE old

-----------------------------------------------------------------------------
(* Workers. *)

Goto(w, from, to) ==
  /\ pc[w] = from
  /\ pc' = [pc EXCEPT ![w] = to]

\* The request ends and its worker is free again.
Release(w) ==
  /\ pc' = [pc EXCEPT ![w] = "idle"]
  /\ found' = [found EXCEPT ![w] = NoRow]
  /\ num' = [num EXCEPT ![w] = 0]
  /\ UNCHANGED draft

\* A request for d arrives: a first attempt, or a retry at any later time.
Receive(w, d) ==
  /\ Goto(w, "idle", "received")
  /\ draft' = [draft EXCEPT ![w] = d]
  /\ UNCHANGED <<db, redis, found, num, answers>>

\* assertAccess and the rate limiter let the request through.  Without a client
\* id there is nothing to look up.
Admit(w) ==
  /\ Goto(w, "received", IF draft[w].cid = NoId THEN "max" ELSE "lookup")
  /\ UNCHANGED <<db, redis, local, answers>>

\* dedup.lookup: GET, failing open when Redis does not answer.
Lookup(w) ==
  LET hit == IF redisUp THEN dedupKey[KeyOf(draft[w])] ELSE NoRow
  IN /\ Goto(w, "lookup", IF hit = NoRow THEN "byClientId" ELSE "byId")
     /\ found' = [found EXCEPT ![w] = hit]
     /\ UNCHANGED <<db, redis, draft, num, answers>>

\* messages.findById(id).filter(room): a cached id counts only if its row lives.
FindById(w) ==
  LET hit == \E m \in messages : m.id = found[w] /\ m.draft.room = draft[w].room
  IN /\ Goto(w, "byId", IF hit THEN "answer" ELSE "byClientId")
     /\ found' = [found EXCEPT ![w] = IF hit THEN @ ELSE NoRow]
     /\ UNCHANGED <<db, redis, draft, num, answers>>

\* findByChatroomIdAndClientMessageId, at "byClientId" before a slot is taken and
\* at "resolve" after the insert was refused.
FoundByClientId(w, from) ==
  /\ Goto(w, from, "answer")
  /\ \E m \in messages : /\ SameSend(m.draft, draft[w])
                         /\ found' = [found EXCEPT ![w] = m.id]
  /\ UNCHANGED <<db, redis, draft, num, answers>>

NotFoundByClientId(w) ==
  /\ Goto(w, "byClientId", "max")
  /\ ~ClientIdTaken(draft[w])
  /\ UNCHANGED <<db, redis, local, answers>>

\* persistedMax.getAsLong(), evaluated before the SET NX it is an argument of.
ReadMax(w) ==
  /\ Goto(w, "max", "seed")
  /\ \E n \in Seqs : /\ IsPersistedMax(draft[w].room, n)
                     /\ num' = [num EXCEPT ![w] = n]
  /\ UNCHANGED <<db, redis, draft, found, answers>>

\* Faulty variant: SET without NX.
SetAlways(r, n) == n

\* SET seq:<room> <max> NX
Seeded(r, n) == IF seqKey[r] = Absent THEN n ELSE seqKey[r]

Seed(w) ==
  /\ redisUp
  /\ Goto(w, "seed", "incr")
  /\ seqKey' = [seqKey EXCEPT ![draft[w].room] = Seeded(draft[w].room, num[w])]
  /\ num' = [num EXCEPT ![w] = 0]
  /\ UNCHANGED <<db, dedupKey, redisUp, lost, draft, found, answers>>

\* INCR seq:<room>; Redis counts a missing key as 0.
Incr(w) ==
  LET r == draft[w].room
      next == IF seqKey[r] = Absent THEN 1 ELSE seqKey[r] + 1
  IN /\ redisUp
     /\ next <= MaxSeq
     /\ Goto(w, "incr", "insert")
     /\ seqKey' = [seqKey EXCEPT ![r] = next]
     /\ num' = [num EXCEPT ![w] = next]
     /\ UNCHANGED <<db, dedupKey, redisUp, lost, draft, found, answers>>

\* persistence.persist commits: the row, the sender's watermark and the event.
Insert(w) ==
  LET d  == draft[w]
      at == <<d.user, d.room>>
  IN /\ Goto(w, "insert", "mark")
     /\ ~SlotTaken(d.room, num[w])
     /\ ~ClientIdTaken(d)
     /\ \E i \in Ids :
          /\ \A m \in history : m.id < i
          /\ \A j \in Ids : (\A m \in history : m.id < j) => i <= j
          /\ messages' = messages \cup {[id |-> i, seq |-> num[w], draft |-> d]}
          /\ history' = history \cup {[id |-> i, seq |-> num[w], draft |-> d]}
          /\ found' = [found EXCEPT ![w] = i]
     /\ readState' = [readState EXCEPT ![at] = Greatest(@, num[w])]
     /\ UNCHANGED <<redis, draft, num, answers>>

\* The transaction rolls back on an integrity violation.
InsertRefused(w) ==
  /\ Goto(w, "insert", "resolve")
  /\ \/ SlotTaken(draft[w].room, num[w])
     \/ ClientIdTaken(draft[w])
     \/ ReplyTargetGone(draft[w].room)
  /\ UNCHANGED <<db, redis, local, answers>>

\* dedup.mark: SET NX EX, skipped without a client id or without Redis.
Mark(w) ==
  LET k == KeyOf(draft[w])
  IN /\ Goto(w, "mark", "answer")
     /\ dedupKey' = IF redisUp /\ k \in Key /\ dedupKey[k] = NoRow
                      THEN [dedupKey EXCEPT ![k] = found[w]]
                      ELSE dedupKey
     /\ UNCHANGED <<db, seqKey, redisUp, lost, local, answers>>

\* The answer (a STOMP ack, or the REST body) reaches the client.
Answer(w) ==
  /\ pc[w] = "answer"
  /\ answers' = answers \cup {[id |-> found[w], draft |-> draft[w]]}
  /\ Release(w)
  /\ UNCHANGED <<db, redis>>

\* The request ends without telling the client an id: refused (access, rate
\* limit), 503 because Redis does not answer at "seed" or "incr", server_error
\* because nothing was found at "resolve" or ensureMembership threw, the answer
\* lost on the way, or the replica killed at any point.
Fail(w) ==
  /\ pc[w] # "idle"
  /\ Release(w)
  /\ UNCHANGED <<db, redis, answers>>

Work(w) ==
  \/ \E d \in Draft : Receive(w, d)
  \/ Admit(w) \/ Lookup(w) \/ FindById(w)
  \/ FoundByClientId(w, "byClientId") \/ FoundByClientId(w, "resolve")
  \/ NotFoundByClientId(w)
  \/ ReadMax(w) \/ Seed(w) \/ Incr(w)
  \/ Insert(w) \/ InsertRefused(w)
  \/ Mark(w) \/ Answer(w) \/ Fail(w)

-----------------------------------------------------------------------------
(* The environment. *)

\* delete (one row, by its author) or sweepExpired (all that have expired).
Remove ==
  /\ \E gone \in (SUBSET messages) \ {{}} : messages' = messages \ gone
  /\ UNCHANGED <<history, readState, redis, pc, local, answers>>

\* Redis evicts or expires seq:<r> (30 days), or restarts without it.
LoseSeqKey(r) ==
  /\ seqKey[r] # Absent
  /\ seqKey' = [seqKey EXCEPT ![r] = Absent]
  /\ lost' = TRUE
  /\ UNCHANGED <<db, dedupKey, redisUp, pc, local, answers>>

\* A dedup entry expires (600 s), is evicted, or is lost in a restart.
LoseDedupKey(k) ==
  /\ dedupKey[k] # NoRow
  /\ dedupKey' = [dedupKey EXCEPT ![k] = NoRow]
  /\ UNCHANGED <<db, seqKey, redisUp, lost, pc, local, answers>>

\* Redis stops answering, or answers again.
RedisToggles ==
  /\ redisUp' = ~redisUp
  /\ UNCHANGED <<db, seqKey, dedupKey, lost, pc, local, answers>>

Next ==
  \/ \E w \in Worker : Work(w)
  \/ Remove
  \/ \E r \in Room : LoseSeqKey(r)
  \/ \E k \in Key : LoseDedupKey(k)
  \/ RedisToggles

Spec == Init /\ [][Next]_vars

-----------------------------------------------------------------------------
(* Properties. *)

SameRoom(m, n) == m.draft.room = n.draft.room

\* The two backstops (V1__init:132-136, V5): among the live rows of a room no
\* slot and no client id occurs twice, whatever the Redis layer above got wrong.
UniqueRows ==
  \A m, n \in messages :
    m # n => /\ SameRoom(m, n) => m.seq # n.seq
             /\ ~SameSend(m.draft, n.draft)

\* A retry is told the original row (MessageService:59-61): two answers for the
\* same send that name different rows can only be a row and its successor, the
\* first having been deleted, so at most one of the two rows is still there.
AnswersAgree ==
  \A a, b \in answers :
    SameSend(a.draft, b.draft) /\ a.id # b.id
      => ~ \E m, n \in messages : m.id = a.id /\ n.id = b.id

\* SET NX then INCR hands every slot out once (RedisSequenceCounter:16-24): as
\* long as Redis never lost a sequence key, no two rows ever had the same slot,
\* no two requests hold the same slot and none holds a slot a row has had,
\* however seeders, retries and outages interleave.
Holds(w, r, n) == pc[w] = "insert" /\ draft[w].room = r /\ num[w] = n
Used(r, n)     == \E m \in history : m.draft.room = r /\ m.seq = n

HistorySlotsUnique ==
  \A m, n \in history : m # n /\ SameRoom(m, n) => m.seq # n.seq

HeldSlotsUnique ==
  \A r \in Room, n \in Seqs, w \in Worker : Holds(w, r, n) =>
    ~Used(r, n) /\ \A v \in Worker \ {w} : ~Holds(v, r, n)

SlotsUniqueUntilLoss == ~lost => HistorySlotsUnique /\ HeldSlotsUnique

\* room_read_state is advance-only (ChatroomRepositories:146): inserts of one
\* sender that commit out of slot order never move the watermark back.
ReadStateAdvances ==
  [][\A ur \in User \X Room : readState'[ur] >= readState[ur]]_readState

\* RoomSend implements the idempotent log: the rows without their slots.
Entry(m) == [id |-> m.id, draft |-> m.draft]
Log == INSTANCE IdempotentLog WITH
         Id       <- Ids,
         live     <- {Entry(m) : m \in messages},
         accepted <- {Entry(m) : m \in history}

ImplementsIdempotentLog == Log!Spec

-----------------------------------------------------------------------------
(* The inductive invariant behind the safety properties. *)

\* Live rows were committed, and ids are never reused.
HistorySound ==
  /\ messages \subseteq history
  /\ \A m, n \in history : m.id = n.id => m = n

\* The row with this id is what a sender of d may be answered.
OriginalOf(i, d) ==
  \E m \in history : m.id = i /\ (m.draft = d \/ SameSend(m.draft, d))

\* A dedup entry names a committed row of its own room and client id.
DedupSound ==
  \A k \in Key : dedupKey[k] # NoRow =>
    \E m \in history : m.id = dedupKey[k] /\ KeyOf(m.draft) = k

\* So does the id a worker took from Redis; the id it will answer is right.
FoundSound ==
  \A w \in Worker :
    pc[w] \in {"byId", "mark", "answer"} => OriginalOf(found[w], draft[w])

\* Only a send with a client id is looked up in Redis.
LookupKeyed ==
  \A w \in Worker : pc[w] = "lookup" => draft[w].cid # NoId

AnswersSound == \A a \in answers : OriginalOf(a.id, a.draft)

\* Until a key is lost the counter is at or above every slot in use, and it is
\* there from the moment a worker has seeded it.
CounterCovers ==
  ~lost =>
    /\ \A m \in history : m.seq <= seqKey[m.draft.room]
    /\ \A w \in Worker :
         /\ pc[w] = "incr" => seqKey[draft[w].room] # Absent
         /\ pc[w] = "insert" => num[w] <= seqKey[draft[w].room]

IInv ==
  /\ TypeOK
  /\ LookupKeyed
  /\ HistorySound
  /\ DedupSound
  /\ FoundSound
  /\ AnswersSound
  /\ UniqueRows
  /\ CounterCovers
  /\ SlotsUniqueUntilLoss
=============================================================================
