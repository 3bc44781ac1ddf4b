--------------------------- MODULE RoomSendProofs ---------------------------
(***************************************************************************)
(* Proofs about RoomSend for every set of rooms, users, client ids, drafts *)
(* and workers and every bound: its types, the inductive invariant IInv,   *)
(* the safety properties it implies, and that RoomSend implements          *)
(* IdempotentLog.                                                          *)
(***************************************************************************)
EXTENDS RoomSend, TLAPS

\* What the assumptions say of a draft: its room and user exist, and with a
\* client id it has a dedup key.
LEMMA DraftFields ==
  ASSUME NEW d \in Draft
  PROVE  /\ d.room \in Room /\ d.user \in User
         /\ d.cid \in ClientId \cup {NoId}
         /\ d.cid # NoId => KeyOf(d) \in Key
  BY RoomSendAssumption DEF Key, KeyOf

\* The initial state is well typed.
LEMMA TypeInit == Init => TypeOK /\ LookupKeyed
<1> SUFFICES ASSUME Init PROVE TypeOK /\ LookupKeyed
  OBVIOUS
<1> USE RoomSendAssumption DEF Init
<1>1. readState \in [User \X Room -> Seqs]
  BY DEF Seqs
<1>2. seqKey \in [Room -> Seqs \cup {Absent}]
  OBVIOUS
<1>3. dedupKey \in [Key -> Ids \cup {NoRow}]
  OBVIOUS
<1>4. pc \in [Worker -> PCs] /\ found \in [Worker -> Ids \cup {NoRow}]
  BY DEF PCs
<1>5. num \in [Worker -> Seqs]
  BY DEF Seqs
<1>6. LookupKeyed
  BY DEF LookupKeyed
<1> QED
  BY <1>1, <1>2, <1>3, <1>4, <1>5, <1>6 DEF TypeOK

\* Every step of a worker or of the environment keeps the types.
LEMMA TypeNext ==
  ASSUME TypeOK, LookupKeyed, [Next]_vars
  PROVE  TypeOK' /\ LookupKeyed'
<1> USE RoomSendAssumption DEF TypeOK, LookupKeyed
<1>1. ASSUME NEW w \in Worker, Work(w) PROVE TypeOK' /\ LookupKeyed'
  <2> draft[w] \in Draft /\ draft[w].room \in Room
    BY DraftFields
  <2> USE DEF PCs, db, redis, local
  <2>1. ASSUME NEW d \in Draft, Receive(w, d) PROVE TypeOK' /\ LookupKeyed'
    BY <2>1 DEF Receive, Goto
  <2>2. CASE Admit(w)
    BY <2>2 DEF Admit, Goto
  <2>3. CASE Lookup(w)
    <3>1. KeyOf(draft[w]) \in Key
      BY <2>3, DraftFields DEF Lookup, Goto
    <3>2. QED
      BY <2>3, <3>1 DEF Lookup, Goto
  <2>4. CASE FindById(w)
    BY <2>4 DEF FindById, Goto
  <2>5. CASE FoundByClientId(w, "byClientId") \/ FoundByClientId(w, "resolve")
    BY <2>5 DEF FoundByClientId, Goto, Row
  <2>6. CASE NotFoundByClientId(w)
    BY <2>6 DEF NotFoundByClientId, Goto
  <2>7. CASE ReadMax(w)
    BY <2>7 DEF ReadMax, Goto
  <2>8. CASE Seed(w)
    BY <2>8 DEF Seed, Goto, Seeded, Seqs
  <2>9. CASE Incr(w)
    BY <2>9 DEF Incr, Goto, Seqs, Absent
  <2>10. CASE Insert(w)
    BY <2>10 DEF Insert, Goto, Row, Greatest
  <2>11. CASE InsertRefused(w)
    BY <2>11 DEF InsertRefused, Goto
  <2>12. CASE Mark(w)
    BY <2>12 DEF Mark, Goto
  <2>13. CASE Answer(w)
    BY <2>13 DEF Answer, Release, Seqs
  <2>14. CASE Fail(w)
    BY <2>14 DEF Fail, Release, Seqs
  <2> QED
    BY <1>1, <2>1, <2>2, <2>3, <2>4, <2>5, <2>6, <2>7, <2>8, <2>9, <2>10,
       <2>11, <2>12, <2>13, <2>14 DEF Work
<1>2. CASE Remove
  BY <1>2 DEF Remove, redis, local
<1>3. ASSUME NEW r \in Room, LoseSeqKey(r) PROVE TypeOK' /\ LookupKeyed'
  BY <1>3 DEF LoseSeqKey, db, local
<1>4. ASSUME NEW k \in Key, LoseDedupKey(k) PROVE TypeOK' /\ LookupKeyed'
  BY <1>4 DEF LoseDedupKey, db, local
<1>5. CASE RedisToggles
  BY <1>5 DEF RedisToggles, db, local
<1>6. CASE UNCHANGED vars
  BY <1>6 DEF vars, db, redis, local
<1> QED
  BY <1>1, <1>2, <1>3, <1>4, <1>5, <1>6 DEF Next

\* The model is well typed: every row, key and worker register holds a value of
\* its kind in every reachable state, so no request reads a dedup key that its
\* draft does not have.
THEOREM TypeCorrect == Spec => [](TypeOK /\ LookupKeyed)
  BY TypeInit, TypeNext, PTL DEF Spec

-----------------------------------------------------------------------------
(* What a step may change. *)

Untouched(v) ==
  /\ pc'[v] = pc[v]
  /\ draft'[v] = draft[v]
  /\ found'[v] = found[v]
  /\ num'[v] = num[v]

\* A worker's step leaves every other worker's registers alone.
LEMMA WorkFrame ==
  ASSUME TypeOK, NEW w \in Worker, Work(w), NEW v \in Worker \ {w}
  PROVE  Untouched(v)
<1> USE DEF TypeOK, local, Goto, Release, Untouched
<1>1. ASSUME NEW d \in Draft, Receive(w, d) PROVE Untouched(v)
  BY <1>1 DEF Receive
<1>2. CASE Admit(w) \/ Lookup(w) \/ FindById(w) \/ NotFoundByClientId(w)
  BY <1>2 DEF Admit, Lookup, FindById, NotFoundByClientId
<1>3. CASE FoundByClientId(w, "byClientId") \/ FoundByClientId(w, "resolve")
  BY <1>3 DEF FoundByClientId
<1>4. CASE ReadMax(w) \/ Seed(w) \/ Incr(w)
  BY <1>4 DEF ReadMax, Seed, Incr
<1>5. CASE Insert(w) \/ InsertRefused(w) \/ Mark(w)
  BY <1>5 DEF Insert, InsertRefused, Mark
<1>6. CASE Answer(w) \/ Fail(w)
  BY <1>6 DEF Answer, Fail
<1> QED
  BY <1>1, <1>2, <1>3, <1>4, <1>5, <1>6 DEF Work

\* An insert adds one row under a fresh id.
InsertsRow(w, m) ==
  /\ m \in Row /\ m.draft = draft[w] /\ m.seq = num[w]
  /\ \A n \in history : n.id # m.id
  /\ messages' = messages \cup {m}
  /\ history' = history \cup {m}
  /\ found'[w] = m.id

LEMMA InsertRow ==
  ASSUME TypeOK, NEW w \in Worker, Insert(w)
  PROVE  \E m \in Row : InsertsRow(w, m)
<1>1. PICK i \in Ids :
        /\ \A m \in history : m.id < i
        /\ messages' = messages \cup {[id |-> i, seq |-> num[w], draft |-> draft[w]]}
        /\ history' = history \cup {[id |-> i, seq |-> num[w], draft |-> draft[w]]}
        /\ found' = [found EXCEPT ![w] = i]
  BY DEF Insert
<1> DEFINE m == [id |-> i, seq |-> num[w], draft |-> draft[w]]
<1>2. m \in Row
  BY DEF TypeOK, Row
<1>3. \A n \in history : n.id # m.id
  BY <1>1, RoomSendAssumption DEF TypeOK, Row, Ids
<1> QED
  BY <1>1, <1>2, <1>3 DEF InsertsRow, TypeOK

\* Nothing else adds a row, and nothing rewrites history.
LEMMA DbStep ==
  ASSUME TypeOK, [Next]_vars
  PROVE  \/ history' = history /\ messages' \subseteq messages
         \/ \E w \in Worker : Insert(w)
<1> USE DEF db
<1>1. ASSUME NEW w \in Worker, Work(w)
      PROVE UNCHANGED <<history, messages>> \/ Insert(w)
  BY <1>1 DEF Work, Receive, Admit, Lookup, FindById, FoundByClientId,
      NotFoundByClientId, ReadMax, Seed, Incr, InsertRefused, Mark, Answer, Fail
<1>2. CASE Remove
  BY <1>2 DEF Remove
<1>3. CASE RedisToggles \/ UNCHANGED vars
  BY <1>3 DEF RedisToggles, vars
<1>4. ASSUME NEW r \in Room, LoseSeqKey(r) PROVE UNCHANGED <<history, messages>>
  BY <1>4 DEF LoseSeqKey
<1>5. ASSUME NEW k \in Key, LoseDedupKey(k) PROVE UNCHANGED <<history, messages>>
  BY <1>5 DEF LoseDedupKey
<1> QED
  BY <1>1, <1>2, <1>3, <1>4, <1>5 DEF Next

\* So live rows stay committed rows and ids stay unique; and history only grows.
LEMMA HistoryNext ==
  ASSUME TypeOK, HistorySound, [Next]_vars
  PROVE  HistorySound' /\ history \subseteq history'
<1>1. CASE history' = history /\ messages' \subseteq messages
  BY <1>1 DEF HistorySound
<1>2. ASSUME NEW w \in Worker, Insert(w)
      PROVE HistorySound' /\ history \subseteq history'
  <2> PICK m \in Row : InsertsRow(w, m)
    BY <1>2, InsertRow
  <2> QED
    BY DEF InsertsRow, HistorySound
<1> QED
  BY <1>1, <1>2, DbStep

-----------------------------------------------------------------------------
(* The unique indexes. *)

\* Only an insert adds a row, and it is refused when the row would clash.
LEMMA UniqueNext ==
  ASSUME TypeOK, UniqueRows, [Next]_vars
  PROVE  UniqueRows'
<1>1. CASE history' = history /\ messages' \subseteq messages
  BY <1>1 DEF UniqueRows, SameRoom, SameSend
<1>2. ASSUME NEW w \in Worker, Insert(w) PROVE UniqueRows'
  <2> PICK m \in Row : InsertsRow(w, m)
    BY <1>2, InsertRow
  <2>1. \A n \in messages : ~(n.draft.room = m.draft.room /\ n.seq = m.seq)
    BY <1>2 DEF Insert, SlotTaken, InsertsRow
  <2>2. \A n \in messages : ~SameSend(n.draft, m.draft) /\ ~SameSend(m.draft, n.draft)
    BY <1>2 DEF Insert, ClientIdTaken, SameSend, InsertsRow
  <2> QED
    BY <2>1, <2>2 DEF UniqueRows, SameRoom, InsertsRow, SameSend
<1> QED
  BY <1>1, <1>2, DbStep

-----------------------------------------------------------------------------
(* What Redis, the workers and the clients were told is true. *)

TellsTruth == DedupSound /\ FoundSound /\ AnswersSound

\* A worker's step: only the row it just found, inserted or looked up is new.
LEMMA TruthWork ==
  ASSUME TypeOK, LookupKeyed, HistorySound, TellsTruth,
         history \subseteq history', NEW w \in Worker, Work(w)
  PROVE  TellsTruth'
<1> USE DEF TypeOK, TellsTruth, OriginalOf
<1>0. history \subseteq history' /\ draft[w] \in Draft
  OBVIOUS
<1>1. \A v \in Worker \ {w} :
        pc'[v] \in {"byId", "mark", "answer"} => OriginalOf(found[v], draft[v])'
  BY <1>0, WorkFrame DEF Untouched, FoundSound
<1>2. DedupSound' \/ Mark(w)
  <2>1. UNCHANGED dedupKey \/ Mark(w)
    BY DEF Work, redis, Receive, Admit, Lookup, FindById, FoundByClientId,
        NotFoundByClientId, ReadMax, Seed, Incr, Insert, InsertRefused, Answer, Fail
  <2> QED
    BY <2>1 DEF DedupSound
<1>3. AnswersSound' \/ Answer(w)
  <2>1. UNCHANGED answers \/ Answer(w)
    BY DEF Work, Receive, Admit, Lookup, FindById, FoundByClientId,
        NotFoundByClientId, ReadMax, Seed, Incr, Insert, InsertRefused, Mark, Fail
  <2> QED
    BY <2>1, <1>0 DEF AnswersSound
<1>4. ASSUME pc'[w] \notin {"byId", "mark", "answer"}, ~Answer(w) PROVE TellsTruth'
  <2>1. ~Mark(w)
    BY <1>4 DEF Mark, Goto
  <2> QED
    BY <1>1, <1>2, <1>3, <1>4, <2>1 DEF FoundSound
<1>5. ASSUME OriginalOf(found[w], draft[w])', ~Mark(w), ~Answer(w) PROVE TellsTruth'
  BY <1>1, <1>2, <1>3, <1>5 DEF FoundSound
<1>6. CASE Lookup(w)
  <2>1. CASE found'[w] = NoRow
    BY <1>6, <2>1, <1>4 DEF Lookup, Goto, Answer
  <2>2. CASE found'[w] # NoRow
    <3>1. /\ KeyOf(draft[w]) \in Key /\ draft[w].cid # NoId
          /\ found'[w] = dedupKey[KeyOf(draft[w])]
      BY <1>6, <2>2, DraftFields DEF Lookup, Goto, LookupKeyed
    <3>2. PICK m \in history : m.id = found'[w] /\ KeyOf(m.draft) = KeyOf(draft[w])
      BY <2>2, <3>1 DEF DedupSound
    <3>3. OriginalOf(found'[w], draft[w])
      BY <3>1, <3>2 DEF OriginalOf, SameSend, KeyOf
    <3> QED
      BY <1>0, <1>5, <1>6, <3>3 DEF Lookup, Mark, Answer, Goto
  <2> QED
    BY <2>1, <2>2
<1>7. CASE FindById(w)
  <2>1. OriginalOf(found[w], draft[w])
    BY <1>7 DEF FindById, Goto, FoundSound
  <2>2. CASE pc'[w] = "answer"
    BY <1>0, <1>5, <1>7, <2>1, <2>2 DEF FindById, Goto, Mark, Answer
  <2>3. CASE pc'[w] # "answer"
    BY <1>4, <1>7, <2>3 DEF FindById, Goto, Answer
  <2> QED
    BY <2>2, <2>3
<1>8. ASSUME NEW from, from \in {"byClientId", "resolve"}, FoundByClientId(w, from)
      PROVE TellsTruth'
  <2> PICK m \in messages : SameSend(m.draft, draft[w]) /\ found' = [found EXCEPT ![w] = m.id]
    BY <1>8 DEF FoundByClientId
  <2>1. OriginalOf(found'[w], draft[w])
    BY DEF OriginalOf, HistorySound
  <2> QED
    BY <1>0, <1>5, <1>8, <2>1 DEF FoundByClientId, Goto, Mark, Answer
<1>9. CASE Insert(w)
  <2> PICK m \in Row : InsertsRow(w, m)
    BY <1>9, InsertRow
  <2>1. OriginalOf(found[w], draft[w])'
    BY <1>9 DEF OriginalOf, InsertsRow, Insert
  <2> QED
    BY <1>5, <1>9, <2>1 DEF Insert, Goto, Mark, Answer
<1>10. CASE Mark(w)
  <2>1. OriginalOf(found[w], draft[w])
    BY <1>10 DEF Mark, Goto, FoundSound
  <2>2. FoundSound'
    BY <1>0, <1>1, <1>10, <2>1 DEF FoundSound, Mark, local
  <2>3. DedupSound'
    <3> PICK m \in history : /\ m.id = found[w]
                             /\ m.draft = draft[w] \/ SameSend(m.draft, draft[w])
      BY <2>1 DEF OriginalOf
    <3>1. KeyOf(m.draft) = KeyOf(draft[w])
      BY DEF KeyOf, SameSend
    <3> QED
      BY <1>10, <3>1 DEF DedupSound, Mark, db
  <2>4. AnswersSound'
    BY <1>3, <1>10 DEF Mark, Answer, Goto
  <2> QED
    BY <2>2, <2>3, <2>4
<1>11. CASE Answer(w)
  <2>1. OriginalOf(found[w], draft[w])
    BY <1>11 DEF Answer, FoundSound
  <2>2. AnswersSound'
    BY <1>0, <1>11, <2>1 DEF Answer, AnswersSound
  <2>3. FoundSound'
    BY <1>1, <1>11 DEF FoundSound, Answer, Release
  <2>4. DedupSound'
    BY <1>2, <1>11 DEF Mark, Answer, Goto
  <2> QED
    BY <2>2, <2>3, <2>4
<1>12. ASSUME NEW d \in Draft, Receive(w, d) PROVE TellsTruth'
  BY <1>4, <1>12 DEF Receive, Goto, Answer
<1>13. CASE Admit(w) \/ NotFoundByClientId(w) \/ ReadMax(w)
  BY <1>4, <1>13 DEF Admit, NotFoundByClientId, ReadMax, Goto, Answer
<1>14. CASE Seed(w) \/ Incr(w) \/ InsertRefused(w)
  BY <1>4, <1>14 DEF Seed, Incr, InsertRefused, Goto, Answer
<1>15. CASE Fail(w)
  <2>1. UNCHANGED <<db, redis, answers>> /\ pc'[w] = "idle"
    BY <1>15 DEF Fail, Release
  <2> QED
    BY <1>1, <2>1 DEF FoundSound, DedupSound, AnswersSound, OriginalOf, db, redis
<1> QED
  BY <1>6, <1>7, <1>8, <1>9, <1>10, <1>11, <1>12, <1>13, <1>14, <1>15 DEF Work

\* The environment only forgets: it removes live rows and Redis keys.
LEMMA TruthNext ==
  ASSUME TypeOK, LookupKeyed, HistorySound, TellsTruth, [Next]_vars
  PROVE  TellsTruth'
<1>1. history \subseteq history'
  BY HistoryNext
<1>2. ASSUME NEW w \in Worker, Work(w) PROVE TellsTruth'
  BY <1>1, <1>2, TruthWork
<1> USE <1>1 DEF TellsTruth, DedupSound, FoundSound, AnswersSound, OriginalOf
<1>4. CASE Remove
  BY <1>4 DEF Remove, redis, local
<1>5. ASSUME NEW r \in Room, LoseSeqKey(r) PROVE TellsTruth'
  BY <1>5 DEF LoseSeqKey, db, local
<1>6. ASSUME NEW k \in Key, LoseDedupKey(k) PROVE TellsTruth'
  BY <1>6 DEF LoseDedupKey, db, local, TypeOK
<1>7. CASE RedisToggles
  BY <1>7 DEF RedisToggles, db, local
<1>8. CASE UNCHANGED vars
  BY <1>8 DEF vars, db, redis, local
<1> QED
  BY <1>2, <1>4, <1>5, <1>6, <1>7, <1>8 DEF Next

-----------------------------------------------------------------------------
(* Sequence slots. *)

SlotsOK == CounterCovers /\ SlotsUniqueUntilLoss

\* While no sequence key was lost the counter only moves up: a late SET NX finds
\* the key there, and an INCR gives the one worker that issued it a slot above
\* all others.
LEMMA SlotsWork ==
  ASSUME TypeOK, SlotsOK, ~lost, NEW w \in Worker, Work(w)
  PROVE  ~lost' /\ SlotsOK'
<1> DEFINE r == draft[w].room
<1>0. /\ r \in Room /\ \A v \in Worker : draft[v].room \in Room
      /\ \A m \in history : m.draft.room \in Room /\ m.seq \in Int
      /\ seqKey \in [Room -> Int] /\ seqKey[r] \in Seqs \cup {Absent}
      /\ num \in [Worker -> Int] /\ num \in [Worker -> Seqs]
      /\ pc \in [Worker -> PCs]
  BY DraftFields, RoomSendAssumption DEF TypeOK, Row, Seqs, Absent
<1>1. \A v \in Worker \ {w} : Untouched(v)
  BY WorkFrame
<1>2. ASSUME UNCHANGED <<lost, history, seqKey>>, pc'[w] \notin {"incr", "insert"}
      PROVE ~lost' /\ SlotsOK'
  <2>1. \A v \in Worker : pc'[v] \in {"incr", "insert"} => v # w /\ Untouched(v)
    BY <1>1, <1>2
  <2>2. CounterCovers'
    BY <1>2, <2>1 DEF SlotsOK, CounterCovers, Untouched
  <2>3. \A v \in Worker, q \in Room, n \in Seqs : Holds(v, q, n)' => Holds(v, q, n)
    BY <2>1 DEF Holds, Untouched
  <2>4. SlotsUniqueUntilLoss'
    BY <1>2, <2>3 DEF SlotsOK, SlotsUniqueUntilLoss, HistorySlotsUnique,
       HeldSlotsUnique, Used, SameRoom
  <2> QED
    BY <1>2, <2>2, <2>4 DEF SlotsOK
<1>3. CASE Seed(w)
  <2>1. /\ ~lost' /\ history' = history /\ pc'[w] = "incr" /\ draft' = draft
        /\ seqKey' = [seqKey EXCEPT ![r] = Seeded(r, num[w])]
    BY <1>0, <1>3 DEF Seed, Goto, db
  <2>2. /\ Seeded(r, num[w]) \in Int /\ Seeded(r, num[w]) # Absent
        /\ Seeded(r, num[w]) >= seqKey[r]
    BY <1>0, RoomSendAssumption DEF Seeded, Absent, Seqs
  <2>3. \A q \in Room : /\ seqKey'[q] \in Int /\ seqKey'[q] >= seqKey[q]
                        /\ seqKey[q] # Absent => seqKey'[q] # Absent
    <3> TAKE q \in Room
    <3>1. CASE q = r
      BY <1>0, <2>1, <2>2, <3>1
    <3>2. CASE q # r
      <4>1. seqKey'[q] = seqKey[q]
        BY <1>0, <2>1, <3>2
      <4> QED
        BY <1>0, <4>1
    <3> QED
      BY <3>1, <3>2
  <2>4. \A v \in Worker, q \in Room, n \in Seqs :
          Holds(v, q, n)' => Holds(v, q, n)
    BY <1>1, <2>1 DEF Holds, Untouched
  <2>5. CounterCovers'
    <3>1. \A m \in history : m.seq <= seqKey'[m.draft.room]
      BY <1>0, <2>3 DEF SlotsOK, CounterCovers
    <3>2. seqKey'[r] # Absent
      BY <1>0, <2>1, <2>2
    <3>3. \A v \in Worker \ {w} :
            /\ pc'[v] = "incr" => seqKey'[draft'[v].room] # Absent
            /\ pc'[v] = "insert" => num'[v] <= seqKey'[draft'[v].room]
      <4> TAKE v \in Worker \ {w}
      <4>1. Untouched(v) /\ draft[v].room \in Room /\ num[v] \in Int
        BY <1>0, <1>1
      <4>2. /\ pc[v] = "incr" => seqKey[draft[v].room] # Absent
            /\ pc[v] = "insert" => num[v] <= seqKey[draft[v].room]
        BY DEF SlotsOK, CounterCovers
      <4> QED
        BY <1>0, <2>3, <4>1, <4>2 DEF Untouched
    <3> QED
      BY <2>1, <3>1, <3>2, <3>3 DEF CounterCovers
  <2>6. SlotsUniqueUntilLoss'
    BY <2>1, <2>4 DEF SlotsOK, SlotsUniqueUntilLoss, HistorySlotsUnique,
       HeldSlotsUnique, Used, SameRoom
  <2> QED
    BY <2>1, <2>5, <2>6 DEF SlotsOK
<1>4. CASE Incr(w)
  <2>1. /\ ~lost' /\ history' = history /\ pc'[w] = "insert" /\ draft' = draft
        /\ seqKey[r] # Absent
        /\ seqKey' = [seqKey EXCEPT ![r] = seqKey[r] + 1]
        /\ num'[w] = seqKey[r] + 1
    BY <1>0, <1>4 DEF Incr, Goto, db, SlotsOK, CounterCovers
  <2>2. \A q \in Room : /\ seqKey'[q] \in Int /\ seqKey'[q] >= seqKey[q]
                        /\ seqKey[q] # Absent => seqKey'[q] # Absent
    <3> TAKE q \in Room
    <3>1. CASE q = r
      BY <1>0, <2>1, <3>1 DEF Absent, Seqs
    <3>2. CASE q # r
      <4>1. seqKey'[q] = seqKey[q]
        BY <1>0, <2>1, <3>2
      <4> QED
        BY <1>0, <4>1
    <3> QED
      BY <3>1, <3>2
  <2>3. \A v \in Worker \ {w}, q \in Room, n \in Seqs :
          Holds(v, q, n)' => Holds(v, q, n) /\ n <= seqKey[q]
    BY <1>1, <2>1 DEF Holds, Untouched, SlotsOK, CounterCovers
  <2>4. \A q \in Room, n \in Seqs : Holds(w, q, n)' => q = r /\ n = seqKey[r] + 1
    BY <2>1 DEF Holds
  <2>5. \A n \in Seqs : Used(r, n) => n <= seqKey[r]
    BY DEF Used, SlotsOK, CounterCovers
  <2>6. CounterCovers'
    <3>1. \A m \in history : m.seq <= seqKey'[m.draft.room]
      BY <1>0, <2>2 DEF SlotsOK, CounterCovers
    <3>2. num'[w] <= seqKey'[r]
      BY <1>0, <2>1
    <3>3. \A v \in Worker \ {w} :
            /\ pc'[v] = "incr" => seqKey'[draft'[v].room] # Absent
            /\ pc'[v] = "insert" => num'[v] <= seqKey'[draft'[v].room]
      <4> TAKE v \in Worker \ {w}
      <4>1. Untouched(v) /\ draft[v].room \in Room /\ num[v] \in Int
        BY <1>0, <1>1
      <4>2. /\ pc[v] = "incr" => seqKey[draft[v].room] # Absent
            /\ pc[v] = "insert" => num[v] <= seqKey[draft[v].room]
        BY DEF SlotsOK, CounterCovers
      <4> QED
        BY <1>0, <2>2, <4>1, <4>2 DEF Untouched
    <3> QED
      BY <2>1, <3>1, <3>2, <3>3 DEF CounterCovers
  <2>7. HistorySlotsUnique'
    BY <2>1 DEF SlotsOK, SlotsUniqueUntilLoss, HistorySlotsUnique, SameRoom
  <2>8. HeldSlotsUnique'
    <3> SUFFICES ASSUME NEW q \in Room, NEW n \in Seqs, NEW v \in Worker, Holds(v, q, n)'
                 PROVE  ~Used(q, n)' /\ \A u \in Worker \ {v} : ~Holds(u, q, n)'
      BY DEF HeldSlotsUnique
    <3>1. Used(q, n)' <=> Used(q, n)
      BY <2>1 DEF Used
    <3>2. CASE v = w
      BY <1>0, <2>3, <2>4, <2>5, <3>1, <3>2 DEF Seqs
    <3>3. CASE v # w
      <4>1. Holds(v, q, n) /\ n <= seqKey[q]
        BY <2>3, <3>3
      <4>2. ~Used(q, n) /\ \A u \in Worker \ {v, w} : ~Holds(u, q, n)'
        BY <2>3, <4>1 DEF SlotsOK, SlotsUniqueUntilLoss, HeldSlotsUnique
      <4>3. ~Holds(w, q, n)'
        BY <1>0, <2>4, <4>1 DEF Seqs
      <4> QED
        BY <3>1, <4>2, <4>3
    <3> QED
      BY <3>2, <3>3
  <2> QED
    BY <2>1, <2>6, <2>7, <2>8 DEF SlotsOK, SlotsUniqueUntilLoss
<1>5. CASE Insert(w)
  <2> PICK m \in Row : InsertsRow(w, m)
    BY <1>5, InsertRow
  <2>1. /\ ~lost' /\ pc[w] = "insert" /\ pc'[w] = "mark" /\ seqKey' = seqKey
        /\ draft' = draft /\ m.draft.room = r /\ m.seq = num[w] /\ num[w] \in Seqs
    BY <1>0, <1>5 DEF Insert, Goto, redis, InsertsRow
  <2>2. Holds(w, r, m.seq)
    BY <2>1 DEF Holds
  <2>3. \A v \in Worker, q \in Room, n \in Seqs :
          Holds(v, q, n)' => v # w /\ Holds(v, q, n)
    BY <1>1, <2>1 DEF Holds, Untouched
  <2>4. CounterCovers'
    BY <1>0, <1>1, <2>1, <2>2 DEF SlotsOK, CounterCovers, Untouched, InsertsRow
  <2>5. HistorySlotsUnique'
    BY <1>0, <2>1, <2>2 DEF SlotsOK, SlotsUniqueUntilLoss, HistorySlotsUnique,
       HeldSlotsUnique, SameRoom, Used, InsertsRow
  <2>6. HeldSlotsUnique'
    BY <1>0, <2>1, <2>2, <2>3 DEF SlotsOK, SlotsUniqueUntilLoss, HeldSlotsUnique,
       Used, InsertsRow
  <2> QED
    BY <2>1, <2>4, <2>5, <2>6 DEF SlotsOK, SlotsUniqueUntilLoss
<1>6. ASSUME NEW d \in Draft, Receive(w, d) PROVE ~lost' /\ SlotsOK'
  BY <1>0, <1>2, <1>6 DEF Receive, Goto, db, redis
<1>7. CASE Admit(w) \/ Lookup(w) \/ FindById(w)
  BY <1>0, <1>2, <1>7 DEF Admit, Lookup, FindById, Goto, db, redis
<1>8. CASE FoundByClientId(w, "byClientId") \/ FoundByClientId(w, "resolve")
  BY <1>0, <1>2, <1>8 DEF FoundByClientId, Goto, db, redis
<1>9. CASE NotFoundByClientId(w) \/ ReadMax(w) \/ InsertRefused(w)
  BY <1>0, <1>2, <1>9 DEF NotFoundByClientId, ReadMax, InsertRefused, Goto, db, redis
<1>10. CASE Mark(w)
  BY <1>0, <1>2, <1>10 DEF Mark, Goto, db
<1>11. CASE Answer(w) \/ Fail(w)
  BY <1>0, <1>2, <1>11 DEF Answer, Fail, Release, db, redis
<1> QED
  BY <1>3, <1>4, <1>5, <1>6, <1>7, <1>8, <1>9, <1>10, <1>11 DEF Work

\* Losing a key voids the promise; nothing else in the environment touches it.
LEMMA SlotsNext ==
  ASSUME TypeOK, SlotsOK, [Next]_vars
  PROVE  SlotsOK'
<1>1. CASE lost
  <2>1. lost'
    BY <1>1 DEF Next, Work, vars, redis, Receive, Admit, Lookup, FindById,
       FoundByClientId, NotFoundByClientId, ReadMax, Seed, Incr, Insert,
       InsertRefused, Mark, Answer, Fail, Remove, LoseSeqKey, LoseDedupKey,
       RedisToggles
  <2> QED
    BY <2>1 DEF SlotsOK, CounterCovers, SlotsUniqueUntilLoss
<1>2. CASE ~lost
  <2>1. ASSUME NEW w \in Worker, Work(w) PROVE SlotsOK'
    BY <1>2, <2>1, SlotsWork
  <2>2. ASSUME UNCHANGED <<lost, history, seqKey, pc, draft, num>> PROVE SlotsOK'
    BY <2>2 DEF SlotsOK, CounterCovers, SlotsUniqueUntilLoss, HistorySlotsUnique,
       HeldSlotsUnique, Holds, Used, SameRoom
  <2>3. CASE Remove \/ RedisToggles \/ UNCHANGED vars
    BY <2>2, <2>3 DEF Remove, RedisToggles, vars, db, redis, local
  <2>4. ASSUME NEW r \in Room, LoseSeqKey(r) PROVE SlotsOK'
    BY <2>4 DEF LoseSeqKey, SlotsOK, CounterCovers, SlotsUniqueUntilLoss
  <2>5. ASSUME NEW k \in Key, LoseDedupKey(k) PROVE SlotsOK'
    BY <2>2, <2>5 DEF LoseDedupKey, db, local
  <2> QED
    BY <2>1, <2>3, <2>4, <2>5 DEF Next
<1> QED
  BY <1>1, <1>2

-----------------------------------------------------------------------------
(* The inductive invariant and what follows from it. *)

LEMMA InvInit == Init => IInv
<1> SUFFICES ASSUME Init PROVE IInv
  OBVIOUS
<1>1. TypeOK /\ LookupKeyed
  BY TypeInit
<1>2. HistorySound /\ UniqueRows /\ AnswersSound /\ FoundSound /\ DedupSound
  BY DEF Init, HistorySound, UniqueRows, AnswersSound, FoundSound, DedupSound
<1>3. CounterCovers /\ SlotsUniqueUntilLoss
  BY DEF Init, CounterCovers, SlotsUniqueUntilLoss, HistorySlotsUnique,
     HeldSlotsUnique, Holds
<1> QED
  BY <1>1, <1>2, <1>3 DEF IInv

LEMMA InvNext == IInv /\ [Next]_vars => IInv'
<1> SUFFICES ASSUME IInv, [Next]_vars PROVE IInv'
  OBVIOUS
<1> USE DEF IInv, TellsTruth, SlotsOK
<1>1. TypeOK' /\ LookupKeyed'
  BY TypeNext
<1>2. HistorySound' /\ UniqueRows'
  BY HistoryNext, UniqueNext
<1>3. DedupSound' /\ FoundSound' /\ AnswersSound'
  BY TruthNext
<1>4. CounterCovers' /\ SlotsUniqueUntilLoss'
  BY SlotsNext
<1> QED
  BY <1>1, <1>2, <1>3, <1>4

\* IInv holds in every reachable state, for every value of the constants.
THEOREM Invariance == Spec => []IInv
  BY InvInit, InvNext, PTL DEF Spec

\* No slot and no client id occurs twice among the live rows of a room, whatever
\* Redis loses and however requests and retries interleave.
THEOREM UniqueRowsAlways == Spec => []UniqueRows
<1>1. IInv => UniqueRows
  BY DEF IInv
<1> QED
  BY <1>1, Invariance, PTL

\* Until Redis loses a sequence key no slot is handed out or used twice, although
\* the maximum is read from the database before, and not together with, SET NX.
THEOREM SlotsUniqueAlways == Spec => []SlotsUniqueUntilLoss
<1>1. IInv => SlotsUniqueUntilLoss
  BY DEF IInv
<1> QED
  BY <1>1, Invariance, PTL

\* Two answers for one send never name two rows that both live.
THEOREM AnswersAgreeAlways == Spec => []AnswersAgree
<1>1. IInv => AnswersAgree
  <2> SUFFICES ASSUME IInv, NEW a \in answers, NEW b \in answers,
                      SameSend(a.draft, b.draft), a.id # b.id,
                      NEW m \in messages, NEW n \in messages,
                      m.id = a.id, n.id = b.id
               PROVE  FALSE
    BY DEF AnswersAgree
  <2>1. m.draft = a.draft \/ SameSend(m.draft, a.draft)
    BY DEF IInv, AnswersSound, OriginalOf, HistorySound
  <2>2. n.draft = b.draft \/ SameSend(n.draft, b.draft)
    BY DEF IInv, AnswersSound, OriginalOf, HistorySound
  <2>3. SameSend(m.draft, n.draft)
    BY <2>1, <2>2 DEF SameSend
  <2> QED
    BY <2>3 DEF IInv, UniqueRows
<1> QED
  BY <1>1, Invariance, PTL

\* A sender's read watermark never moves back.
THEOREM ReadStateAdvancesAlways == Spec => ReadStateAdvances
<1>1. TypeOK /\ [Next]_vars
        => [\A ur \in User \X Room : readState'[ur] >= readState[ur]]_readState
  <2> SUFFICES ASSUME TypeOK, [Next]_vars, readState' # readState
               PROVE  \A ur \in User \X Room : readState'[ur] >= readState[ur]
    OBVIOUS
  <2>1. PICK w \in Worker : Insert(w)
    BY DEF Next, Work, vars, db, Receive, Admit, Lookup, FindById,
       FoundByClientId, NotFoundByClientId, ReadMax, Seed, Incr,
       InsertRefused, Mark, Answer, Fail, Remove, LoseSeqKey, LoseDedupKey,
       RedisToggles
  <2>2. readState \in [User \X Room -> Int] /\ num[w] \in Int
    BY RoomSendAssumption DEF TypeOK, Seqs
  <2>3. readState' = [readState EXCEPT ![<<draft[w].user, draft[w].room>>] =
                        Greatest(@, num[w])]
    BY <2>1 DEF Insert
  <2> QED
    BY <2>2, <2>3 DEF Greatest
<1> QED
  BY <1>1, TypeCorrect, PTL DEF Spec, ReadStateAdvances

-----------------------------------------------------------------------------
(* RoomSend implements IdempotentLog. *)

\* Accept is Insert, Retract is Remove, Answer is Answer; every other step of
\* the pipeline is invisible in the log.
THEOREM Refinement == Spec => ImplementsIdempotentLog
<1> DEFINE live     == {Entry(m) : m \in messages}
           accepted == {Entry(m) : m \in history}
<1>1. Init => Log!Init
  BY DEF Init, Log!Init
<1>2. IInv /\ [Next]_vars => [Log!Next]_(Log!vars)
  <2> SUFFICES ASSUME IInv, [Next]_vars PROVE [Log!Next]_(Log!vars)
    OBVIOUS
  <2>1. ASSUME UNCHANGED <<messages, history, answers>> PROVE UNCHANGED Log!vars
    BY <2>1 DEF Log!vars
  <2>2. ASSUME NEW w \in Worker, Work(w), ~Insert(w), ~Answer(w)
        PROVE UNCHANGED <<messages, history, answers>>
    BY <2>2 DEF Work, db, Receive, Admit, Lookup, FindById, FoundByClientId,
       NotFoundByClientId, ReadMax, Seed, Incr, InsertRefused, Mark, Fail
  <2>3. ASSUME NEW w \in Worker, Insert(w) PROVE Log!Next
    <3> PICK m \in Row : InsertsRow(w, m)
      BY <2>3, InsertRow DEF IInv
    <3>1. Entry(m) \in Log!Entry
      BY DEF Entry, Log!Entry, Row
    <3>2. /\ live' = live \cup {Entry(m)}
          /\ accepted' = accepted \cup {Entry(m)}
          /\ UNCHANGED answers
      BY <2>3 DEF InsertsRow, Insert
    <3>3. \A a \in accepted : a.id # Entry(m).id
      BY DEF InsertsRow, Entry
    <3>4. \A e \in live : ~Log!SameSend(e.draft, Entry(m).draft)
      BY <2>3 DEF Insert, ClientIdTaken, SameSend, Log!SameSend, InsertsRow, Entry
    <3>5. Log!Accept(Entry(m))
      BY <3>2, <3>3, <3>4 DEF Log!Accept
    <3> QED
      BY <3>1, <3>5 DEF Log!Next
  <2>4. ASSUME NEW w \in Worker, Answer(w) PROVE Log!Next
    <3>1. PICK m \in history : /\ m.id = found[w]
                               /\ m.draft = draft[w] \/ SameSend(m.draft, draft[w])
      BY <2>4 DEF Answer, IInv, FoundSound, OriginalOf
    <3>2. Log!Answer(draft[w], Entry(m))
      BY <2>4, <3>1 DEF Answer, db, Entry, SameSend, Log!Answer, Log!SameSend
    <3>3. draft[w] \in Draft
      BY DEF IInv, TypeOK
    <3> QED
      BY <3>1, <3>2, <3>3 DEF Log!Next
  <2>5. CASE Remove
    <3> DEFINE gone == live \ live'
    <3>1. messages' \subseteq messages /\ UNCHANGED <<history, answers>>
      BY <2>5 DEF Remove
    <3>2. live' = live \ gone /\ gone \in SUBSET live
      BY <3>1
    <3>3. Log!Retract(gone)
      BY <3>1, <3>2 DEF Log!Retract
    <3> QED
      BY <3>2, <3>3 DEF Log!Next
  <2>6. ASSUME NEW r \in Room, LoseSeqKey(r) PROVE UNCHANGED <<messages, history, answers>>
    BY <2>6 DEF LoseSeqKey, db
  <2>7. ASSUME NEW k \in Key, LoseDedupKey(k) PROVE UNCHANGED <<messages, history, answers>>
    BY <2>7 DEF LoseDedupKey, db
  <2>8. CASE RedisToggles \/ UNCHANGED vars
    BY <2>1, <2>8 DEF RedisToggles, vars, db
  <2> QED
    BY <2>1, <2>2, <2>3, <2>4, <2>5, <2>6, <2>7, <2>8 DEF Next
<1> QED
  BY <1>1, <1>2, Invariance, PTL DEF Spec, ImplementsIdempotentLog, Log!Spec
=============================================================================
