------------------------ MODULE ClientDeliveryProofs ------------------------
(***************************************************************************)
(* Theorems about ClientDelivery, for every number of messages, accounts,  *)
(* retries, faults and drains: a composed message is never silently lost   *)
(* and what its sender is told of it is so; and it is stored under the     *)
(* account that wrote it.                                                  *)
(***************************************************************************)
EXTENDS ClientDelivery, TLAPS

USE ClientDeliveryAssumption

-----------------------------------------------------------------------------
(* Types. *)

PageTyped ==
  /\ call \in [Msg -> {"none", "waiting", "backoff", "saving", "settled", "cut"}]
  /\ retries \in [Msg -> 0..MaxRetries]
  /\ orphan \subseteq Msg
  /\ registered \subseteq Msg
  /\ result \in [Msg -> {"none", "sent", "queued", "refused"}]

QueueTyped ==
  /\ outbox \subseteq Msg
  /\ reading \in 0..MaxDrains
  /\ listening \subseteq Msg
  /\ removing \subseteq Msg
  /\ flush \in [rows : SUBSET Msg, as : Account \cup {None}]

SessionTyped ==
  /\ user \in Account \cup {None}
  /\ owner \in Account \cup {None}
  /\ open \in BOOLEAN
  /\ up \in BOOLEAN
  /\ up => open /\ user # None

ServerTyped ==
  /\ log \in [Msg -> Account \cup {None}]
  /\ faults \in 0..MaxFaults

HistoryTyped ==
  /\ author \in [Msg -> Account \cup {None}]
  /\ gone \subseteq Msg
  /\ outlived \subseteq Msg

NetTyped == net \subseteq Frame

LEMMA TypeParts ==
  TypeOK <=> /\ PageTyped /\ QueueTyped /\ SessionTyped
             /\ ServerTyped /\ HistoryTyped /\ NetTyped
BY DEF TypeOK, PageTyped, QueueTyped, SessionTyped, ServerTyped, HistoryTyped, NetTyped

LEMMA TypePartsNext ==
  ASSUME PageTyped', QueueTyped', SessionTyped', ServerTyped', HistoryTyped', NetTyped'
  PROVE  TypeOK'
BY DEF TypeOK, PageTyped, QueueTyped, SessionTyped, ServerTyped, HistoryTyped, NetTyped

\* What the fields of a frame are.
LEMMA FrameFields ==
  ASSUME NEW f \in Frame
  PROVE  /\ f.kind \in {"send", "ack", "sync", "results"}
         /\ f.as \in Account
         /\ f.kind \in {"send", "ack"} => f.msg \in Msg /\ f.try \in 0..MaxRetries
         /\ f.kind \in {"sync", "results"} => f.msgs \in SUBSET Msg
BY DEF Frame

\* The kinds of steps on frames in flight.
LEMMA AttemptTyped ==
  ASSUME TypeOK, NEW m \in Msg, up, retries' = retries, Attempt(m)
  PROVE  PageTyped' <=> (orphan' \subseteq Msg
                          /\ result' \in [Msg -> {"none", "sent", "queued", "refused"}])
BY DEF TypeOK, PageTyped, Attempt

LEMMA AttemptOnNet ==
  ASSUME TypeOK, NEW m \in Msg, up, Attempt(m)
  PROVE  NetTyped'
<1>1. [kind |-> "send", msg |-> m, try |-> retries[m], as |-> user] \in Frame
  BY DEF TypeOK, Frame
<1> QED
  BY <1>1 DEF TypeOK, Attempt, NetTyped

LEMMA FailedTyped ==
  ASSUME TypeOK, NEW m \in Msg, Failed(m)
  PROVE  /\ call' \in [Msg -> {"none", "waiting", "backoff", "saving", "settled", "cut"}]
         /\ retries' \in [Msg -> 0..MaxRetries]
BY DEF TypeOK, Failed

LEMMA StoreTyped ==
  ASSUME TypeOK, NEW msgs, NEW as \in Account, Store(msgs, as)
  PROVE  log' \in [Msg -> Account \cup {None}]
BY DEF TypeOK, Store

\* The page's steps.
LEMMA PageKeepsTypes ==
  ASSUME TypeOK, NEW m \in Msg, Page(m)
  PROVE  TypeOK'
<1> USE DEF page, queue, server, PageTyped, QueueTyped, SessionTyped, ServerTyped, HistoryTyped,
            NetTyped
<1>0. PageTyped /\ QueueTyped /\ SessionTyped /\ ServerTyped /\ HistoryTyped /\ NetTyped
  BY TypeParts
<1>1. CASE Compose(m)
  <2>1. CASE up
    <3>1. Attempt(m)
      BY <1>1, <2>1 DEF Compose
    <3>2. NetTyped'
      BY <2>1, <3>1, AttemptOnNet
    <3>3. PageTyped'
      BY <1>0, <1>1, <3>1 DEF Compose, Attempt
    <3> QED
      BY <1>0, <1>1, <3>2, <3>3, TypePartsNext DEF Compose
  <2>2. CASE ~up
    BY <1>0, <1>1, <2>2, TypePartsNext DEF Compose
  <2> QED
    BY <2>1, <2>2
<1>2. CASE AckTimeout(m)
  <2>1. Failed(m)
    BY <1>2 DEF AckTimeout
  <2> QED
    BY <1>0, <1>2, <2>1, FailedTyped, TypePartsNext DEF AckTimeout
<1>3. CASE BackoffFires(m)
  <2>1. CASE up /\ m \notin orphan
    <3>1. Attempt(m) /\ retries' = retries
      BY <1>3, <2>1 DEF BackoffFires
    <3>2. NetTyped'
      BY <2>1, <3>1, AttemptOnNet
    <3>3. PageTyped'
      BY <1>0, <1>3, <3>1 DEF BackoffFires, Attempt
    <3> QED
      BY <1>0, <1>3, <3>2, <3>3, TypePartsNext DEF BackoffFires
  <2>2. CASE ~(up /\ m \notin orphan)
    <3>1. Failed(m)
      BY <1>3, <2>2 DEF BackoffFires
    <3> QED
      BY <1>0, <1>3, <2>2, <3>1, FailedTyped, TypePartsNext DEF BackoffFires
  <2> QED
    BY <2>1, <2>2
<1>4. CASE Saved(m)
  BY <1>0, <1>4, TypePartsNext DEF Saved, Resolve
<1>5. CASE RemoveRow(m)
  BY <1>0, <1>5, TypePartsNext DEF RemoveRow
<1> QED
  BY <1>1, <1>2, <1>3, <1>4, <1>5 DEF Page

\* The service worker's.
LEMMA WorkerKeepsTypes ==
  ASSUME TypeOK, (\E m \in Msg : Worker(m)) \/ StartFlush \/ FlushToken
  PROVE  TypeOK'
<1> USE DEF page, queue, server, PageTyped, QueueTyped, SessionTyped, ServerTyped, HistoryTyped,
            NetTyped, Asleep
<1>0. PageTyped /\ QueueTyped /\ SessionTyped /\ ServerTyped /\ HistoryTyped /\ NetTyped
  BY TypeParts
<1>1. ASSUME NEW m \in Msg, RowDone(m)
      PROVE  outbox' \subseteq Msg /\ flush' \in [rows : SUBSET Msg, as : Account \cup {None}]
  BY <1>0, <1>1 DEF RowDone
<1>2. flush.as \in Account \cup {None} /\ flush.rows \subseteq Msg
  BY <1>0
<1>3. ASSUME NEW m \in Msg, FlushAccepted(m)  PROVE TypeOK'
  <2>1. log' \in [Msg -> Account \cup {None}]
    BY <1>2, <1>3, StoreTyped DEF FlushAccepted
  <2> QED
    BY <1>0, <1>1, <1>3, <2>1, TypePartsNext DEF FlushAccepted
<1>4. ASSUME NEW m \in Msg, FlushRefused(m)  PROVE TypeOK'
  BY <1>0, <1>1, <1>4, TypePartsNext DEF FlushRefused
<1>5. ASSUME NEW m \in Msg, FlushFails(m)  PROVE TypeOK'
  <2>1. log' \in [Msg -> Account \cup {None}]
    BY <1>0, <1>2, <1>5, StoreTyped DEF FlushFails
  <2> QED
    BY <1>0, <1>5, <2>1, TypePartsNext DEF FlushFails
<1>6. CASE StartFlush
  BY <1>0, <1>6, TypePartsNext DEF StartFlush
<1>7. CASE FlushToken
  <2>1. flush' \in [rows : SUBSET Msg, as : Account \cup {None}]
    BY <1>0, <1>7 DEF FlushToken
  <2> QED
    BY <1>0, <1>7, <2>1, TypePartsNext DEF FlushToken
<1> QED
  BY <1>3, <1>4, <1>5, <1>6, <1>7 DEF Worker

\* Frames handled at either end.
LEMMA WireKeepsTypes ==
  ASSUME TypeOK, NEW f \in net, Wire(f)
  PROVE  TypeOK'
<1> USE DEF page, queue, server, PageTyped, QueueTyped, SessionTyped, ServerTyped, HistoryTyped,
            NetTyped
<1>0. PageTyped /\ QueueTyped /\ SessionTyped /\ ServerTyped /\ HistoryTyped /\ NetTyped
  BY TypeParts
<1>1. f \in Frame
  BY <1>0
<1>2. ASSUME NEW a \in Frame, Answer(f, a)  PROVE NetTyped'
  BY <1>0, <1>2 DEF Answer
<1>3. CASE ServerAccepts(f)
  <2>1. [kind |-> "ack", msg |-> f.msg, try |-> f.try, as |-> f.as, verdict |-> "ok"] \in Frame
    BY <1>1, <1>3, FrameFields DEF ServerAccepts, Frame
  <2>2. NetTyped'
    BY <1>2, <1>3, <2>1 DEF ServerAccepts
  <2>3. log' \in [Msg -> Account \cup {None}]
    BY <1>1, <1>3, FrameFields, StoreTyped DEF ServerAccepts
  <2> QED
    BY <1>0, <1>3, <2>2, <2>3, TypePartsNext DEF ServerAccepts
<1>4. CASE ServerDeclines(f)
  <2>1. PICK v \in {"refused", "fault"} :
          Answer(f, [kind |-> "ack", msg |-> f.msg, try |-> f.try, as |-> f.as, verdict |-> v])
    BY <1>4 DEF ServerDeclines
  <2>2. [kind |-> "ack", msg |-> f.msg, try |-> f.try, as |-> f.as, verdict |-> v] \in Frame
    BY <1>1, <1>4, FrameFields DEF ServerDeclines, Frame
  <2>3. NetTyped'
    BY <1>2, <2>1, <2>2
  <2> QED
    BY <1>0, <1>4, <2>3, TypePartsNext DEF ServerDeclines
<1>5. CASE ServerSyncs(f)
  <2>1. PICK ok \in SUBSET f.msgs :
          /\ ok # f.msgs => faults < MaxFaults
          /\ faults' = IF ok = f.msgs THEN faults ELSE faults + 1
          /\ Store(ok, f.as)
          /\ Answer(f, [kind |-> "results", msgs |-> ok, as |-> f.as])
    BY <1>5 DEF ServerSyncs
  <2>2. f.msgs \in SUBSET Msg /\ f.as \in Account
    BY <1>1, <1>5, FrameFields DEF ServerSyncs
  <2>3. [kind |-> "results", msgs |-> ok, as |-> f.as] \in Frame
    BY <2>2 DEF Frame
  <2>4. NetTyped'
    BY <1>2, <2>1, <2>3
  <2>5. ServerTyped'
    BY <1>0, <2>1, <2>2, StoreTyped
  <2> QED
    BY <1>0, <1>5, <2>4, <2>5, TypePartsNext DEF ServerSyncs
<1>6. CASE ReceiveAck(f)
  <2>1. f.msg \in Msg
    BY <1>1, <1>6, FrameFields DEF ReceiveAck
  <2>2. \/ UNCHANGED <<call, retries, result>>
        \/ Resolve(f.msg, "sent") /\ UNCHANGED retries
        \/ Resolve(f.msg, "refused") /\ UNCHANGED retries
        \/ Failed(f.msg) /\ UNCHANGED result
    BY <1>1, <1>6 DEF ReceiveAck, Frame
  <2>3. /\ call' \in [Msg -> {"none", "waiting", "backoff", "saving", "settled", "cut"}]
        /\ retries' \in [Msg -> 0..MaxRetries]
        /\ result' \in [Msg -> {"none", "sent", "queued", "refused"}]
    <3>1. CASE Failed(f.msg) /\ UNCHANGED result
      BY <1>0, <2>1, <3>1, FailedTyped
    <3> QED
      BY <1>0, <2>1, <2>2, <3>1 DEF Resolve
  <2> QED
    BY <1>0, <1>6, <2>3, TypePartsNext DEF ReceiveAck
<1>7. CASE ReceiveResults(f)
  <2>1. Confirmed(f) \subseteq Msg
    BY <1>0 DEF Confirmed
  <2> QED
    BY <1>0, <1>7, <2>1, TypePartsNext DEF ReceiveResults
<1> QED
  BY <1>3, <1>4, <1>5, <1>6, <1>7 DEF Wire

\* Reading the queue; sessions and tabs.
LEMMA SessionKeepsTypes ==
  ASSUME TypeOK, ReadQueue \/ Session
  PROVE  TypeOK'
<1> USE DEF page, queue, server, PageTyped, QueueTyped, SessionTyped, ServerTyped, HistoryTyped,
            NetTyped, InCall
<1>0. PageTyped /\ QueueTyped /\ SessionTyped /\ ServerTyped /\ HistoryTyped /\ NetTyped
  BY TypeParts
<1>1. CASE ReadQueue
  <2>1. up => [kind |-> "sync", msgs |-> outbox, as |-> user] \in Frame
    BY <1>0 DEF Frame
  <2>2. NetTyped' /\ reading' \in 0..MaxDrains
    BY <1>0, <1>1, <2>1 DEF ReadQueue
  <2> QED
    BY <1>0, <1>1, <2>2, TypePartsNext DEF ReadQueue
<1>2. ASSUME DropFrames  PROVE NetTyped'
  BY <1>0, <1>2 DEF DropFrames
<1>3. CASE Connect
  <2>1. reading' \in 0..MaxDrains
    BY <1>0, <1>3 DEF Connect
  <2> QED
    BY <1>0, <1>3, <2>1, TypePartsNext DEF Connect
<1>8. CASE Mount
  <2>1. reading' \in 0..MaxDrains
    BY <1>0, <1>8 DEF Mount
  <2> QED
    BY <1>0, <1>8, <2>1, TypePartsNext DEF Mount
<1>9. CASE OpenTab
  BY <1>0, <1>9, TypePartsNext DEF OpenTab
<1>4. CASE Disconnect
  BY <1>0, <1>2, <1>4, TypePartsNext DEF Disconnect
<1>5. CASE CloseTab
  <2>1. PageTyped'
    BY <1>0, <1>5 DEF CloseTab
  <2>2. QueueTyped'
    BY <1>0, <1>5 DEF CloseTab
  <2>3. SessionTyped' /\ ServerTyped' /\ HistoryTyped'
    BY <1>0, <1>5 DEF CloseTab
  <2>4. NetTyped'
    BY <1>2, <1>5 DEF CloseTab
  <2> QED
    BY <2>1, <2>2, <2>3, <2>4, TypePartsNext
<1>6. CASE SignOut
  <2>1. PageTyped' /\ HistoryTyped'
    BY <1>0, <1>6 DEF SignOut
  <2>2. QueueTyped'
    BY <1>0, <1>6 DEF SignOut
  <2>3. SessionTyped' /\ ServerTyped'
    BY <1>0, <1>6 DEF SignOut
  <2>4. NetTyped'
    BY <1>2, <1>6 DEF SignOut
  <2> QED
    BY <2>1, <2>2, <2>3, <2>4, TypePartsNext
<1>7. ASSUME NEW a \in Account, SignIn(a)  PROVE TypeOK'
  <2>1. owner' = a /\ outbox' \subseteq Msg /\ gone' \subseteq Msg /\ outlived' \subseteq Msg
    BY <1>0, <1>7 DEF SignIn, Claim
  <2> QED
    BY <1>0, <1>7, <2>1, TypePartsNext DEF SignIn
<1> QED
  BY <1>1, <1>3, <1>4, <1>5, <1>6, <1>7, <1>8, <1>9 DEF Session

LEMMA TypesKept ==
  ASSUME TypeOK, [Next]_vars
  PROVE  TypeOK'
<1>1. CASE UNCHANGED vars
  BY <1>1 DEF vars, page, queue, server, TypeOK
<1> QED
  BY <1>1, PageKeepsTypes, WorkerKeepsTypes, WireKeepsTypes, SessionKeepsTypes DEF Next

LEMMA TypedAtFirst == Init => TypeOK
<1> SUFFICES ASSUME Init  PROVE TypeOK
  OBVIOUS
<1>1. flush \in [rows : SUBSET Msg, as : Account \cup {None}]
  BY DEF Init, Asleep
<1>2. PageTyped
  BY DEF Init, PageTyped
<1>3. ServerTyped
  BY DEF Init, ServerTyped
<1>4. HistoryTyped
  BY DEF Init, HistoryTyped
<1>5. SessionTyped
  BY DEF Init, SessionTyped
<1>6. QueueTyped /\ NetTyped
  BY <1>1 DEF Init, QueueTyped, NetTyped
<1> QED
  BY <1>2, <1>3, <1>4, <1>5, <1>6, TypeParts

-----------------------------------------------------------------------------
(* Nothing is lost, and what is said is so. *)

\* An ack is waited for only by a send that has not resolved, and an answer on its way
\* to the page speaks of messages the server has.
Awaited == \A m \in registered : call[m] = "waiting"

FramesTrue ==
  \A f \in net :
    /\ f.kind = "ack" /\ f.verdict = "ok" => log[f.msg] # None
    /\ f.kind = "results" => \A m \in f.msgs : log[m] # None

Accounted == NothingLost /\ AnswersTrue /\ Awaited /\ FramesTrue

\* The server keeps what it has.
LEMMA LogGrows ==
  ASSUME TypeOK, [Next]_vars
  PROVE  \A m \in Msg : log[m] # None => log'[m] = log[m]
<1> USE DEF server
<1>1. ASSUME NEW msgs, NEW as, Store(msgs, as)
      PROVE  \A m \in Msg : log[m] # None => log'[m] = log[m]
  BY <1>1 DEF Store
<1>2. ASSUME NEW m \in Msg, Page(m)  PROVE log' = log
  BY <1>2 DEF Page, Compose, AckTimeout, BackoffFires, Saved, RemoveRow
<1>3. ASSUME NEW m \in Msg, Worker(m)
      PROVE  log' = log \/ \E msgs, as : Store(msgs, as)
  BY <1>3 DEF Worker, FlushAccepted, FlushRefused, FlushFails
<1>4. ASSUME NEW f \in net, Wire(f)
      PROVE  log' = log \/ \E msgs, as : Store(msgs, as)
  BY <1>4 DEF Wire, ServerAccepts, ServerDeclines, ServerSyncs, ReceiveAck, ReceiveResults
<1>5. CASE ReadQueue \/ StartFlush \/ FlushToken \/ Session \/ UNCHANGED vars
  BY <1>5 DEF ReadQueue, StartFlush, FlushToken, Session, Connect, Disconnect, Mount, CloseTab,
              OpenTab, SignOut, SignIn, vars
<1> QED
  BY <1>1, <1>2, <1>3, <1>4, <1>5 DEF Next

\* Frames stay true if no answer is new.
LEMMA FramesStayTrue ==
  ASSUME TypeOK, FramesTrue, [Next]_vars,
         \A f \in net' : f \in net \/ f.kind \in {"send", "sync"}
  PROVE  FramesTrue'
BY LogGrows, FrameFields DEF FramesTrue, TypeOK

LEMMA PageAccounts ==
  ASSUME TypeOK, Accounted, NEW m \in Msg, Page(m)
  PROVE  Accounted'
<1> USE DEF page, queue, server, Accounted, TypeOK
<1>0. [Next]_vars
  BY DEF Next
<1>1. \A f \in net' : f \in net \/ f.kind \in {"send", "sync"}
  BY DEF Page, Compose, AckTimeout, BackoffFires, Saved, RemoveRow, Attempt
<1>2. FramesTrue'
  BY <1>0, <1>1, FramesStayTrue
<1>3. CASE Compose(m)
  <2>1. NothingLost'
    BY <1>3 DEF Compose, Attempt, NothingLost
  <2> QED
    BY <1>2, <1>3, <2>1 DEF Compose, Attempt, AnswersTrue, Awaited
<1>4. CASE AckTimeout(m)
  BY <1>2, <1>4 DEF AckTimeout, Failed, NothingLost, AnswersTrue, Awaited
<1>5. CASE BackoffFires(m)
  BY <1>2, <1>5 DEF BackoffFires, Attempt, Failed, NothingLost, AnswersTrue, Awaited
<1>6. CASE Saved(m)
  BY <1>2, <1>6 DEF Saved, Resolve, NothingLost, AnswersTrue, Awaited
<1>7. CASE RemoveRow(m)
  BY <1>2, <1>7 DEF RemoveRow, NothingLost, AnswersTrue, Awaited
<1> QED
  BY <1>3, <1>4, <1>5, <1>6, <1>7 DEF Page

LEMMA WorkerAccounts ==
  ASSUME TypeOK, Accounted, (\E m \in Msg : Worker(m)) \/ StartFlush \/ FlushToken
  PROVE  Accounted'
<1> USE DEF page, queue, server, Accounted
<1>0. [Next]_vars
  BY DEF Next
<1>1. net' = net /\ UNCHANGED <<page, author, removing>>
  BY DEF Worker, FlushAccepted, FlushRefused, FlushFails, StartFlush, FlushToken
<1>2. FramesTrue' /\ Awaited'
  BY <1>0, <1>1, FramesStayTrue DEF Awaited
<1>3. \A m \in Msg : log[m] # None => log'[m] # None
  BY <1>0, LogGrows
<1>4. AnswersTrue'
  BY <1>1, <1>3 DEF AnswersTrue, TypeOK
<1>5. ASSUME NEW m \in Msg  PROVE m \in outbox => m \in outbox' \/ log'[m] # None \/ m \in gone'
  <2>1. ASSUME NEW k \in Msg, FlushAccepted(k)  PROVE log'[k] # None
    BY <2>1, <1>3 DEF FlushAccepted, Store, TypeOK
  <2>2. ASSUME NEW k \in Msg, Worker(k)
        PROVE  m \in outbox => m \in outbox' \/ log'[m] # None \/ m \in gone'
    BY <2>1, <2>2 DEF Worker, FlushAccepted, FlushRefused, FlushFails, RowDone
  <2> QED
    BY <2>2 DEF StartFlush, FlushToken
<1>6. gone \subseteq gone'
  BY DEF Worker, FlushAccepted, FlushRefused, FlushFails, StartFlush, FlushToken
<1> QED
  BY <1>1, <1>2, <1>3, <1>4, <1>5, <1>6 DEF NothingLost

LEMMA WireAccounts ==
  ASSUME TypeOK, Accounted, NEW f \in net, Wire(f)
  PROVE  Accounted'
<1> USE DEF page, queue, server, Accounted
<1>0. [Next]_vars
  BY DEF Next
<1>1. f \in Frame
  BY DEF TypeOK
<1>2. \A m \in Msg : log[m] # None => log'[m] # None
  BY <1>0, LogGrows
<1>3. ASSUME UNCHANGED <<page, queue, author, gone>>
      PROVE  NothingLost' /\ AnswersTrue' /\ Awaited'
  BY <1>2, <1>3 DEF NothingLost, AnswersTrue, Awaited, TypeOK
\* A new answer speaks of what the server has by now.
<1>4. ASSUME NEW a, Answer(f, a),
             a.kind = "ack" /\ a.verdict = "ok" => log'[a.msg] # None,
             a.kind = "results" => \A m \in a.msgs : log'[m] # None
      PROVE  FramesTrue'
  <2>1. \A g \in net' : g \in net \/ g = a
    BY <1>4 DEF Answer
  <2>2. \A g \in net : g \in Frame
    BY DEF TypeOK
  <2> QED
    BY <1>2, <1>4, <2>1, <2>2, FrameFields DEF FramesTrue
<1>5. CASE ServerAccepts(f)
  <2>1. f.msg \in Msg /\ f.as \in Account
    BY <1>1, <1>5, FrameFields DEF ServerAccepts
  <2>2. log'[f.msg] # None
    BY <1>5, <2>1 DEF ServerAccepts, Store
  <2> QED
    BY <1>3, <1>4, <1>5, <2>2 DEF ServerAccepts
<1>6. CASE ServerDeclines(f)
  <2>1. PICK v \in {"refused", "fault"} :
          Answer(f, [kind |-> "ack", msg |-> f.msg, try |-> f.try, as |-> f.as, verdict |-> v])
    BY <1>6 DEF ServerDeclines
  <2> QED
    BY <1>3, <1>4, <1>6, <2>1 DEF ServerDeclines
<1>7. CASE ServerSyncs(f)
  <2>1. PICK ok \in SUBSET f.msgs :
          Store(ok, f.as) /\ Answer(f, [kind |-> "results", msgs |-> ok, as |-> f.as])
    BY <1>7 DEF ServerSyncs
  <2>2. f.msgs \in SUBSET Msg /\ f.as \in Account
    BY <1>1, <1>7, FrameFields DEF ServerSyncs
  <2>3. \A m \in ok : log'[m] # None
    BY <2>1, <2>2 DEF Store
  <2> QED
    BY <1>3, <1>4, <1>7, <2>1, <2>3 DEF ServerSyncs
<1>8. CASE ReceiveAck(f)
  <2>1. f.msg \in Msg /\ net' \subseteq net
    BY <1>1, <1>8, FrameFields DEF ReceiveAck
  <2>2. FramesTrue'
    BY <1>0, <2>1, FramesStayTrue
  <2>3. \/ f.msg \notin registered /\ UNCHANGED <<call, retries, result>>
        \/ Resolve(f.msg, "sent") /\ log[f.msg] # None
        \/ Resolve(f.msg, "refused")
        \/ Failed(f.msg) /\ UNCHANGED result
    BY <1>1, <1>8 DEF ReceiveAck, Frame, FramesTrue
  <2>4. /\ registered' = registered \ {f.msg}
        /\ UNCHANGED <<outbox, removing, log, author, gone>>
    BY <1>8 DEF ReceiveAck
  <2>5. AnswersTrue' /\ Awaited'
    BY <2>1, <2>3, <2>4 DEF AnswersTrue, Awaited, Resolve, Failed, TypeOK
  <2>6. NothingLost'
    BY <2>1, <2>3, <2>4 DEF NothingLost, Resolve, Failed, TypeOK
  <2> QED
    BY <2>2, <2>5, <2>6
<1>9. CASE ReceiveResults(f)
  <2>1. FramesTrue'
    BY <1>0, <1>9, FramesStayTrue DEF ReceiveResults
  <2>2. \A m \in removing' : log[m] # None
    BY <1>9 DEF ReceiveResults, Confirmed, AnswersTrue, FramesTrue
  <2> QED
    BY <1>9, <2>1, <2>2 DEF ReceiveResults, NothingLost, AnswersTrue, Awaited
<1> QED
  BY <1>5, <1>6, <1>7, <1>8, <1>9 DEF Wire

LEMMA SessionAccounts ==
  ASSUME TypeOK, Accounted, ReadQueue \/ Session
  PROVE  Accounted'
<1> USE DEF page, queue, server, Accounted
<1>0. [Next]_vars
  BY DEF Next
<1>1. \A f \in net' : f \in net \/ f.kind \in {"send", "sync"}
  BY DEF ReadQueue, Session, Connect, Disconnect, Mount, CloseTab, OpenTab, SignOut, SignIn,
         DropFrames
<1>2. FramesTrue'
  BY <1>0, <1>1, FramesStayTrue
<1>3. CASE ReadQueue \/ Connect \/ Disconnect \/ Mount \/ OpenTab
  BY <1>2, <1>3 DEF ReadQueue, Connect, Disconnect, Mount, OpenTab, NothingLost, AnswersTrue,
                    Awaited
<1>4. CASE CloseTab
  BY <1>2, <1>4 DEF CloseTab, NothingLost, AnswersTrue, Awaited, Live, InCall, TypeOK
<1>5. CASE SignOut
  BY <1>2, <1>5 DEF SignOut, NothingLost, AnswersTrue, Awaited, TypeOK
<1>6. ASSUME NEW a \in Account, SignIn(a)  PROVE Accounted'
  BY <1>2, <1>6 DEF SignIn, Claim, NothingLost, AnswersTrue, Awaited
<1> QED
  BY <1>3, <1>4, <1>5, <1>6 DEF Session

\* The inductive invariant of the accounts: sends, acks and answers agree with the log.
THEOREM AccountedAlways == Spec => [](TypeOK /\ Accounted)
<1>1. Init => TypeOK /\ Accounted
  <2>1. Init => Accounted
    BY DEF Init, Accounted, NothingLost, AnswersTrue, Awaited, FramesTrue
  <2> QED
    BY <2>1, TypedAtFirst
<1>2. TypeOK /\ Accounted /\ [Next]_vars => (TypeOK /\ Accounted)'
  <2> SUFFICES ASSUME TypeOK, Accounted, [Next]_vars  PROVE TypeOK' /\ Accounted'
    OBVIOUS
  <2>1. CASE UNCHANGED vars
    BY <2>1, TypesKept DEF vars, page, queue, server, Accounted, NothingLost, AnswersTrue,
                           Awaited, FramesTrue
  <2> QED
    BY <2>1, TypesKept, PageAccounts, WorkerAccounts, WireAccounts, SessionAccounts DEF Next
<1> QED
  BY <1>1, <1>2, PTL DEF Spec

\* A composed message is stored, queued, still in the page's hands, refused to its
\* author's face or given up for a recorded reason; "sent" and a row taken off the queue
\* mean that the server has it (useMessageDelivery, OfflineQueue, sw.js).
THEOREM SendsAccountedAlways == Spec => []SendsAccounted
<1>1. TypeOK /\ Accounted => SendsAccounted
  BY DEF Accounted, SendsAccounted
<1> QED
  BY AccountedAlways, <1>1, PTL

-----------------------------------------------------------------------------
(* A message is stored under the account that wrote it. *)

\* What this browser holds was written by the account it belongs to.
Ours(m) == (author[m] = owner /\ owner # None) \/ m \in outlived
By(m, as) == author[m] = as \/ m \in outlived

Held == outbox \cup (IF flush.as = None THEN flush.rows ELSE {}) \cup InCall

\* A message that nobody has composed yet is nowhere.
Unknown(m) ==
  /\ m \notin outbox \cup flush.rows
  /\ log[m] = None
  /\ \A f \in net : /\ f.kind = "send" => f.msg # m
                    /\ f.kind = "sync" => m \notin f.msgs

Attributed ==
  /\ user \in {None, owner}
  /\ \A m \in Msg : call[m] = "none" => Unknown(m)
  /\ \A m \in Held : Ours(m)
  /\ flush.as # None => \A m \in flush.rows : By(m, flush.as)
  /\ \A f \in net : /\ f.kind = "send" => By(f.msg, f.as)
                    /\ f.kind = "sync" => \A m \in f.msgs : By(m, f.as)
  /\ SentByItsAuthor

LEMMA PageAttributes ==
  ASSUME TypeOK, Attributed, NEW m \in Msg, Page(m)
  PROVE  Attributed'
<1> USE DEF page, queue, server, TypeOK, Held, InCall, Live
<1>1. CASE Compose(m)
  <2>1. Unknown(m) /\ user = owner /\ owner # None
    BY <1>1 DEF Compose, Attributed
  <2>2. \A k \in Msg \ {m} : author'[k] = author[k] /\ call'[k] = call[k]
    BY <1>1 DEF Compose, Attempt
  <2>3. author'[m] = user /\ call'[m] \in {"waiting", "saving"}
    BY <1>1 DEF Compose, Attempt
  <2>4. \A f \in net' : f \in net \/ (f.kind = "send" /\ f.msg = m /\ f.as = user)
    BY <1>1 DEF Compose, Attempt
  <2>5. UNCHANGED <<user, owner, outbox, flush, log, outlived>>
    BY <1>1 DEF Compose
  <2>6. \A k \in Msg : call'[k] = "none" => Unknown(k)'
    BY <2>2, <2>3, <2>4, <2>5 DEF Attributed, Unknown
  <2>7. \A k \in Held' : Ours(k)'
    BY <2>1, <2>2, <2>3, <2>5 DEF Attributed, Ours
  <2>8. flush'.as # None => \A k \in flush'.rows : By(k, flush.as)'
    BY <2>1, <2>2, <2>5 DEF Attributed, By, Unknown
  <2>9. \A f \in net' : /\ f.kind = "send" => By(f.msg, f.as)'
                        /\ f.kind = "sync" => \A k \in f.msgs : By(k, f.as)'
    <3>1. ASSUME NEW f \in net
          PROVE  /\ f.kind = "send" => By(f.msg, f.as)'
                 /\ f.kind = "sync" => \A k \in f.msgs : By(k, f.as)'
      BY <2>1, <2>2, <2>5, FrameFields DEF Attributed, By, Unknown
    <3> QED
      BY <2>3, <2>4, <3>1 DEF By
  <2>10. SentByItsAuthor'
    BY <2>1, <2>2, <2>5 DEF Attributed, SentByItsAuthor, Unknown
  <2> QED
    BY <2>1, <2>5, <2>6, <2>7, <2>8, <2>9, <2>10 DEF Attributed
<1>2. CASE AckTimeout(m) \/ BackoffFires(m) \/ Saved(m)
  <2>1. call[m] \in {"waiting", "backoff", "saving"}
    BY <1>2 DEF AckTimeout, BackoffFires, Saved
  <2>2. Ours(m)
    BY <2>1 DEF Attributed
  <2>3. \A k \in Msg \ {m} : call'[k] = call[k]
    BY <1>2 DEF AckTimeout, BackoffFires, Saved, Failed, Attempt, Resolve
  <2>4. call'[m] # "none"
    BY <1>2 DEF AckTimeout, BackoffFires, Saved, Failed, Attempt, Resolve
  <2>5. \A f \in net' : f \in net \/ (f.kind = "send" /\ f.msg = m /\ f.as = user /\ user # None)
    BY <1>2 DEF AckTimeout, BackoffFires, Saved, Attempt
  <2>6. outbox' \in {outbox, outbox \cup {m}}
    BY <1>2 DEF AckTimeout, BackoffFires, Saved
  <2>7. UNCHANGED <<user, owner, author, flush, log, outlived>>
    BY <1>2 DEF AckTimeout, BackoffFires, Saved
  <2>8. \A k \in Msg : call'[k] = "none" => Unknown(k)'
    BY <2>3, <2>4, <2>5, <2>6, <2>7 DEF Attributed, Unknown
  <2>9. \A k \in Held' : Ours(k)'
    BY <2>2, <2>3, <2>6, <2>7 DEF Attributed, Ours
  <2>10. \A f \in net' : /\ f.kind = "send" => By(f.msg, f.as)'
                         /\ f.kind = "sync" => \A k \in f.msgs : By(k, f.as)'
    BY <2>2, <2>5, <2>7 DEF Attributed, By, Ours
  <2> QED
    BY <2>7, <2>8, <2>9, <2>10 DEF Attributed, By, SentByItsAuthor
<1>3. CASE RemoveRow(m)
  BY <1>3 DEF RemoveRow, Attributed, Unknown, Ours, By, SentByItsAuthor
<1> QED
  BY <1>1, <1>2, <1>3 DEF Page

\* The log takes messages of the account it stores them under.
LEMMA StoreAttributes ==
  ASSUME TypeOK, Attributed, NEW msgs, NEW as \in Account, Store(msgs, as),
         \A m \in msgs : By(m, as), UNCHANGED <<author, outlived>>
  PROVE  SentByItsAuthor'
BY DEF TypeOK, Attributed, Store, By, SentByItsAuthor

LEMMA WorkerAttributes ==
  ASSUME TypeOK, Attributed, (\E m \in Msg : Worker(m)) \/ StartFlush \/ FlushToken
  PROVE  Attributed'
<1> USE DEF page, queue, server, TypeOK, Held, InCall, Live
<1>1. UNCHANGED <<user, owner, call, net, author, outlived>>
  BY DEF Worker, FlushAccepted, FlushRefused, FlushFails, StartFlush, FlushToken
<1>2. ASSUME NEW m \in Msg, FlushAccepted(m) \/ FlushRefused(m) \/ FlushFails(m)
      PROVE  /\ flush.as # None /\ m \in flush.rows
             /\ outbox' \subseteq outbox /\ flush'.rows \subseteq flush.rows
             /\ flush'.as = flush.as \/ flush' = Asleep
             /\ log' = log \/ Store({m}, flush.as)
  <2>1. CASE RowDone(m)
    <3>1. flush' = Asleep \/ flush' = [flush EXCEPT !.rows = @ \ {m}]
      BY <2>1 DEF RowDone
    <3> QED
      BY <1>2, <2>1, <3>1 DEF FlushAccepted, FlushRefused, FlushFails, RowDone, Asleep
  <2>2. CASE ~RowDone(m)
    BY <1>2, <2>2 DEF FlushAccepted, FlushRefused, FlushFails, Asleep
  <2> QED
    BY <2>1, <2>2
<1>3. ASSUME NEW m \in Msg, Worker(m)  PROVE Attributed'
  <2>1. /\ flush.as # None /\ m \in flush.rows
        /\ outbox' \subseteq outbox /\ flush'.rows \subseteq flush.rows
        /\ flush'.as = flush.as \/ flush' = Asleep
        /\ log' = log \/ Store({m}, flush.as)
    BY <1>2, <1>3 DEF Worker
  <2>2. flush.as \in Account /\ By(m, flush.as)
    BY <2>1 DEF Attributed
  <2>3. SentByItsAuthor'
    BY <1>1, <2>1, <2>2, StoreAttributes DEF Attributed, SentByItsAuthor
  <2>4. \A k \in Msg : call[k] = "none" => log'[k] = None
    BY <2>1 DEF Attributed, Unknown, Store
  <2>5. flush'.as # None => flush'.as = flush.as
    BY <2>1 DEF Asleep
  <2>6. flush'.as = None => flush'.rows = {}
    BY <2>1 DEF Asleep
  <2> QED
    BY <1>1, <2>1, <2>3, <2>4, <2>5, <2>6 DEF Attributed, Unknown, Ours, By
<1>4. CASE StartFlush
  BY <1>1, <1>4 DEF StartFlush, Attributed, Unknown, Ours, By, SentByItsAuthor, Asleep
<1>5. CASE FlushToken
  <2>1. \/ flush' = Asleep
        \/ flush'.rows = flush.rows /\ flush'.as = user /\ user # None
    BY <1>5 DEF FlushToken
  <2>2. flush.as = None /\ log' = log /\ outbox' = outbox
    BY <1>5 DEF FlushToken
  <2> QED
    BY <1>1, <2>1, <2>2 DEF Attributed, Unknown, Ours, By, SentByItsAuthor, Asleep
<1> QED
  BY <1>3, <1>4, <1>5

LEMMA WireAttributes ==
  ASSUME TypeOK, Awaited, Attributed, NEW f \in net, Wire(f)
  PROVE  Attributed'
<1> USE DEF page, queue, server, TypeOK, Held, InCall, Live
<1>1. UNCHANGED <<user, owner, outbox, flush, author, outlived>>
  BY DEF Wire, ServerAccepts, ServerDeclines, ServerSyncs, ReceiveAck, ReceiveResults
<1>2. f \in Frame
  BY DEF TypeOK
<1>3. \A g \in net' : g \in net \/ g.kind \in {"ack", "results"}
  <2>1. ASSUME NEW a, Answer(f, a), a.kind \in {"ack", "results"}
        PROVE  \A g \in net' : g \in net \/ g.kind \in {"ack", "results"}
    BY <2>1 DEF Answer
  <2>2. CASE ServerAccepts(f)
    BY <2>1, <2>2 DEF ServerAccepts
  <2>3. CASE ServerDeclines(f)
    BY <2>1, <2>3 DEF ServerDeclines
  <2>4. CASE ServerSyncs(f)
    BY <2>1, <2>4 DEF ServerSyncs
  <2>5. CASE ReceiveAck(f) \/ ReceiveResults(f)
    BY <2>5 DEF ReceiveAck, ReceiveResults
  <2> QED
    BY <2>2, <2>3, <2>4, <2>5 DEF Wire
<1>4. \/ log' = log
      \/ f.kind = "send" /\ Store({f.msg}, f.as)
      \/ f.kind = "sync" /\ \E ok \in SUBSET f.msgs : Store(ok, f.as)
  BY DEF Wire, ServerAccepts, ServerDeclines, ServerSyncs, ReceiveAck, ReceiveResults
<1>5. SentByItsAuthor'
  <2>1. CASE log' = log
    BY <1>1, <2>1 DEF Attributed, SentByItsAuthor
  <2>2. CASE f.kind = "send" /\ Store({f.msg}, f.as)
    BY <1>1, <1>2, <2>2, FrameFields, StoreAttributes DEF Attributed
  <2>3. CASE f.kind = "sync" /\ \E ok \in SUBSET f.msgs : Store(ok, f.as)
    <3>1. PICK ok \in SUBSET f.msgs : Store(ok, f.as)
      BY <2>3
    <3>2. \A m \in ok : By(m, f.as)
      BY <2>3 DEF Attributed
    <3> QED
      BY <1>1, <1>2, <3>1, <3>2, FrameFields, StoreAttributes
  <2> QED
    BY <1>4, <2>1, <2>2, <2>3
\* Only the page's own acks move a send on, and none of them begins it anew.
<1>6. \A m \in Msg : /\ call'[m] = "none" => call[m] = "none"
                     /\ Live(m)' => Live(m)
  <2>1. CASE ReceiveAck(f)
    <3>1. \/ call' = call
          \/ f.msg \in registered /\ (Resolve(f.msg, "sent") \/ Resolve(f.msg, "refused"))
          \/ f.msg \in registered /\ Failed(f.msg)
      BY <1>2, <2>1 DEF ReceiveAck, Frame
    <3> QED
      BY <3>1 DEF Awaited, Resolve, Failed
  <2>2. CASE ~ReceiveAck(f)
    BY <2>2 DEF Wire, ServerAccepts, ServerDeclines, ServerSyncs, ReceiveResults
  <2> QED
    BY <2>1, <2>2
<1>7. \A m \in Msg : call'[m] = "none" => log'[m] = None
  BY <1>4, <1>6 DEF Attributed, Unknown, Store
<1> QED
  BY <1>1, <1>3, <1>5, <1>6, <1>7 DEF Attributed, Unknown, Ours, By

LEMMA SessionAttributes ==
  ASSUME TypeOK, Attributed, ReadQueue \/ Session
  PROVE  Attributed'
<1> USE DEF page, queue, server, TypeOK, Held, InCall, Live
<1>1. UNCHANGED <<flush, log, author>>
  BY DEF ReadQueue, Session, Connect, Disconnect, Mount, CloseTab, OpenTab, SignOut, SignIn
<1>2. CASE ReadQueue
  <2>1. \A f \in net' : f \in net \/ (f.kind = "sync" /\ f.msgs = outbox /\ f.as = owner)
    BY <1>2 DEF ReadQueue, Attributed
  <2>2. UNCHANGED <<user, owner, call, outbox, outlived>>
    BY <1>2 DEF ReadQueue
  <2>3. \A m \in outbox : By(m, owner) /\ call[m] # "none"
    BY DEF Attributed, Ours, By, Unknown
  <2> QED
    BY <1>1, <2>1, <2>2, <2>3 DEF Attributed, Unknown, Ours, By, SentByItsAuthor
<1>3. CASE Connect \/ Disconnect \/ Mount \/ CloseTab \/ OpenTab \/ SignOut
  <2>1. /\ user' \in {user, None} /\ net' \subseteq net
        /\ UNCHANGED <<owner, outbox, outlived>>
    BY <1>3 DEF Connect, Disconnect, Mount, CloseTab, OpenTab, SignOut, DropFrames
  <2>2. \A m \in Msg : /\ call'[m] = "none" => call[m] = "none"
                       /\ Live(m)' => Live(m)
    BY <1>3 DEF Connect, Disconnect, Mount, CloseTab, OpenTab, SignOut
  <2> QED
    BY <1>1, <2>1, <2>2 DEF Attributed, Unknown, Ours, By, SentByItsAuthor
<1>4. ASSUME NEW a \in Account, SignIn(a)  PROVE Attributed'
  <2>1. user' = a /\ owner' = a /\ UNCHANGED <<call, net>>
    BY <1>4 DEF SignIn, Claim
  <2>2. CASE owner \in {None, a}
    <3>1. UNCHANGED <<outbox, outlived>>
      BY <1>4, <2>2 DEF SignIn, Claim
    <3> QED
      BY <1>1, <2>1, <2>2, <3>1 DEF Attributed, Unknown, Ours, By, SentByItsAuthor
  <2>3. CASE owner \notin {None, a}
    <3>1. outbox' = {} /\ outlived' = outlived \cup InCall \cup flush.rows
      BY <1>4, <2>3 DEF SignIn, Claim
    <3> QED
      BY <1>1, <2>1, <3>1 DEF Attributed, Unknown, Ours, By, SentByItsAuthor
  <2> QED
    BY <2>2, <2>3
<1> QED
  BY <1>2, <1>3, <1>4 DEF Session

\* DeviceOwner.claim keeps one account's messages out of another's session: a message is
\* stored under the account that wrote it, unless its send or the service worker's flush
\* was under way when another account signed in (DeviceOwner.ts, useMessageDelivery).
THEOREM SentByItsAuthorAlways == Spec => []SentByItsAuthor
<1>1. Init => Attributed
  BY DEF Init, Attributed, Unknown, Held, InCall, Live, Asleep, SentByItsAuthor
<1>2. (TypeOK /\ Accounted) /\ Attributed /\ [Next]_vars => Attributed'
  <2> SUFFICES ASSUME TypeOK, Accounted, Attributed, [Next]_vars  PROVE Attributed'
    OBVIOUS
  <2>1. CASE UNCHANGED vars
    BY <2>1 DEF vars, page, queue, server, Attributed, Held, InCall, Live, Unknown,
                           Ours, By, SentByItsAuthor
  <2> QED
    BY <2>1, PageAttributes, WorkerAttributes, WireAttributes, SessionAttributes
       DEF Next, Accounted
<1>3. Attributed => SentByItsAuthor
  BY DEF Attributed
<1> QED
  BY AccountedAlways, <1>1, <1>2, <1>3, PTL DEF Spec
=============================================================================
