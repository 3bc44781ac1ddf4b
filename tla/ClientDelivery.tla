--------------------------- MODULE ClientDelivery ---------------------------
(***************************************************************************)
(* How a room message leaves a browser: useMessageDelivery's attempts and  *)
(* retries, the ack table of stompSocket, the IndexedDB queue with its     *)
(* page drain, the service worker that flushes it once no tab is open, and *)
(* the sign-in, sign-out and DeviceOwner claim that decide whose session   *)
(* the queue goes out under.  One browser, at most one tab, one room.      *)
(*                                                                         *)
(* Timers fire at any time; a connection may drop between any two steps    *)
(* and takes any of the frames in flight with it.  The server is what      *)
(* RoomSend implements, an idempotent log; a verdict other than ok is      *)
(* final ("refused": rate_limited, invalid_message, forbidden) or not      *)
(* ("fault": server_error).  Message texts, reply targets, expiry times    *)
(* and mentions are left out, so is IndexedDB itself failing.              *)
(***************************************************************************)
EXTENDS Naturals, FiniteSets

CONSTANTS
  Msg,         \* client message ids the composer may mint
  Account,     \* accounts that sign in on this browser
  None,        \* no account
  MaxRetries,  \* MAX_RETRIES (4 in the code)
  MaxFaults,   \* bound: verdicts other than ok
  MaxDrains    \* bound: drains that have yet to read the queue

ASSUME ClientDeliveryAssumption ==
  /\ None \notin Account
  /\ MaxRetries \in Nat
  /\ MaxFaults \in Nat
  /\ MaxDrains \in Nat

VARIABLES
  user,        \* the signed-in account: CC_Token, CC_User and the refresh cookie
  owner,       \* CC_DeviceOwner
  open,        \* a tab of the app is open
  up,          \* client.connected of the tab's socket
  call,        \* how far each send() has come
  retries,     \* its retry counter
  orphan,      \* sends whose socket was disconnected by a sign-out
  registered,  \* keys of the socket's pendingAcks
  result,      \* what send() resolved with
  outbox,      \* rows of the offlineQueue store
  reading,     \* drains about to read the store
  listening,   \* the rows the attached syncOfflineQueueResult listeners wait for
  removing,    \* rows a listener has yet to remove
  flush,       \* the service worker: rows it read, account of its token
  net,         \* frames in flight
  log,         \* the account each stored message is stored under
  faults,      \* verdicts other than ok so far
  author,      \* history: who composed each message
  gone,        \* history: given up by a closed tab, a sign-out, a wipe or a refusal
  outlived     \* history: sends and flushes under way when another account signed in

page   == <<call, retries, orphan, registered, result>>
queue  == <<outbox, reading, listening, removing>>
server == <<log, faults>>
vars   == <<user, owner, open, up, page, queue, flush, net, server, author, gone, outlived>>

\* A send still in the page's hands: its ack awaited, its timer set, its row being
\* written.
Live(m) == call[m] \in {"waiting", "backoff", "saving"}
InCall  == {m \in Msg : Live(m)}
Asleep  == [rows |-> {}, as |-> None]

Frame ==
  [kind : {"send"}, msg : Msg, try : 0..MaxRetries, as : Account]
  \cup [kind : {"ack"}, msg : Msg, try : 0..MaxRetries, as : Account,
        verdict : {"ok", "refused", "fault"}]
  \cup [kind : {"sync", "results"}, msgs : SUBSET Msg, as : Account]

TypeOK ==
  /\ user \in Account \cup {None}
  /\ owner \in Account \cup {None}
  /\ open \in BOOLEAN
  /\ up \in BOOLEAN
  /\ up => open /\ user # None
  /\ call \in [Msg -> {"none", "waiting", "backoff", "saving", "settled", "cut"}]
  /\ retries \in [Msg -> 0..MaxRetries]
  /\ orphan \subseteq Msg
  /\ registered \subseteq Msg
  /\ result \in [Msg -> {"none", "sent", "queued", "refused"}]
  /\ outbox \subseteq Msg
  /\ reading \in 0..MaxDrains
  /\ listening \subseteq Msg
  /\ removing \subseteq Msg
  /\ flush \in [rows : SUBSET Msg, as : Account \cup {None}]
  /\ net \subseteq Frame
  /\ log \in [Msg -> Account \cup {None}]
  /\ faults \in 0..MaxFaults
  /\ author \in [Msg -> Account \cup {None}]
  /\ gone \subseteq Msg
  /\ outlived \subseteq Msg

Init ==
  /\ user = None
  /\ owner = None
  /\ open = TRUE
  /\ up = FALSE
  /\ call = [m \in Msg |-> "none"]
  /\ retries = [m \in Msg |-> 0]
  /\ orphan = {}
  /\ registered = {}
  /\ result = [m \in Msg |-> "none"]
  /\ outbox = {}
  /\ reading = 0
  /\ listening = {}
  /\ removing = {}
  /\ flush = Asleep
  /\ net = {}
  /\ log = [m \in Msg |-> None]
  /\ faults = 0
  /\ author = [m \in Msg |-> None]
  /\ gone = {}
  /\ outlived = {}

-----------------------------------------------------------------------------
(* send(): attempts, acks, retries. *)

\* sendWithAck: the callback registered under the client id, the frame published.
Attempt(m) ==
  /\ call' = [call EXCEPT ![m] = "waiting"]
  /\ registered' = registered \cup {m}
  /\ net' = net \cup {[kind |-> "send", msg |-> m, try |-> retries[m], as |-> user]}

\* Faulty variant: retries that are not counted.
RetryForever(m) ==
  /\ call' = [call EXCEPT ![m] = "backoff"]
  /\ UNCHANGED retries

\* The callback's last two branches: a timeout, no connection, or a server_error.
Failed(m) ==
  IF retries[m] < MaxRetries
    THEN /\ retries' = [retries EXCEPT ![m] = @ + 1]
         /\ call' = [call EXCEPT ![m] = "backoff"]
    ELSE /\ call' = [call EXCEPT ![m] = "saving"]
         /\ UNCHANGED retries

Resolve(m, r) ==
  /\ call' = [call EXCEPT ![m] = "settled"]
  /\ result' = [result EXCEPT ![m] = r]

Compose(m) ==
  /\ open /\ user # None /\ call[m] = "none"
  /\ author' = [author EXCEPT ![m] = user]
  /\ IF up THEN Attempt(m)
           ELSE call' = [call EXCEPT ![m] = "saving"] /\ UNCHANGED <<registered, net>>
  /\ UNCHANGED <<user, owner, open, up, retries, orphan, result, queue, flush, server,
                 gone, outlived>>

AckTimeout(m) ==
  /\ open /\ call[m] = "waiting" /\ m \in registered
  /\ registered' = registered \ {m}
  /\ Failed(m)
  /\ UNCHANGED <<user, owner, open, up, orphan, result, queue, flush, net, server, author,
                 gone, outlived>>

\* The retry timer.  A send that outlived its session holds the old socket.
BackoffFires(m) ==
  /\ open /\ call[m] = "backoff"
  /\ IF up /\ m \notin orphan
       THEN UNCHANGED retries /\ Attempt(m)
       ELSE Failed(m) /\ UNCHANGED <<registered, net>>
  /\ UNCHANGED <<user, owner, open, up, orphan, result, queue, flush, server, author,
                 gone, outlived>>

\* enqueue() has committed its row.
Saved(m) ==
  /\ open /\ call[m] = "saving"
  /\ outbox' = outbox \cup {m}
  /\ Resolve(m, "queued")
  /\ UNCHANGED <<user, owner, open, up, retries, orphan, registered, reading, listening,
                 removing, flush, net, server, author, gone, outlived>>

\* onAck: an ack nobody waits for is dropped (a negative one is shown as a toast).
ReceiveAck(f) ==
  /\ f \in net /\ f.kind = "ack"
  /\ net' = net \ {f}
  /\ registered' = registered \ {f.msg}
  /\ CASE f.msg \notin registered -> UNCHANGED <<call, retries, result>>
       [] f.msg \in registered /\ f.verdict = "ok" ->
            Resolve(f.msg, "sent") /\ UNCHANGED retries
       [] f.msg \in registered /\ f.verdict = "refused" ->
            Resolve(f.msg, "refused") /\ UNCHANGED retries
       [] f.msg \in registered /\ f.verdict = "fault" ->
            Failed(f.msg) /\ UNCHANGED result
  /\ UNCHANGED <<user, owner, open, up, orphan, queue, flush, server, author, gone, outlived>>

-----------------------------------------------------------------------------
(* The queue: page drains. *)

\* drain() has read the rows: it listens for their results and emits the batch,
\* which is dropped silently if the connection went meanwhile.  A drain that
\* times out settles but its once() wrapper stays attached, so the rows listened
\* for are forgotten by the next result only.
ReadQueue ==
  /\ open /\ reading > 0
  /\ reading' = reading - 1
  /\ listening' = listening \cup outbox
  /\ net' = IF up /\ outbox # {}
              THEN net \cup {[kind |-> "sync", msgs |-> outbox, as |-> user]}
              ELSE net
  /\ UNCHANGED <<user, owner, open, up, page, outbox, removing, flush, server, author,
                 gone, outlived>>

\* Faulty variant: every row of the batch cleared, whatever its verdict.
Cleared(f) == listening
\* The rows whose result is ok or duplicate.
Confirmed(f) == listening \cap f.msgs

\* onResult of every attached listener.
ReceiveResults(f) ==
  /\ f \in net /\ f.kind = "results"
  /\ net' = net \ {f}
  /\ removing' = removing \cup Confirmed(f)
  /\ listening' = {}
  /\ UNCHANGED <<user, owner, open, up, page, outbox, reading, flush, server, author,
                 gone, outlived>>

RemoveRow(m) ==
  /\ open /\ m \in removing
  /\ outbox' = outbox \ {m}
  /\ removing' = removing \ {m}
  /\ UNCHANGED <<user, owner, open, up, page, reading, listening, flush, net, server,
                 author, gone, outlived>>

\* ChatroomPage mounts while the socket is connected.
Mount ==
  /\ up /\ reading < MaxDrains
  /\ reading' = reading + 1
  /\ UNCHANGED <<user, owner, open, up, page, outbox, listening, removing, flush, net,
                 server, author, gone, outlived>>

-----------------------------------------------------------------------------
(* The service worker: rows first, a token next, one POST after another.   *)
(* It looks for open windows only before it starts.                        *)

StartFlush ==
  /\ ~open /\ flush = Asleep /\ outbox # {}
  /\ flush' = [rows |-> outbox, as |-> None]
  /\ UNCHANGED <<user, owner, open, up, page, queue, net, server, author, gone, outlived>>

FlushToken ==
  /\ flush.rows # {} /\ flush.as = None
  /\ flush' = IF user = None THEN Asleep ELSE [flush EXCEPT !.as = user]
  /\ UNCHANGED <<user, owner, open, up, page, queue, net, server, author, gone, outlived>>

\* The server's idempotent log.
Store(msgs, as) ==
  log' = [m \in Msg |-> IF m \in msgs /\ log[m] = None THEN as ELSE log[m]]

RowDone(m) ==
  /\ outbox' = outbox \ {m}
  /\ flush' = IF flush.rows = {m} THEN Asleep ELSE [flush EXCEPT !.rows = @ \ {m}]

\* 2xx or 409: the row goes.
FlushAccepted(m) ==
  /\ flush.as # None /\ m \in flush.rows
  /\ Store({m}, flush.as)
  /\ RowDone(m)
  /\ UNCHANGED <<user, owner, open, up, page, reading, listening, removing, net, faults,
                 author, gone, outlived>>

\* Any other 4xx but 429: the row goes although nothing was stored.
FlushRefused(m) ==
  /\ flush.as # None /\ m \in flush.rows /\ faults < MaxFaults
  /\ faults' = faults + 1
  /\ RowDone(m)
  /\ gone' = gone \cup {m}
  /\ UNCHANGED <<user, owner, open, up, page, reading, listening, removing, net, log,
                 author, outlived>>

\* 429, 5xx, or no answer at all, the message stored or not.
FlushFails(m) ==
  /\ flush.as # None /\ m \in flush.rows
  /\ \/ UNCHANGED log
     \/ Store({m}, flush.as)
  /\ flush' = Asleep
  /\ UNCHANGED <<user, owner, open, up, page, queue, net, faults, author, gone, outlived>>

-----------------------------------------------------------------------------
(* The server and the connection. *)

\* convertAndSendToUser: an answer reaches the user's session of the moment, if any.
Answer(f, a) == net' = (net \ {f}) \cup (IF up /\ user = f.as THEN {a} ELSE {})

\* A connection that drops takes the answers in flight with it, and any of the
\* frames the server has yet to handle.
DropFrames ==
  \E kept \in SUBSET {f \in net : f.kind \in {"send", "sync"}} : net' = kept

\* StompController.send for a stored message, a duplicate included.
ServerAccepts(f) ==
  /\ f \in net /\ f.kind = "send"
  /\ Store({f.msg}, f.as)
  /\ Answer(f, [kind |-> "ack", msg |-> f.msg, try |-> f.try, as |-> f.as, verdict |-> "ok"])
  /\ UNCHANGED <<user, owner, open, up, page, queue, flush, faults, author, gone, outlived>>

\* It answers an error; access and rate limit come before the duplicate check.
ServerDeclines(f) ==
  /\ f \in net /\ f.kind = "send" /\ faults < MaxFaults
  /\ faults' = faults + 1
  /\ \E v \in {"refused", "fault"} :
       Answer(f, [kind |-> "ack", msg |-> f.msg, try |-> f.try, as |-> f.as, verdict |-> v])
  /\ UNCHANGED <<user, owner, open, up, page, queue, flush, log, author, gone, outlived>>

\* StompController.sync: a result per item; one batch may decline several.
ServerSyncs(f) ==
  /\ f \in net /\ f.kind = "sync"
  /\ \E ok \in SUBSET f.msgs :
       /\ ok # f.msgs => faults < MaxFaults
       /\ faults' = IF ok = f.msgs THEN faults ELSE faults + 1
       /\ Store(ok, f.as)
       /\ Answer(f, [kind |-> "results", msgs |-> ok, as |-> f.as])
  /\ UNCHANGED <<user, owner, open, up, page, queue, flush, author, gone, outlived>>

\* onConnect; ChatroomPage's handleConnect drains.
Connect ==
  /\ open /\ user # None /\ ~up
  /\ up' = TRUE
  /\ reading' = IF reading < MaxDrains THEN reading + 1 ELSE reading
  /\ UNCHANGED <<user, owner, open, page, outbox, listening, removing, flush, net, server,
                 author, gone, outlived>>

Disconnect ==
  /\ up
  /\ up' = FALSE
  /\ DropFrames
  /\ UNCHANGED <<user, owner, open, page, queue, flush, server, author, gone, outlived>>

-----------------------------------------------------------------------------
(* Tabs and sessions. *)

CloseTab ==
  /\ open
  /\ open' = FALSE
  /\ up' = FALSE
  /\ call' = [m \in Msg |-> IF Live(m) THEN "cut" ELSE call[m]]
  /\ gone' = gone \cup InCall
  /\ registered' = {}
  /\ reading' = 0
  /\ listening' = {}
  /\ removing' = {}
  /\ DropFrames
  /\ UNCHANGED <<user, owner, retries, orphan, result, outbox, flush, server, author, outlived>>

OpenTab ==
  /\ ~open
  /\ open' = TRUE
  /\ UNCHANGED <<user, owner, up, page, queue, flush, net, server, author, gone, outlived>>

\* handleLogout: disconnect() clears pendingAcks without calling back, so a send
\* that waits never resolves; retry timers and the enqueue go on.
SignOut ==
  /\ open /\ user # None
  /\ user' = None
  /\ up' = FALSE
  /\ registered' = {}
  /\ orphan' = orphan \cup InCall
  /\ gone' = gone \cup {m \in Msg : call[m] = "waiting"}
  /\ reading' = 0
  /\ listening' = {}
  /\ DropFrames
  /\ UNCHANGED <<owner, open, call, retries, result, outbox, removing, flush, server,
                 author, outlived>>

\* Faulty variant: as before DeviceOwner, the queue inherited.
InheritQueue(a) ==
  /\ owner' = a
  /\ outlived' = IF owner \in {None, a} THEN outlived ELSE outlived \cup InCall \cup flush.rows
  /\ UNCHANGED <<outbox, gone>>

\* DeviceOwner.claim: an account switch wipes the queue.
Claim(a) ==
  /\ owner' = a
  /\ IF owner \in {None, a}
       THEN UNCHANGED <<outbox, gone, outlived>>
       ELSE /\ outbox' = {}
            /\ gone' = gone \cup outbox
            /\ outlived' = outlived \cup InCall \cup flush.rows

SignIn(a) ==
  /\ open /\ user = None
  /\ user' = a
  /\ Claim(a)
  /\ UNCHANGED <<open, up, page, reading, listening, removing, flush, net, server, author>>

-----------------------------------------------------------------------------
Page(m)  == Compose(m) \/ AckTimeout(m) \/ BackoffFires(m) \/ Saved(m) \/ RemoveRow(m)
Worker(m) == FlushAccepted(m) \/ FlushRefused(m) \/ FlushFails(m)
Wire(f)  == \/ ServerAccepts(f) \/ ServerDeclines(f) \/ ServerSyncs(f)
            \/ ReceiveAck(f) \/ ReceiveResults(f)
Session  == \/ Connect \/ Disconnect \/ Mount \/ CloseTab \/ OpenTab \/ SignOut
            \/ \E a \in Account : SignIn(a)

Next ==
  \/ \E m \in Msg : Page(m) \/ Worker(m)
  \/ \E f \in net : Wire(f)
  \/ ReadQueue \/ StartFlush \/ FlushToken
  \/ Session

Spec == Init /\ [][Next]_vars

\* Timers fire, IndexedDB answers, the client reconnects, the browser retries its
\* sync events.  A connection that comes back again and again lasts, again and
\* again, until the queue is read, and until the server has handled the batch; a
\* flush that is retried again and again is accepted in the end.
Fairness ==
  /\ \A m \in Msg : /\ WF_vars(AckTimeout(m) \/ BackoffFires(m) \/ Saved(m))
                     /\ WF_vars(RemoveRow(m))
                     /\ SF_vars(FlushAccepted(m))
  /\ WF_vars(Connect) /\ WF_vars(ReadQueue) /\ SF_vars(ReadQueue /\ up)
  /\ SF_vars(\E f \in net : ServerSyncs(f))
  /\ WF_vars(StartFlush) /\ WF_vars(FlushToken)

FairSpec == Spec /\ Fairness

-----------------------------------------------------------------------------
(* Properties. *)

\* A composed message is never silently lost: it is stored, queued, still being
\* sent, refused to its author's face, or was given up for a reason gone records
\* (the tab closed or the user signed out in mid-send, the queue was wiped for
\* another account, the worker's row was refused).
NothingLost ==
  \A m \in Msg : author[m] # None =>
    \/ log[m] # None
    \/ m \in outbox
    \/ m \in registered \/ call[m] \in {"backoff", "saving"}
    \/ result[m] = "refused"
    \/ m \in gone

\* A message is stored under the account that wrote it, unless its send or the
\* worker's flush was under way while another account signed in.
SentByItsAuthor ==
  \A m \in Msg : log[m] \in {None, author[m]} \/ m \in outlived

\* What the interface says is so: "sent" is stored, and a row is on its way out of
\* the queue only if the server has the message.
AnswersTrue ==
  /\ \A m \in Msg : result[m] = "sent" => log[m] # None
  /\ \A m \in removing : log[m] # None

\* send() resolves, unless its tab is closed or its user signs out.
EverySendSettles ==
  \A m \in Msg : Live(m) ~> (call[m] = "settled" \/ m \in gone)

\* A queued message reaches the log or is refused: while a tab stays open and drains
\* start again and again (a row queued while connected waits for the next one), and
\* also when no tab is opened any more.
Attended   == <>[](open /\ user # None) /\ []<>(reading > 0)
Unattended == <>[](~open /\ user # None)
QueueDrains ==
  Attended \/ Unattended =>
    \A m \in Msg : m \in outbox ~> (log[m] # None \/ m \notin outbox)

\* A send is accounted for: nothing composed disappears, and what the sender is told of
\* it is so.
SendsAccounted == TypeOK /\ NothingLost /\ AnswersTrue

\* A send ends: it is answered, and what it left in the queue reaches the server.
SendsEnd == EverySendSettles /\ QueueDrains
=============================================================================
