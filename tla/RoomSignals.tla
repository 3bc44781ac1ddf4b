---------------------------- MODULE RoomSignals ----------------------------
(***************************************************************************)
(* What the members of a room see of each other: the receipts behind the   *)
(* ticks of a message, and who is typing.  Each person has one page on the *)
(* room; the server keeps message_status and, in Redis and in its sweep's  *)
(* index, who is typing.  What a page asks is handled on a pool and what   *)
(* the server fans out is sent on one, so both arrive in any order; what   *)
(* is fanned out while a socket is down is lost to it.                     *)
(*                                                                         *)
(* How the list of messages comes together is RoomView's concern: here a   *)
(* page's load and its catch-up are answered at once.                      *)
(***************************************************************************)
EXTENDS Naturals, Sequences, FiniteSets

CONSTANTS
  Person,
  Limits   \* bounds: messages sent, keystrokes told, frames on their way to the pages when
           \* another message or receipt is, and connections lost or pages mounted anew

VARIABLES
  limit,     \* which of the Limits this behaviour keeps to
  log,       \* the author of the message in each slot
  status,    \* message_status: who has a receipt for which slot, by its columns
  owned,     \* typingOwned: whose typing the sweep watches
  relays,    \* typing() calls that have kept the key and not yet told the room
  unnoticed, \* sockets lost that the server takes to be up
  up,        \* whose socket is connected
  rows,      \* the rows each page shows, with readBy and deliveredTo
  bubble,    \* each page's pending message: is there one, its slot once it has one, readBy
  latest,    \* latestSeqRef
  bottom,    \* isAtBottomRef: who is at the bottom
  typingUsers,
  armed,     \* whose stopTyping timer runs
  asks,      \* frames on their way to the server
  wire,      \* frames on their way to the pages
  typed,     \* keystrokes told so far
  drops,     \* connections lost and pages mounted so far
  looked,    \* history: the highest slot each page has reached at the bottom
  had,       \* history: slots each page was sent the message of
  orphans    \* history: whose indicator, and where, nothing is left to take away

server  == <<log, status, owned, relays, unnoticed>>
page    == <<up, rows, bubble, latest, bottom>>
typing  == <<typingUsers, armed, typed>>
history == <<looked, had, orphans>>
signals == <<limit, server, page, typing, asks, wire, drops, history>>

NoBubble == [on |-> FALSE, slot |-> 0, readBy |-> {}]

InitSignals ==
  /\ limit \in Limits
  /\ log = <<>> /\ status = [read |-> {}, delivered |-> {}]
  /\ owned = {} /\ relays = {} /\ unnoticed = {}
  /\ up = Person /\ rows = [p \in Person |-> <<>>] /\ bubble = [p \in Person |-> NoBubble]
  /\ latest = [p \in Person |-> 0] /\ bottom = Person
  /\ typingUsers = [p \in Person |-> {}] /\ armed = {} /\ typed = 0
  /\ asks = {} /\ wire = {} /\ drops = 0
  /\ looked = [p \in Person |-> 0] /\ had = {} /\ orphans = {}

-----------------------------------------------------------------------------
(* Frames. *)

Greater(a, b) == IF a > b THEN a ELSE b
Frame(kind, by, slot, who) == [kind |-> kind, by |-> by, slot |-> slot, who |-> who]

\* publish: nothing is sent without a connection.
Told(p, kind, slot) == IF p \in up THEN {Frame(kind, p, slot, {})} ELSE {}
\* RedisFanout.toRoom: to the sockets there are.
Uncrowded == Cardinality(wire) < limit.wire
FanOut(f) == {[to |-> q, frame |-> f] : q \in up}
\* A page at the bottom tells what it has read up to.
MarkRead(p, slot) == IF slot > 0 THEN Told(p, "read", slot) ELSE {}

Receipts(pairs, i) == {p \in Person : <<i, p>> \in pairs}
Fresh(i) == [readBy |-> {}, deliveredTo |-> Receipts(status.delivered, i)]
\* mapRawMessage of a stored message.
Loaded(i) == [readBy |-> Receipts(status.read, i), deliveredTo |-> Receipts(status.delivered, i)]
\* A delta sync carries no receipts.
Synced == [readBy |-> {}, deliveredTo |-> {}]
With(shown, S, Row(_)) == [i \in DOMAIN shown \cup S |-> IF i \in S THEN Row(i) ELSE shown[i]]

-----------------------------------------------------------------------------
(* Sending. *)

\* sendMessage: a pending bubble, and no longer typing.
Compose(p) ==
  /\ ~bubble[p].on /\ Len(log) < limit.log
  /\ bubble' = [bubble EXCEPT ![p] = [NoBubble EXCEPT !.on = TRUE]]
  /\ armed' = armed \ {p}
  /\ asks' = asks \cup Told(p, "stop", 0)
  /\ UNCHANGED <<server, up, rows, latest, bottom, typingUsers, typed, wire, drops, history>>

\* The message is stored, and on(MessageSent) tells the room.
Posted(p) ==
  /\ bubble[p].on /\ bubble[p].slot = 0 /\ Len(log) < limit.log /\ Uncrowded
  /\ log' = Append(log, p)
  /\ bubble' = [bubble EXCEPT ![p].slot = Len(log')]
  /\ wire' = wire \cup FanOut(Frame("new", p, Len(log'), {}))
  /\ UNCHANGED <<status, owned, relays, unnoticed, up, rows, latest, bottom, typing, asks, drops, history>>

\* handleNewMessage: the echo of the pending bubble takes its place, receipts and all.
NewMessage(q, f) ==
  LET mine == bubble[q].on /\ bubble[q].slot = f.slot
      known == f.slot \in DOMAIN rows[q]
  IN
  /\ latest' = [latest EXCEPT ![q] = Greater(@, f.slot)]
  /\ rows' = IF known THEN rows ELSE [rows EXCEPT ![q] = With(@, {f.slot}, Fresh)]
  /\ bubble' = IF mine /\ ~known THEN [bubble EXCEPT ![q] = NoBubble] ELSE bubble
  /\ asks' = asks \cup (IF q \in bottom THEN MarkRead(q, f.slot) ELSE {})
                  \cup (IF f.by # q THEN Told(q, "delivered", f.slot) ELSE {})
  /\ looked' = IF q \in bottom THEN [looked EXCEPT ![q] = Greater(@, f.slot)] ELSE looked
  /\ had' = had \cup {<<f.slot, q>>}
  /\ UNCHANGED <<typingUsers, orphans>>

-----------------------------------------------------------------------------
(* Receipts. *)

\* MessageService.markRead, and on(MessageRead).
ServeRead(a) ==
  LET S == {i \in DOMAIN log : i <= a.slot /\ log[i] # a.by} \X {a.by} IN
  /\ a \in asks /\ a.kind = "read" /\ Uncrowded
  /\ asks' = asks \ {a}
  /\ status' = [read |-> status.read \cup S, delivered |-> status.delivered \cup S]
  /\ wire' = wire \cup FanOut(a)
  /\ UNCHANGED <<log, owned, relays, unnoticed, page, typing, drops, history>>

\* MessageService.markDelivered, and on(MessageDelivered), which looks all of them up.
ServeDelivered(a) ==
  /\ a \in asks /\ a.kind = "delivered" /\ Uncrowded
  /\ asks' = asks \ {a}
  /\ status' = [status EXCEPT !.delivered = @ \cup {<<a.slot, a.by>>}]
  /\ wire' = wire \cup FanOut([a EXCEPT !.who = Receipts(status'.delivered, a.slot)])
  /\ UNCHANGED <<log, owned, relays, unnoticed, page, typing, drops, history>>

\* Faulty variant: the rows a receipt is for are not told from the later ones.
CoversAll(shown, upTo) == DOMAIN shown
\* The rows up to a slot.
Covers(shown, upTo) == {i \in DOMAIN shown : i <= upTo}

\* handleMessagesRead: the rows up to the slot, and the pending one, whose number is 0.
MessagesRead(q, f) ==
  /\ LET Noted(i) == [rows[q][i] EXCEPT !.readBy = @ \cup {f.by}]
     IN rows' = [rows EXCEPT ![q] = With(@, Covers(@, f.slot), Noted)]
  /\ bubble' = IF bubble[q].on THEN [bubble EXCEPT ![q].readBy = @ \cup {f.by}] ELSE bubble
  /\ UNCHANGED <<latest, typingUsers, asks, looked, had, orphans>>

\* handleDeliveryUpdate.
DeliveryUpdate(q, f) ==
  /\ rows' = IF f.slot \in DOMAIN rows[q]
               THEN [rows EXCEPT ![q][f.slot].deliveredTo = f.who] ELSE rows
  /\ UNCHANGED <<bubble, latest, typingUsers, asks, looked, had, orphans>>

\* handleScrollMeta.
Scroll(p) ==
  /\ bottom' = IF p \in bottom THEN bottom \ {p} ELSE bottom \cup {p}
  /\ asks' = IF p \in bottom THEN asks ELSE asks \cup MarkRead(p, latest[p])
  /\ looked' = IF p \in bottom THEN looked ELSE [looked EXCEPT ![p] = Greater(@, latest[p])]
  /\ UNCHANGED <<server, up, rows, bubble, latest, typing, wire, drops, had, orphans>>

\* DeliveryTick, of an own message.
Tick(q, i) ==
  IF rows[q][i].readBy # {} THEN "read"
  ELSE IF \E r, s \in rows[q][i].deliveredTo : r # s THEN "delivered" ELSE "sent"

-----------------------------------------------------------------------------
(* Typing. *)

\* handleTyping.
Type(p) ==
  /\ typed < limit.typed
  /\ typed' = typed + 1
  /\ armed' = armed \cup {p}
  /\ asks' = asks \cup Told(p, "typing", 0)
  /\ UNCHANGED <<server, page, typingUsers, wire, drops, history>>

\* Two seconds without a keystroke.
StopTyping(p) ==
  /\ p \in armed
  /\ armed' = armed \ {p}
  /\ asks' = asks \cup Told(p, "stop", 0)
  /\ UNCHANGED <<server, page, typingUsers, typed, wire, drops, history>>

\* PresenceGateway.typing keeps the key first, and then looks the name up.
TypingStarted(a) ==
  /\ a \in asks /\ a.kind = "typing" /\ a.by \notin relays
  /\ asks' = asks \ {a}
  /\ owned' = owned \cup {a.by}
  /\ relays' = relays \cup {a.by}
  /\ UNCHANGED <<log, status, unnoticed, page, typing, wire, drops, history>>

\* ... and tells the room; the sweep or a stop may have come between.
Relay(p) ==
  /\ p \in relays
  /\ relays' = relays \ {p}
  /\ wire' = wire \cup FanOut(Frame("typing", p, 0, {}))
  /\ orphans' = IF p \in owned THEN orphans ELSE orphans \cup (Person \X {p})
  /\ UNCHANGED <<log, status, owned, unnoticed, page, typing, asks, drops, looked, had>>

\* The room is told of a stop; who is not connected will not know.
Stop(p) ==
  /\ owned' = owned \ {p}
  /\ wire' = wire \cup FanOut(Frame("stop", p, 0, {}))
  /\ orphans' = orphans \cup ((Person \ up) \X {p})

\* PresenceGateway.stopTyping.
ServeStop(a) ==
  /\ a \in asks /\ a.kind = "stop" /\ Uncrowded
  /\ asks' = asks \ {a}
  /\ Stop(a.by)
  /\ UNCHANGED <<log, status, relays, unnoticed, page, typing, drops, looked, had>>

\* Faulty variant: the sweep forgets the key and raises no TypingExpired.
SweepQuietly(p) ==
  /\ p \in owned
  /\ owned' = owned \ {p}
  /\ UNCHANGED <<log, status, relays, unnoticed, page, typing, asks, wire, drops, history>>

\* sweepTyping, once the key has expired: after 4 seconds.
Sweep(p) ==
  /\ p \in owned
  /\ Stop(p)
  /\ UNCHANGED <<log, status, relays, unnoticed, page, typing, asks, drops, looked, had>>

\* handleUserTyping leaves one's own out.
UserTyping(q, f) ==
  /\ typingUsers' = IF f.by = q THEN typingUsers ELSE [typingUsers EXCEPT ![q] = @ \cup {f.by}]
  /\ UNCHANGED <<rows, bubble, latest, asks, looked, had, orphans>>

\* handleStopTyping; a typing frame that it has overtaken comes after it.
UserStopTyping(q, f) ==
  LET overtaken == [to |-> q, frame |-> [f EXCEPT !.kind = "typing"]] \in wire IN
  /\ typingUsers' = [typingUsers EXCEPT ![q] = @ \ {f.by}]
  /\ orphans' = IF overtaken THEN orphans \cup {<<q, f.by>>} ELSE orphans \ {<<q, f.by>>}
  /\ UNCHANGED <<rows, bubble, latest, asks, looked, had>>

-----------------------------------------------------------------------------
(* Connections. *)

Receive(m) ==
  /\ m \in wire /\ m.to \in up
  /\ wire' = wire \ {m}
  /\ CASE m.frame.kind = "new"       -> NewMessage(m.to, m.frame)
       [] m.frame.kind = "read"      -> MessagesRead(m.to, m.frame)
       [] m.frame.kind = "delivered" -> DeliveryUpdate(m.to, m.frame)
       [] m.frame.kind = "typing"    -> UserTyping(m.to, m.frame)
       [] m.frame.kind = "stop"      -> UserStopTyping(m.to, m.frame)
  /\ UNCHANGED <<server, up, bottom, armed, typed, drops>>

\* What is on its way to the page is lost, what it sent may be.
Drop(p) ==
  /\ p \in up /\ drops < limit.drops
  /\ drops' = drops + 1
  /\ up' = up \ {p}
  /\ unnoticed' = unnoticed \cup {p}
  /\ wire' = {m \in wire : m.to # p}
  /\ \/ UNCHANGED asks
     \/ asks' = {a \in asks : a.by # p}
  /\ orphans' = orphans \cup {<<p, q>> : q \in {r \in Person :
                  [to |-> p, frame |-> Frame("stop", r, 0, {})] \in wire}}
  /\ UNCHANGED <<log, status, owned, relays, rows, bubble, latest, bottom, typing, looked, had>>

\* onDisconnected: clearTyping tells nobody.
Disconnected(p) ==
  /\ p \in unnoticed
  /\ unnoticed' = unnoticed \ {p}
  /\ owned' = owned \ {p}
  /\ orphans' = IF p \in owned THEN orphans \cup (Person \X {p}) ELSE orphans
  /\ UNCHANGED <<log, status, relays, page, typing, asks, wire, drops, looked, had>>

\* handleConnect: catchUpAfterReconnect, if anything was ever loaded.
Reconnect(p) ==
  /\ p \notin up
  /\ up' = up \cup {p}
  /\ rows' = IF latest[p] = 0 THEN rows
             ELSE [rows EXCEPT ![p] = With(@, (latest[p] + 1..Len(log)) \ DOMAIN @, LAMBDA i : Synced)]
  /\ latest' = IF latest[p] = 0 THEN latest ELSE [latest EXCEPT ![p] = Len(log)]
  /\ UNCHANGED <<server, bubble, bottom, typing, asks, wire, drops, history>>

\* The page is left and opened again: loadInitial, and the first load marks all as read.
Mount(p) ==
  /\ p \in up /\ drops < limit.drops
  /\ drops' = drops + 1
  /\ rows' = [rows EXCEPT ![p] = With(<<>>, DOMAIN log, Loaded)]
  /\ bubble' = [bubble EXCEPT ![p] = NoBubble]
  /\ latest' = [latest EXCEPT ![p] = Len(log)]
  /\ bottom' = bottom \cup {p}
  /\ typingUsers' = [typingUsers EXCEPT ![p] = {}]
  /\ asks' = asks \cup MarkRead(p, Len(log))
  /\ wire' = {m \in wire : m.to # p}
  /\ looked' = [looked EXCEPT ![p] = Len(log)]
  /\ orphans' = {o \in orphans : o[1] # p}
  /\ UNCHANGED <<server, up, armed, typed, had>>

Steps(p) ==
  \/ Compose(p) \/ Posted(p) \/ Scroll(p)
  \/ Type(p) \/ StopTyping(p) \/ Relay(p) \/ Sweep(p)
  \/ Drop(p) \/ Disconnected(p) \/ Reconnect(p) \/ Mount(p)
Serve(a) == ServeRead(a) \/ ServeDelivered(a) \/ TypingStarted(a) \/ ServeStop(a)

NextSignals ==
  /\ UNCHANGED limit
  /\ (\E p \in Person : Steps(p)) \/ (\E a \in asks : Serve(a)) \/ (\E m \in wire : Receive(m))

SpecSignals == InitSignals /\ [][NextSignals]_signals

-----------------------------------------------------------------------------
(* Properties. *)

\* A receipt on a message is true: who is listed as its reader has had the room open at
\* the bottom with that message, or a later one, on display; who is listed as having it
\* was sent it, or has read that far.  The author's own entry says nothing.
TicksTrue ==
  \A q \in Person : \A i \in DOMAIN rows[q] :
    /\ \A r \in rows[q][i].readBy \ {log[i]} : looked[r] >= i
    /\ \A r \in rows[q][i].deliveredTo : <<i, r>> \in had \/ looked[r] >= i

\* Nothing on its way, no timer and no sweep is left to take p's indicator away.
Settled(q, p) ==
  /\ p \notin owned \cup relays \cup armed
  /\ \A a \in asks : a.by # p
  /\ \A m \in wire : m.to # q \/ m.frame.by # p

\* Who has stopped typing is no longer shown as typing, whether the stop came from the
\* timer, a send, or the server's sweep, unless the socket was lost while typing, the
\* stop was fanned out while the other page was not connected, or the stop overtook
\* the typing on its way.
TypingEnds ==
  \A q, p \in Person : Settled(q, p) /\ p \in typingUsers[q] => <<q, p>> \in orphans
=============================================================================
