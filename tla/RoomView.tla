------------------------------ MODULE RoomView ------------------------------
(***************************************************************************)
(* What one room page shows: the message list of ChatroomPage, fed by its  *)
(* initial load, the pages loaded while scrolling up, the live frames of   *)
(* the room topic, the delta sync after a reconnect (deltaSync), the       *)
(* answers of the page's own REST calls, and the bubbles of its own sends. *)
(*                                                                         *)
(* A request is answered from the room as it is then and its answer is     *)
(* applied later; frames arrive in any order (the fan-out runs on a pool)  *)
(* and only while the socket is connected, which is when the topic is      *)
(* subscribed (stompSocket replays the joins on every connect).  What      *)
(* send() returns is ClientDelivery's concern: here it may be anything.    *)
(* One attribute stands for all that is patched in place (text, reactions, *)
(* pin).  Left out: receipts, typing, search, other rooms.                 *)
(***************************************************************************)
EXTENDS Naturals, Sequences, FiniteSetsExt, Lists

CONSTANTS
  OwnCid,      \* client ids of this tab's sends
  NoCid,       \* no client id
  MaxSeq,      \* bound: messages ever posted to the room
  PageSize,    \* MESSAGES_PER_PAGE (50 in the code)
  SyncMax,     \* maxPerRoom of a sync (200)
  PageLimits,  \* numbers of pages a catch-up may follow (20)
  MaxChanges   \* bound: messages edited or deleted

ASSUME RoomViewAssumption ==
  /\ NoCid \notin OwnCid
  /\ MaxChanges \in Nat
  /\ {MaxSeq, PageSize, SyncMax} \cup PageLimits \subseteq Nat \ {0}

VARIABLES
  slots,    \* the room: the client id of the message in each slot
  dead,     \* deleted messages
  patched,  \* messages whose attribute has been changed
  online,   \* client.connected, so the room topic is subscribed
  coming,   \* frames and REST answers about single messages in flight
  list,     \* messages
  seen,     \* latestSeqRef
  cursor,   \* cursorRef
  load,     \* the initial load
  older,    \* loadOlder
  catch,    \* catchUpAfterReconnect
  sending,  \* own sends whose result is awaited
  delivery, \* deliveryStatus
  erased,   \* history: messages this page has removed
  stale,    \* history: those of them that an answer or frame in flight still held
  synced,   \* history: own messages shown by a delta sync, which names no client id
  late,     \* history: messages that came by a frame or a sync although older than the cursor
  skipped   \* history: messages the watermark has passed unlisted (see NoGapBelow)

shared == <<slots, dead, patched>>
hist == <<erased, stale, synced, late, skipped>>
pageVars ==
  <<shared, online, coming, list, seen, cursor, load, older, catch, sending, delivery, hist>>

Id == 1..MaxSeq
Entry == [id : 0..MaxSeq, cid : OwnCid \cup {NoCid}, pending : BOOLEAN, mark : BOOLEAN]
Row(i) == [id |-> i, cid |-> NoCid, pending |-> FALSE, mark |-> i \in patched]
Frame == [kind : {"new", "patch", "delete"}, id : Id]

Alive == (DOMAIN slots) \ dead
Stored(c) == \E i \in DOMAIN slots : slots[i] = c
Changes == Cardinality(dead) + Cardinality(patched)
Has(s, i) == \E k \in DOMAIN s : s[k].id = i

RoomTypeOK ==
  /\ slots \in Seq(OwnCid \cup {NoCid}) /\ Len(slots) <= MaxSeq
  /\ dead \subseteq DOMAIN slots
  /\ patched \subseteq DOMAIN slots
  /\ online \in BOOLEAN
  /\ coming \subseteq Frame
  /\ \A f \in coming : f.id \in DOMAIN slots
  /\ list \in Seq(Entry)
  /\ seen \in 0..Len(slots)
  /\ cursor \in [next : 0..MaxSeq, more : BOOLEAN]
  /\ load.at \in {"asked", "answered", "done"} /\ load.rows \in Seq(Entry)
  /\ older.at \in {"off", "asked", "answered"} /\ older.rows \in Seq(Entry)
  /\ catch.at \in {"off", "due", "paging", "answered"} /\ catch.rows \in Seq(Entry)
  /\ catch.from \in 0..MaxSeq /\ catch.high \in 0..MaxSeq /\ catch.left \in Nat
  /\ sending \subseteq OwnCid
  /\ delivery \in [OwnCid -> {"none", "sending", "sent", "queued"}]
  /\ \A h \in {erased, stale, synced, late, skipped} : h \subseteq Id

NoAnswer == [at |-> "off", rows |-> <<>>, next |-> 0, more |-> FALSE]
NoCatch  == [at |-> "off", from |-> 0, rows |-> <<>>, high |-> 0, left |-> 0]

\* The page has just mounted on a room that may hold messages already.
InitRoom ==
  /\ slots \in {<<>>, <<NoCid>>}
  /\ dead = {}
  /\ patched = {}
  /\ online \in BOOLEAN
  /\ coming = {}
  /\ list = <<>>
  /\ seen = 0
  /\ cursor = [next |-> 0, more |-> FALSE]
  /\ load = [NoAnswer EXCEPT !.at = "asked"]
  /\ older = NoAnswer
  /\ catch = NoCatch
  /\ sending = {}
  /\ delivery = [c \in OwnCid |-> "none"]
  /\ erased = {}
  /\ stale = {}
  /\ synced = {}
  /\ late = {}
  /\ skipped = {}

-----------------------------------------------------------------------------
(* The server: rows in sequence order, and what it fans out. *)

RowsOf(S) == LET order == Ascending(S) IN [k \in DOMAIN order |-> Row(order[k])]
Smallest(S, n) == {i \in S : Cardinality({j \in S : j < i}) < n}
Largest(S, n)  == {i \in S : Cardinality({j \in S : j > i}) < n}

\* MessageService.history: the newest page before a slot.
History(before) ==
  LET S == {i \in Alive : i < before}
      P == Largest(S, PageSize)
      more == P # S
  IN [at |-> "answered", rows |-> RowsOf(P), next |-> IF more THEN Min(P) ELSE 0,
      more |-> more]

Frames(kind, i, reach) == IF reach THEN {[kind |-> kind, id |-> i]} ELSE {}

\* A message of somebody else, or an own one that reaches the log.
Posted(c) ==
  /\ Len(slots) < MaxSeq
  /\ c # NoCid => delivery[c] # "none" /\ ~Stored(c)
  /\ slots' = Append(slots, c)
  /\ coming' = coming \cup Frames("new", Len(slots) + 1, online)
  /\ UNCHANGED <<dead, patched, online, list, seen, cursor, load, older, catch, sending, delivery, hist>>

\* handleSaveEdit, handleReact, handlePin, and the same by other members.  An own
\* change comes back twice, by its REST answer and by the topic; the page treats the
\* two alike and one stands for both.
Patch(i, mine) ==
  /\ Changes < MaxChanges /\ i \in Alive \ patched
  /\ patched' = patched \cup {i}
  /\ coming' = coming \cup Frames("patch", i, online \/ mine)
  /\ UNCHANGED <<slots, dead, online, list, seen, cursor, load, older, catch, sending, delivery, hist>>

\* handleConfirmDelete, and the same by other members.
Delete(i, mine) ==
  /\ Changes < MaxChanges /\ i \in Alive
  /\ dead' = dead \cup {i}
  /\ coming' = coming \cup Frames("delete", i, online \/ mine)
  /\ UNCHANGED <<slots, patched, online, list, seen, cursor, load, older, catch, sending, delivery, hist>>

Disconnect ==
  /\ online
  /\ online' = FALSE
  /\ \E answers \in SUBSET {f \in coming : f.kind # "new"} : coming' = answers
  /\ skipped' = skipped \cup {i \in 1..seen : \E f \in coming : f.kind = "new" /\ f.id = i}
  /\ UNCHANGED <<shared, list, seen, cursor, load, older, catch, sending, delivery, erased, stale,
                 synced, late>>

\* handleConnect: the catch-up comes after the drain.
Connect ==
  /\ ~online
  /\ online' = TRUE
  /\ catch' = IF catch.at = "off" THEN [NoCatch EXCEPT !.at = "due"] ELSE catch
  /\ UNCHANGED <<shared, coming, list, seen, cursor, load, older, sending, delivery, hist>>

-----------------------------------------------------------------------------
(* Loads. *)

LoadAnswered ==
  /\ load.at = "asked"
  /\ load' = History(MaxSeq + 1)
  /\ UNCHANGED <<shared, online, coming, list, seen, cursor, older, catch, sending, delivery, hist>>

Newest(rows) == IF rows = <<>> THEN 0 ELSE Max({rows[k].id : k \in DOMAIN rows})

\* loadInitial replaces the whole list.
LoadApplied ==
  /\ load.at = "answered"
  /\ list' = load.rows
  /\ seen' = Max({seen, Newest(load.rows)})
  /\ cursor' = [next |-> load.next, more |-> load.more]
  /\ load' = [NoAnswer EXCEPT !.at = "done"]
  /\ skipped' = skipped \cup {i \in (Newest(load.rows) + 1)..seen : Has(list, i)}
  /\ UNCHANGED <<shared, online, coming, older, catch, sending, delivery, erased, stale, synced, late>>

LoadFails ==
  /\ load.at = "asked"
  /\ load' = [NoAnswer EXCEPT !.at = "done"]
  /\ UNCHANGED <<shared, online, coming, list, seen, cursor, older, catch, sending, delivery, hist>>

OlderAsked ==
  /\ cursor.more /\ older.at = "off"
  /\ older' = [NoAnswer EXCEPT !.at = "asked"]
  /\ UNCHANGED <<shared, online, coming, list, seen, cursor, load, catch, sending, delivery, hist>>

OlderAnswered ==
  /\ older.at = "asked"
  /\ older' = History(cursor.next)
  /\ UNCHANGED <<shared, online, coming, list, seen, cursor, load, catch, sending, delivery, hist>>

OlderApplied ==
  /\ older.at = "answered"
  /\ list' = older.rows \o list
  /\ cursor' = [next |-> older.next, more |-> older.more]
  /\ older' = NoAnswer
  /\ UNCHANGED <<shared, online, coming, seen, load, catch, sending, delivery, hist>>

OlderFails ==
  /\ older.at = "asked"
  /\ older' = NoAnswer
  /\ UNCHANGED <<shared, online, coming, list, seen, cursor, load, catch, sending, delivery, hist>>

-----------------------------------------------------------------------------
(* Catching up. *)

\* The drain is over; nothing loaded yet means the initial load covers it.
CatchStart ==
  /\ catch.at = "due"
  /\ \E n \in PageLimits :
       catch' = IF seen = 0 THEN NoCatch
                ELSE [at |-> "paging", from |-> seen, rows |-> <<>>, high |-> seen, left |-> n]
  /\ UNCHANGED <<shared, online, coming, list, seen, cursor, load, older, sending, delivery, hist>>

\* catchUpRoom: one page, oldest first; the watermark of a page with more behind it
\* is the room's highest slot, that of a last page its own.
CatchPage ==
  /\ catch.at = "paging"
  /\ LET S == {i \in Alive : i > catch.from}
         P == Smallest(S, SyncMax)
         more == P # S
         from == IF P = {} THEN catch.from ELSE Max(P)
     IN catch' = [at   |-> IF more /\ catch.left > 1 THEN "paging" ELSE "answered",
                  from |-> from,
                  rows |-> catch.rows \o RowsOf(P),
                  high |-> IF more THEN Max(S) ELSE from,
                  left |-> IF more /\ catch.left > 1 THEN catch.left - 1 ELSE 0]
  /\ UNCHANGED <<shared, online, coming, list, seen, cursor, load, older, sending, delivery, hist>>

\* On a page loadOlder will still prepend.
Behind(i) == cursor.more /\ i < cursor.next

Fresh(rows) == Kept(rows, {k \in DOMAIN rows : ~Has(list, rows[k].id)})

\* A stable sort: bubbles, which have no sequence number yet, go first.
NotAfter(s) ==
  [j \in DOMAIN s |-> {k \in DOMAIN s : s[k].id < s[j].id \/ (s[k].id = s[j].id /\ k <= j)}]
BySequence(s) == LET order == Ranked(NotAfter(s)) IN [k \in DOMAIN s |-> s[order[k]]]

CatchApplied ==
  /\ catch.at = "answered"
  /\ IF catch.rows = <<>> THEN UNCHANGED <<list, seen, synced, late, skipped>>
     ELSE LET fresh == Fresh(catch.rows)
          IN /\ list' = IF fresh = <<>> THEN list ELSE BySequence(list \o fresh)
             /\ seen' = Max({seen, catch.high})
             /\ synced' = synced \cup {i \in {fresh[k].id : k \in DOMAIN fresh} : slots[i] # NoCid}
             /\ late' = late \cup {i \in {fresh[k].id : k \in DOMAIN fresh} : Behind(i)}
             /\ skipped' = skipped \cup {i \in (catch.from + 1)..catch.high : ~Has(list, i)}
  /\ catch' = NoCatch
  /\ UNCHANGED <<shared, online, coming, cursor, load, older, sending, delivery, erased, stale>>

\* Faulty variant: the watermark of the pages that came is kept although the rows are not.
FailAhead ==
  /\ catch.at = "paging"
  /\ seen' = catch.high
  /\ catch' = NoCatch
  /\ UNCHANGED <<shared, online, coming, list, cursor, load, older, sending, delivery, hist>>

CatchFails ==
  /\ catch.at = "paging"
  /\ catch' = NoCatch
  /\ UNCHANGED <<shared, online, coming, list, seen, cursor, load, older, sending, delivery, hist>>

-----------------------------------------------------------------------------
(* Live frames. *)

\* The entries that are message e: its bubble or itself.
Same(e) == {k \in DOMAIN list : (e.cid # NoCid /\ list[k].cid = e.cid) \/ list[k].id = e.id}
Put(e)  == IF Same(e) = {} THEN Append(list, e) ELSE [list EXCEPT ![Min(Same(e))] = e]

\* Faulty variant: bubbles recognised by the server's id only.
ById(e) == IF Has(list, e.id) THEN list ELSE Append(list, e)

\* handleNewMessage: a message held already stays as it is, a bubble is replaced in
\* place, anything else goes to the end.
Merged(e) == IF Has(list, e.id) THEN list ELSE Put(e)

InFlight(i) == \E f \in coming : f.kind = "new" /\ f.id = i

\* The frame of message i, as MessageView has it when it is fanned out.
NewMessage(f) ==
  /\ f \in coming /\ f.kind = "new"
  /\ LET i == f.id
         c == slots[i]
     IN /\ list' = Merged([id |-> i, cid |-> c, pending |-> FALSE, mark |-> FALSE])
        /\ seen' = Max({seen, i})
        /\ delivery' = IF c = NoCid THEN delivery ELSE [delivery EXCEPT ![c] = "sent"]
        /\ late' = IF Behind(i) THEN late \cup {i} ELSE late
        /\ skipped' = skipped \cup {j \in Alive : seen < j /\ j < i /\ ~InFlight(j)}
  /\ coming' = coming \ {f}
  /\ UNCHANGED <<shared, online, cursor, load, older, catch, sending, erased, stale, synced>>

\* handleEdited, handleReactionUpdated, handlePinned, and the REST answers.
Patched(f) ==
  /\ f \in coming /\ f.kind = "patch"
  /\ list' = [k \in DOMAIN list |-> IF list[k].id = f.id THEN [list[k] EXCEPT !.mark = TRUE]
                                    ELSE list[k]]
  /\ coming' = coming \ {f}
  /\ UNCHANGED <<shared, online, seen, cursor, load, older, catch, sending, delivery, hist>>

\* Faulty variant: only the first entry of the list is looked at.
FirstOnly(i) == IF list # <<>> /\ list[1].id = i THEN Tail(list) ELSE list
Without(i) == Kept(list, {k \in DOMAIN list : list[k].id # i})

\* What is on its way to the page and still holds message i.
HeldFor(i) ==
  \/ InFlight(i)
  \/ Has(load.rows, i) \/ Has(older.rows, i) \/ Has(catch.rows, i)

\* handleDeleted, and the answer of handleConfirmDelete.
Deleted(f) ==
  /\ f \in coming /\ f.kind = "delete"
  /\ list' = Without(f.id)
  /\ coming' = coming \ {f}
  /\ erased' = erased \cup {f.id}
  /\ stale' = IF HeldFor(f.id) THEN stale \cup {f.id} ELSE stale
  /\ UNCHANGED <<shared, online, seen, cursor, load, older, catch, sending, delivery, synced, late,
                 skipped>>

-----------------------------------------------------------------------------
(* Own sends. *)

\* sendMessage: the optimistic bubble.
Compose(c) ==
  /\ delivery[c] = "none" /\ c \notin sending /\ ~Stored(c)
  /\ list' = Append(list, [id |-> 0, cid |-> c, pending |-> TRUE, mark |-> FALSE])
  /\ delivery' = [delivery EXCEPT ![c] = "sending"]
  /\ sending' = sending \cup {c}
  /\ UNCHANGED <<shared, online, coming, seen, cursor, load, older, catch, hist>>

\* A result of sendWithGuarantee that changes nothing: sent (the echo replaces the
\* bubble), or refused for another reason than the rate limit.
SendSettled(c) ==
  /\ c \in sending
  /\ sending' = sending \ {c}
  /\ UNCHANGED <<shared, online, coming, list, seen, cursor, load, older, catch, delivery, hist>>

SendQueued(c) ==
  /\ c \in sending
  /\ sending' = sending \ {c}
  /\ delivery' = [delivery EXCEPT ![c] = "queued"]
  /\ UNCHANGED <<shared, online, coming, list, seen, cursor, load, older, catch, hist>>

\* rate_limited: the bubble is taken back, or the message itself if an earlier attempt
\* was stored and its frame came: both carry the client id.
SendRateLimited(c) ==
  /\ c \in sending
  /\ sending' = sending \ {c}
  /\ list' = Kept(list, {k \in DOMAIN list : list[k].cid # c})
  /\ delivery' = [delivery EXCEPT ![c] = "none"]
  /\ skipped' = skipped \cup ({list[k].id : k \in {j \in DOMAIN list : list[j].cid = c}} \ {0})
  /\ UNCHANGED <<shared, online, coming, seen, cursor, load, older, catch, erased, stale, synced, late>>

-----------------------------------------------------------------------------
Loads == \/ LoadAnswered \/ LoadApplied \/ LoadFails
         \/ OlderAsked \/ OlderAnswered \/ OlderApplied \/ OlderFails
CatchUp == CatchStart \/ CatchPage \/ CatchApplied \/ CatchFails
Live == \E f \in coming : NewMessage(f) \/ Patched(f) \/ Deleted(f)
Others == \/ \E c \in OwnCid \cup {NoCid} : Posted(c)
          \/ \E i \in Id, mine \in BOOLEAN : Patch(i, mine) \/ Delete(i, mine)
          \/ Disconnect \/ Connect
Sends == \E c \in OwnCid : Compose(c) \/ SendSettled(c) \/ SendQueued(c) \/ SendRateLimited(c)

NextRoom == Loads \/ CatchUp \/ Live \/ Others \/ Sends

RoomViewSpec == InitRoom /\ [][NextRoom]_pageVars

-----------------------------------------------------------------------------
(* Properties. *)

\* No message is listed twice, however its load, its frame, its page and the delta
\* sync overlap; the one exception is a message that came by a frame or a sync
\* although it is older than the page's cursor, which loadOlder prepends again.
NoDuplicates ==
  \A j, k \in DOMAIN list :
    j # k /\ list[j].id = list[k].id /\ list[j].id # 0 => list[j].id \in late

\* An own message is shown once: its bubble and the message itself are never listed
\* together, unless the message came by a delta sync, which does not say that it is
\* the bubble's.
OwnMessageOnce ==
  \A j, k \in DOMAIN list :
    list[j].pending /\ list[k].id # 0 /\ slots[list[k].id] = list[j].cid
      => list[k].id \in synced

\* A message the page has removed comes back only if an answer or a frame that was
\* on its way at that moment held it.
RemovedStaysRemoved == \A k \in DOMAIN list : list[k].id \in erased => list[k].id \in stale

\* A change the page shows is not undone by a frame, a page or a sync that is older
\* than the change; only the initial load, which replaces the list, may.
ChangesStick ==
  [][LoadApplied \/
     \A k \in DOMAIN list :
       list[k].mark /\ list[k].id \notin late =>
         \A j \in DOMAIN list' : list'[j].id = list[k].id => list'[j].mark]_pageVars

\* No message below the watermark is missing, which is what lets a catch-up from it
\* converge, but for five ways the code has of passing one over: a live frame that
\* is ahead of a message missed while disconnected and comes before the catch-up, a
\* connection lost with an earlier frame still in flight, an initial load applied
\* over a newer list, an own message taken back for a rate-limited retry, and a
\* catch-up that ends at its limit of pages and still takes the room's watermark.
NoGapBelow ==
  load.at = "done" =>
    \A i \in Alive : cursor.next <= i /\ i <= seen => Has(list, i) \/ InFlight(i) \/ i \in skipped

\* The list is one of messages, each once, an own one without its bubble.
ListSound == RoomTypeOK /\ NoDuplicates /\ OwnMessageOnce
=============================================================================
