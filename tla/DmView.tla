------------------------------- MODULE DmView -------------------------------
(***************************************************************************)
(* The direct-message page: one list shown for whichever conversation is   *)
(* open, filled by the history of an open, live frames and the page's own  *)
(* sends, and fed to the on-device search index under the conversation     *)
(* that is open when it is rendered.                                       *)
(*                                                                         *)
(* History and frames are decrypted before they are shown, so an answer or *)
(* a frame is applied some time after it came; the handler of a frame still*)
(* knows the conversation that was open when it came (its closure).        *)
(* Shredding makes what is stored so far undecryptable on this device;     *)
(* what is stored later counts as readable.  Left out: typing, the rows of *)
(* the sidebar and plaintext messages, which a shred does not touch.       *)
(***************************************************************************)
EXTENDS Naturals, Sequences, SequencesExt, FiniteSetsExt, Lists

CONSTANTS
  Conv,      \* conversations of this user
  Cid,       \* client ids of the page's sends
  None,      \* no conversation, no client id
  MaxMsgs,   \* bound: messages stored
  MaxOpens,  \* bound: conversations opened
  MaxLoads   \* bound: histories on their way at once

VARIABLES
  posted,    \* stored messages in order: conversation and client id
  opaque,    \* stored messages whose keys this device has shredded
  up,        \* client.connected
  joined,    \* wantedDms: topics subscribed
  frames,    \* frames of newDirectMessage in flight
  active,    \* activeConv
  opens,     \* conversations opened so far
  loads,     \* histories on their way: asked, then decrypted
  opening,   \* frames being decrypted, with the activeConv of their handler
  view,      \* messages
  call,      \* own sends
  sendTo,    \* the conversation each was written in
  flight,    \* sends that are on their way to the server
  acks,      \* acks on their way back
  shredding, \* the conversation whose shred is awaited
  docs,      \* the index: the conversation each message is filed under
  preview,   \* the preview cache: a stored message of each conversation, or 0
  misplaced, \* history: messages shown after the page had moved on
  strayed,   \* history: sends whose bubble was put into another conversation's list
  relisted   \* history: messages on screen or on their way when they were shredded

server == <<posted, opaque>>
link   == <<up, joined, frames>>
sends  == <<call, sendTo, flight, acks>>
hist   == <<misplaced, strayed, relisted>>
index  == <<docs, preview>>
vars   == <<server, link, active, opens, loads, opening, view, sends, shredding, index, hist>>

Id == 1..MaxMsgs
Entry == [id : 0..MaxMsgs, cid : Cid \cup {None}, ok : BOOLEAN]

TypeOK ==
  /\ posted \in Seq([conv : Conv, cid : Cid \cup {None}]) /\ Len(posted) <= MaxMsgs
  /\ opaque \subseteq DOMAIN posted
  /\ up \in BOOLEAN
  /\ joined \subseteq Conv
  /\ frames \subseteq DOMAIN posted
  /\ active \in Conv \cup {None}
  /\ opens \in 0..MaxOpens
  /\ \A l \in loads : l.conv \in Conv /\ l.at \in {"asked", "ready"} /\ l.rows \in Seq(Entry)
  /\ opening \subseteq [id : Id, active : Conv \cup {None}, ok : BOOLEAN]
  /\ view \in Seq(Entry)
  /\ \A k \in DOMAIN view : view[k].id \in {0} \cup DOMAIN posted
  /\ call \in [Cid -> {"none", "uploading", "sealing", "waiting", "done"}]
  /\ sendTo \in [Cid -> Conv \cup {None}]
  /\ flight \subseteq Cid /\ acks \subseteq Cid
  /\ shredding \in Conv \cup {None}
  /\ docs \in [Id -> Conv \cup {None}]
  /\ preview \in [Conv -> 0..Len(posted)]
  /\ misplaced \subseteq Id /\ strayed \subseteq Cid /\ relisted \subseteq Id

Init ==
  /\ posted = <<>> /\ opaque = {}
  /\ up \in BOOLEAN /\ joined = {} /\ frames = {}
  /\ active = None /\ opens = 0 /\ loads = {} /\ opening = {} /\ view = <<>>
  /\ call = [c \in Cid |-> "none"] /\ sendTo = [c \in Cid |-> None]
  /\ flight = {} /\ acks = {}
  /\ shredding = None
  /\ docs = [i \in Id |-> None]
  /\ preview = [c \in Conv |-> 0]
  /\ misplaced = {} /\ strayed = {} /\ relisted = {}

\* decrypt's answer for message i, at this moment.
Opened(i) == [id |-> i, cid |-> posted[i].cid, ok |-> i \notin opaque]
Bubble(c) == [id |-> 0, cid |-> c, ok |-> TRUE]
OfConv(c) == {i \in DOMAIN posted : posted[i].conv = c}
Ids(s) == {s[k].id : k \in DOMAIN s}

-----------------------------------------------------------------------------
(* Rendering: after every change of the list or of the conversation, what  *)
(* is listed and readable is filed under the open conversation.            *)

Render(list, conv) ==
  /\ view' = list
  /\ active' = conv
  /\ LET listed == {list[k].id : k \in {j \in DOMAIN list : list[j].ok}}
     IN docs' = [i \in Id |-> IF conv # None /\ i \in listed THEN conv ELSE docs[i]]

\* openConversation: the old topic is not left.
Open(c) ==
  /\ opens < MaxOpens /\ Cardinality(loads) < MaxLoads
  /\ opens' = opens + 1
  /\ Render(<<>>, c)
  /\ loads' = loads \cup {[conv |-> c, at |-> "asked", rows |-> <<>>, no |-> opens + 1]}
  /\ UNCHANGED <<server, link, opening, sends, shredding, hist, preview>>

\* handleBackToList.
Back ==
  /\ active # None
  /\ joined' = joined \ {active}
  /\ frames' = {i \in frames : posted[i].conv # active}
  /\ Render(<<>>, None)
  /\ UNCHANGED <<server, up, opens, loads, opening, sends, shredding, hist, preview>>

\* The history is there and decrypted.
LoadReady(l) ==
  /\ l \in loads /\ l.at = "asked"
  /\ LET mine == Ascending(OfConv(l.conv))
         rows == [k \in DOMAIN mine |-> Opened(mine[k])]
     IN loads' = (loads \ {l}) \cup {[l EXCEPT !.at = "ready", !.rows = rows]}
  /\ UNCHANGED <<server, link, active, opens, opening, view, sends, shredding, index, hist>>

\* Shown whatever is open by now, and the topic joined after it.
LoadApplied(l) ==
  /\ l \in loads /\ l.at = "ready"
  /\ loads' = loads \ {l}
  /\ Render(l.rows, active)
  /\ preview' = IF l.rows # <<>> /\ Last(l.rows).ok
                  THEN [preview EXCEPT ![l.conv] = Last(l.rows).id] ELSE preview
  /\ joined' = joined \cup {l.conv}
  /\ misplaced' = IF l.conv = active THEN misplaced ELSE misplaced \cup Ids(l.rows)
  /\ UNCHANGED <<server, up, frames, opens, opening, sends, shredding, strayed, relisted>>

LoadFails(l) ==
  /\ l \in loads /\ l.at = "asked"
  /\ loads' = loads \ {l}
  /\ joined' = joined \cup {l.conv}
  /\ UNCHANGED <<server, up, frames, active, opens, opening, view, sends, shredding, index, hist>>

-----------------------------------------------------------------------------
(* Live messages. *)

Publish(conv, i) == frames' = IF up /\ conv \in joined THEN frames \cup {i} ELSE frames

\* The peer's message.
PeerPosts(conv) ==
  /\ Len(posted) < MaxMsgs
  /\ posted' = Append(posted, [conv |-> conv, cid |-> None])
  /\ Publish(conv, Len(posted) + 1)
  /\ UNCHANGED <<opaque, up, joined, active, opens, loads, opening, view, sends, shredding, index, hist>>

\* handleNewDM starts to decrypt.
FrameComes(i) ==
  /\ i \in frames
  /\ frames' = frames \ {i}
  /\ opening' = opening \cup {[id |-> i, active |-> active, ok |-> i \notin opaque]}
  /\ UNCHANGED <<server, up, joined, active, opens, loads, view, sends, shredding, index, hist>>

\* Faulty variant: any conversation's message goes into the list.
ForAnyone(o) == o.active # None
\* The handler looks at the conversation that was open when the frame came.
ForList(o) == o.active = posted[o.id].conv

\* Faulty variant: a frame that finds its message listed already adds it again.
AppendAlways(e) == Append(view, e)
\* A message listed already stays, its bubble is replaced, anything else goes last.
Merged(e) ==
  LET bubble == {k \in DOMAIN view : e.cid # None /\ view[k].cid = e.cid}
  IN IF e.id \in Ids(view) THEN view
     ELSE IF bubble # {} THEN [view EXCEPT ![Min(bubble)] = e]
     ELSE Append(view, e)

FrameShown(o) ==
  /\ o \in opening
  /\ opening' = opening \ {o}
  /\ preview' = IF o.ok THEN [preview EXCEPT ![posted[o.id].conv] = o.id] ELSE preview
  /\ IF ForList(o)
       THEN /\ Render(Merged([Opened(o.id) EXCEPT !.ok = o.ok]), active)
            /\ misplaced' = IF o.active = active THEN misplaced ELSE misplaced \cup {o.id}
       ELSE UNCHANGED <<view, active, docs, misplaced>>
  /\ UNCHANGED <<server, link, opens, loads, sends, shredding, strayed, relisted>>

\* Nothing is asked for again after a reconnect.
Disconnect ==
  /\ up
  /\ up' = FALSE
  /\ frames' = {}
  /\ acks' = {}
  /\ \E kept \in SUBSET flight : flight' = kept
  /\ UNCHANGED <<server, joined, active, opens, loads, opening, view, call, sendTo, shredding, index, hist>>

Connect ==
  /\ ~up
  /\ up' = TRUE
  /\ UNCHANGED <<server, joined, frames, active, opens, loads, opening, view, sends, shredding, index, hist>>

-----------------------------------------------------------------------------
(* Own sends. *)

\* sendMessage: the bubble first, then the encryption.
Compose(c) ==
  /\ active # None /\ call[c] = "none"
  /\ call' = [call EXCEPT ![c] = "sealing"]
  /\ sendTo' = [sendTo EXCEPT ![c] = active]
  /\ Render(Append(view, Bubble(c)), active)
  /\ UNCHANGED <<server, link, opens, loads, opening, flight, acks, shredding, hist, preview>>

\* sendFile: the encrypted file is uploaded first ...
Upload(c) ==
  /\ active # None /\ call[c] = "none"
  /\ call' = [call EXCEPT ![c] = "uploading"]
  /\ sendTo' = [sendTo EXCEPT ![c] = active]
  /\ UNCHANGED <<server, link, active, opens, loads, opening, view, flight, acks, shredding, index, hist>>

\* ... and the bubble then goes into whatever list is shown.
Uploaded(c) ==
  /\ call[c] = "uploading"
  /\ call' = [call EXCEPT ![c] = "sealing"]
  /\ Render(Append(view, Bubble(c)), active)
  /\ strayed' = IF sendTo[c] = active THEN strayed ELSE strayed \cup {c}
  /\ UNCHANGED <<server, link, opens, loads, opening, sendTo, flight, acks, shredding, misplaced, relisted, preview>>

UploadFails(c) ==
  /\ call[c] = "uploading"
  /\ call' = [call EXCEPT ![c] = "done"]
  /\ UNCHANGED <<server, link, active, opens, loads, opening, view, sendTo, flight, acks, shredding, index, hist>>

DropBubble(c) == Kept(view, {k \in DOMAIN view : ~(view[k].id = 0 /\ view[k].cid = c)})

SealFails(c) ==
  /\ call[c] = "sealing"
  /\ call' = [call EXCEPT ![c] = "done"]
  /\ Render(DropBubble(c), active)
  /\ UNCHANGED <<server, link, opens, loads, opening, sendTo, flight, acks, shredding, hist, preview>>

\* emitDirectMessage: published if connected, the ack awaited in any case.
Emit(c) ==
  /\ call[c] = "sealing"
  /\ call' = [call EXCEPT ![c] = "waiting"]
  /\ flight' = IF up THEN flight \cup {c} ELSE flight
  /\ preview' = [preview EXCEPT ![sendTo[c]] = 0]
  /\ UNCHANGED <<server, link, active, opens, loads, opening, view, sendTo, acks, shredding, docs, hist>>

ServerStores(c) ==
  /\ c \in flight /\ Len(posted) < MaxMsgs
  /\ flight' = flight \ {c}
  /\ posted' = Append(posted, [conv |-> sendTo[c], cid |-> c])
  /\ Publish(sendTo[c], Len(posted) + 1)
  /\ acks' = IF up THEN acks \cup {c} ELSE acks
  /\ UNCHANGED <<opaque, up, joined, active, opens, loads, opening, view, call, sendTo, shredding, index, hist>>

IdOf(c) == CHOOSE i \in DOMAIN posted : posted[i].cid = c

\* The bubble takes the message's id.
Confirm(c) ==
  [k \in DOMAIN view |-> IF view[k].id = 0 /\ view[k].cid = c THEN [view[k] EXCEPT !.id = IdOf(c)]
                         ELSE view[k]]
\* onAck: the bubble becomes the message, or goes if the frame came first.
Confirmed(c) == IF IdOf(c) \in Ids(view) THEN DropBubble(c) ELSE Confirm(c)

AckOk(c) ==
  /\ c \in acks
  /\ acks' = acks \ {c}
  /\ IF call[c] = "waiting"
       THEN /\ call' = [call EXCEPT ![c] = "done"]
            /\ Render(Confirmed(c), active)
       ELSE UNCHANGED <<call, view, active, docs>>
  /\ UNCHANGED <<server, link, opens, loads, opening, sendTo, flight, shredding, hist, preview>>

\* A refusal or the 5 s timeout: the bubble goes, whatever became of the message.
AckFails(c) ==
  /\ call[c] = "waiting"
  /\ call' = [call EXCEPT ![c] = "done"]
  /\ Render(DropBubble(c), active)
  /\ UNCHANGED <<server, link, opens, loads, opening, sendTo, flight, acks, shredding, hist, preview>>

-----------------------------------------------------------------------------
(* Shredding the open conversation. *)

\* What will be rendered, or may be again: own bubbles are readable without a key.
OnTheWay ==
  LET bubbles == {view[k].cid : k \in DOMAIN view} \ {None}
  IN (UNION {Ids(l.rows) : l \in loads}) \cup {o.id : o \in opening} \cup Ids(view)
       \cup {i \in DOMAIN posted : posted[i].cid \in bubbles}

\* Faulty variant: only what is listed leaves the index.
PurgeListed(c) == [i \in Id |-> IF docs[i] = c /\ i \in Ids(view) THEN None ELSE docs[i]]
\* removeConversation.
Purge(c) == [i \in Id |-> IF docs[i] = c THEN None ELSE docs[i]]

\* Keys and index entries go ...
Shred ==
  /\ active # None /\ shredding = None
  /\ shredding' = active
  /\ opaque' = opaque \cup OfConv(active)
  /\ docs' = Purge(active)
  /\ preview' = [preview EXCEPT ![active] = 0]
  /\ relisted' = relisted \cup (OfConv(active) \cap OnTheWay)
  /\ UNCHANGED <<posted, link, active, opens, loads, opening, view, sends, misplaced, strayed>>

\* ... and the list is cleared, whatever is open by now.
ShredDone ==
  /\ shredding # None
  /\ shredding' = None
  /\ Render(<<>>, active)
  /\ UNCHANGED <<server, link, opens, loads, opening, sends, hist, preview>>

-----------------------------------------------------------------------------
Next ==
  \/ \E c \in Conv : Open(c) \/ PeerPosts(c)
  \/ Back
  \/ \E l \in loads : LoadReady(l) \/ LoadApplied(l) \/ LoadFails(l)
  \/ \E i \in frames : FrameComes(i)
  \/ \E o \in opening : FrameShown(o)
  \/ Disconnect \/ Connect
  \/ \E c \in Cid : \/ Compose(c) \/ Upload(c) \/ Uploaded(c) \/ UploadFails(c) \/ SealFails(c) \/ Emit(c)
                    \/ ServerStores(c) \/ AckOk(c) \/ AckFails(c)
  \/ Shred \/ ShredDone

Spec == Init /\ [][Next]_vars

-----------------------------------------------------------------------------
(* Properties. *)

\* Message i was shown in another conversation's list, or its bubble was.
Astray(i) == i \in misplaced \/ posted[i].cid \in strayed

\* The list shows messages of the open conversation, but for those whose history or
\* frame was still being decrypted, or whose file was still being uploaded, when the
\* page moved on to another.
RightConversation ==
  \A k \in DOMAIN view :
    LET i == view[k].id IN i # 0 => posted[i].conv = active \/ Astray(i)

\* No message is listed twice, nor an own one beside its bubble, in whatever order its
\* ack, its frame and a history come.
ListedOnce ==
  \A j, k \in DOMAIN view :
    j # k => /\ view[j].id # view[k].id \/ view[j].id = 0
             /\ view[j].cid # view[k].cid \/ view[j].cid = None

\* The index files a message under its own conversation, but for those shown in the
\* wrong one; and what was shredded is out of the index and the preview cache for good,
\* but for what was on screen or already decrypted at the time, and may be rendered or
\* cached again.
ShreddedUnindexed ==
  /\ \A i \in DOMAIN posted : docs[i] \in {None, posted[i].conv} \/ Astray(i)
  /\ \A i \in opaque : docs[i] = None \/ i \in relisted \/ Astray(i)
  /\ \A c \in Conv : preview[c] \in opaque => preview[c] \in relisted

\* The list is one of messages and bubbles, each once.
ListSound == TypeOK /\ ListedOnce
=============================================================================
