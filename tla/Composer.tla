------------------------------ MODULE Composer ------------------------------
(***************************************************************************)
(* The message composer of a room: MessageInput under ChatroomPage, with   *)
(* its mention menu, tone hint, reply, attachments, voice recorder and     *)
(* co-pilot.  The page stays mounted when the user goes from one room to   *)
(* another, and so does everything in the composer.                        *)
(*                                                                         *)
(* A text is the set of "@names" in it and whether it is long enough to be *)
(* checked for tone; handlers run to completion with the values of the     *)
(* render they were made in, and an answer that is awaited comes back to   *)
(* those values.  What is sent is ClientDelivery's concern from there on.  *)
(***************************************************************************)
EXTENDS CoPilot, Lists

CONSTANTS
  Room,
  MemberOf,     \* the people of each room
  Within,       \* pairs of names, the first a beginning of the second
  MaxMentions,  \* MAX_MENTIONS (10)
  MaxSent,      \* bound: messages sent
  MaxMoves,     \* bound: moves between rooms
  MaxOut,       \* bound: uploads and tone checks under way at once
  MaxMics       \* bound: microphones asked for or open at once

ASSUME ComposerAssumption ==
  /\ MemberOf \in [Room -> SUBSET Person]
  /\ Within \in SUBSET (Person \X Person)
  /\ {MaxMentions, MaxSent, MaxMoves, MaxOut, MaxMics} \subseteq Nat

VARIABLES
  room,     \* the page's chatroomId
  draft,    \* the text in the box
  tracked,  \* trackedMentionsRef: people picked from the menu
  mentions, \* the page's mentions
  menu,     \* is the mention menu open, and for the text as it is now?
  members,  \* the member list fetched: of which room, or none
  fetching, \* the member list asked for
  timer,    \* is the tone timer armed?
  checks,   \* tone checks under way: for the text as it is now, and for others
  hint,     \* the hint shown: none, for this text, or for another one
  missed,   \* history: an answer for another text came, or the last one failed
  reply,    \* the message being replied to: its room, or none
  timed,    \* a self-destruct time is set for the next message
  voice,    \* the recorder: shown?, its state, the permissions it and closed ones have asked
            \* for, and the microphones open
  leak,     \* history: a recorder was started twice
  busy,     \* uploading
  out,      \* uploads and positions under way, with the room and reply of their render
  moves,    \* rooms changed so far
  sent      \* history: what was handed on for sending

text   == <<draft, tracked, mentions>>
tone   == <<timer, checks, hint, missed>>
menus  == <<menu, members, fetching>>
extras == <<reply, timed>>
files  == <<busy, out>>
mic    == <<voice, leak>>
vars   == <<pilot, room, text, tone, menus, extras, files, mic, moves, sent>>

NoRoom == "none"
Empty == [names |-> {}, long |-> FALSE, blank |-> TRUE]
Text == [names : SUBSET UNION {MemberOf[r] : r \in Room}, long : BOOLEAN, blank : {FALSE}]
NoChecks == [now |-> 0, old |-> 0]
NoVoice == [shown |-> FALSE, state |-> "off", asks |-> 0, late |-> 0, open |-> 0]

Init ==
  /\ InitPilot
  /\ room \in Room
  /\ draft = Empty /\ tracked = <<>> /\ mentions = <<>>
  /\ menu = "closed" /\ members = NoRoom /\ fetching = NoRoom
  /\ timer = FALSE /\ checks = NoChecks /\ hint = "none" /\ missed = FALSE
  /\ reply = NoRoom /\ timed = FALSE
  /\ voice = NoVoice /\ leak = FALSE
  /\ busy = FALSE /\ out = {} /\ moves = 0 /\ sent = {}

-----------------------------------------------------------------------------
(* The two effects that run when the text has changed. *)

\* value.includes: a name is found in any text that has it or one it begins.
Shows(t, p) == p \in t.names \/ \E q \in t.names : <<p, q>> \in Within

\* Faulty variant: people stay tracked when their names are gone.
AllPicked(picked, t) == picked
StillShown(picked, t) == Kept(picked, {i \in DOMAIN picked : Shows(t, picked[i])})

Distinct(s) == Kept(s, {i \in DOMAIN s : \A j \in 1..(i - 1) : s[j] # s[i]})
\* Faulty variant: nobody counts the mentions.
Uncapped(s) == s
Capped(s) == SubSeq(s, 1, IF Len(s) > MaxMentions THEN MaxMentions ELSE Len(s))

HintAfter(t, h) == IF t.blank \/ ~t.long \/ h = "none" THEN "none" ELSE "old"

\* The text becomes t, with picked tracked and hint h: mentions are trimmed and reported, the tone
\* timer is cleared, and armed anew for a long text; checks under way are not cancelled.
Becomes(t, picked, h) ==
  /\ draft' = t
  /\ tracked' = Distinct(StillShown(picked, t))
  /\ mentions' = Capped(tracked')
  /\ timer' = (~t.blank /\ t.long)
  /\ checks' = [now |-> 0, old |-> checks.now + checks.old]
  /\ hint' = HintAfter(t, h)
  /\ missed' = FALSE

-----------------------------------------------------------------------------
(* Writing. *)

Shown == ~voice.shown

\* ensureMembersLoaded: once, for whatever room it was, until it has succeeded.
FetchIfNeeded ==
  fetching' = IF members = NoRoom /\ fetching = NoRoom THEN room ELSE fetching

\* updateMentionState: the cursor is behind an "@" or not.
Cursor(t) ==
  \/ menu' = "current" /\ ~t.blank /\ FetchIfNeeded
  \/ menu' = "closed" /\ UNCHANGED fetching

\* A key stroke.
Write ==
  /\ Shown /\ ~busy
  /\ \E t \in Text \cup {Empty} : t # draft /\ Becomes(t, tracked, hint) /\ Cursor(t)
  /\ UNCHANGED <<pilot, room, members, extras, files, mic, moves, sent>>

\* A click into the text, or Escape.
Click ==
  /\ Shown /\ ~busy
  /\ Cursor(draft)
  /\ UNCHANGED <<pilot, room, text, tone, members, extras, files, mic, moves, sent>>

\* An emoji is appended: the menu's place stays what it was.
Emoji ==
  /\ Shown
  /\ \E long \in BOOLEAN :
       /\ draft.long => long
       /\ Becomes([draft EXCEPT !.blank = FALSE, !.long = long], tracked, hint)
  /\ UNCHANGED <<pilot, room, menus, extras, files, mic, moves, sent>>

MembersCome ==
  /\ fetching # NoRoom
  /\ fetching' = NoRoom
  /\ members' \in {fetching, members}
  /\ UNCHANGED <<pilot, room, text, tone, menu, extras, files, mic, moves, sent>>

\* A text put into the box without a key stroke leaves the menu as it is.
Aged == IF menu = "closed" THEN "closed" ELSE "stale"

\* The menu, with the members fetched whatever room they are of.
MenuShown == Shown /\ menu # "closed" /\ members # NoRoom

\* selectMention: where the "@" was when the menu opened; a stale place cuts names.
SelectMention ==
  /\ MenuShown
  /\ \E p \in MemberOf[members] :
     \E kept \in IF menu = "current" THEN {draft.names} ELSE SUBSET draft.names :
       Becomes([names |-> kept \cup {p}, long |-> draft.long, blank |-> FALSE],
               Append(tracked, p), hint)
  /\ menu' = "closed"
  /\ UNCHANGED <<pilot, room, members, fetching, extras, files, mic, moves, sent>>

-----------------------------------------------------------------------------
(* Tone. *)

TimerFires ==
  /\ timer /\ checks.now + checks.old < MaxOut
  /\ timer' = FALSE
  /\ checks' = [checks EXCEPT !.now = 1]
  /\ UNCHANGED <<pilot, room, text, hint, missed, menus, extras, files, mic, moves, sent>>

\* The answer is shown whatever the box holds by now; a failed check is ignored.
ToneComes ==
  /\ \/ /\ checks.now > 0
        /\ checks' = [checks EXCEPT !.now = 0]
        /\ \/ hint' \in {"none", "now"} /\ missed' = FALSE
           \/ UNCHANGED hint /\ missed' = TRUE
     \/ /\ checks.old > 0
        /\ checks' = [checks EXCEPT !.old = @ - 1]
        /\ \/ hint' \in {"none", "old"} /\ missed' = TRUE
           \/ UNCHANGED <<hint, missed>>
  /\ UNCHANGED <<pilot, room, text, timer, menus, extras, files, mic, moves, sent>>

\* "Use softer version", whose suggestion was made for some text; or the hint is closed.
TakeHint ==
  /\ Shown /\ hint # "none"
  /\ \/ /\ \E t \in Text : t # draft /\ Becomes(t, tracked, "none")
        /\ menu' = Aged
     \/ /\ hint' = "none"
        /\ UNCHANGED <<text, timer, checks, missed, menu>>
  /\ UNCHANGED <<pilot, room, members, fetching, extras, files, mic, moves, sent>>

-----------------------------------------------------------------------------
(* Sending. *)

Hand(m) == sent' = sent \cup {[m EXCEPT !.n = Cardinality(sent) + 1]}
Message(kind, to, re) ==
  [n |-> 0, kind |-> kind, room |-> to, reply |-> re, mentions |-> {}, names |-> {},
   timed |-> FALSE, picked |-> <<>>, moved |-> moves > 0]
MentionIds == {mentions[i] : i \in DOMAIN mentions}

\* One button sends a text or, without one, opens the recorder.
MaySend == Shown /\ ~draft.blank
MayRecord == Shown /\ draft.blank
\* The toolbar: one file at a time, positions regardless.
MayAttach(kind) == Shown /\ (kind = "file" => ~busy)

\* sendMessage: everything but files under way starts afresh.
Send ==
  /\ MaySend /\ Cardinality(sent) < MaxSent
  /\ Hand([Message("text", room, reply) EXCEPT
             !.mentions = MentionIds, !.names = draft.names, !.timed = timed])
  /\ Becomes(Empty, tracked, hint)
  /\ reply' = NoRoom /\ timed' = FALSE
  /\ menu' = Aged
  /\ UNCHANGED <<pilot, room, members, fetching, files, mic, moves>>

Reply ==
  /\ reply' \in {room, NoRoom} \ {reply}
  /\ UNCHANGED <<pilot, room, text, tone, menus, timed, files, mic, moves, sent>>

SetTimed ==
  /\ Shown
  /\ timed' = ~timed
  /\ UNCHANGED <<pilot, room, text, tone, menus, reply, files, mic, moves, sent>>

Pick(kind) == [kind |-> kind, room |-> room, reply |-> reply]

\* A file is chosen, or the position asked for.
Attach ==
  /\ Cardinality(out) < MaxOut
  /\ \/ MayAttach("file") /\ out' = out \cup {Pick("file")} /\ busy' = TRUE
     \/ MayAttach("location") /\ Pick("location") \notin out /\ out' = out \cup {Pick("location")} /\ UNCHANGED busy
  /\ UNCHANGED <<pilot, room, text, tone, menus, extras, mic, moves, sent>>

\* Faulty variant: sendFile as of the page's latest render.
SentLate(o) == [Message(o.kind, room, reply) EXCEPT !.picked = <<o>>]
SentFile(o) == [Message(o.kind, o.room, o.reply) EXCEPT !.picked = <<o>>]

\* sendFile or sendLocation: with the room and reply of the render it was chosen in, and
\* whatever reply is open by now is closed.  A failed upload sends nothing.
Uploaded(o) ==
  /\ o \in out
  /\ out' = out \ {o}
  /\ busy' = IF o.kind = "location" THEN busy ELSE FALSE
  /\ \/ Cardinality(sent) < MaxSent /\ Hand(SentFile(o)) /\ reply' = NoRoom
     \/ UNCHANGED <<sent, reply>>
  /\ UNCHANGED <<pilot, room, text, tone, menus, timed, mic, moves>>

-----------------------------------------------------------------------------
(* The voice recorder, and its microphones. *)

MayAsk == voice.asks + voice.late + voice.open < MaxMics

OpenRecorder ==
  /\ MayRecord /\ MayAsk
  /\ voice' = [voice EXCEPT !.shown = TRUE, !.asks = 1, !.state = "idle"]
  /\ UNCHANGED <<pilot, room, text, tone, menus, extras, files, leak, moves, sent>>

\* The start button is there until the permission asked for has come.
StartAgain ==
  /\ voice.shown /\ voice.state = "idle" /\ MayAsk
  /\ voice' = [voice EXCEPT !.asks = @ + 1]
  /\ leak' = TRUE
  /\ UNCHANGED <<pilot, room, text, tone, menus, extras, files, moves, sent>>

\* Unmounted: the newest recorder is stopped if it runs, what is asked for stays asked for.
Closed(v) ==
  [v EXCEPT !.shown = FALSE, !.state = "off", !.late = @ + v.asks, !.asks = 0,
            !.open = IF v.state = "recording" THEN @ - 1 ELSE @]

\* getUserMedia granted: the newest recorder is the one that can be stopped; a closed
\* recorder starts one that nobody can.
Granted ==
  /\ \/ voice.asks > 0
        /\ voice' = [voice EXCEPT !.asks = @ - 1, !.open = @ + 1, !.state = "recording"]
     \/ voice.late > 0
        /\ voice' = [voice EXCEPT !.late = @ - 1, !.open = @ + 1]
  /\ UNCHANGED <<pilot, room, text, tone, menus, extras, files, leak, moves, sent>>

\* Refused: onCancel closes the recorder shown, be it another one.
Denied ==
  /\ \/ voice.asks > 0 /\ voice' = Closed([voice EXCEPT !.asks = @ - 1])
     \/ voice.late > 0 /\ voice' = Closed([voice EXCEPT !.late = @ - 1])
  /\ UNCHANGED <<pilot, room, text, tone, menus, extras, files, leak, moves, sent>>

\* Faulty variant: the recorder stops, its stream does not.
StopsLater ==
  /\ voice.state = "recording"
  /\ voice' = [voice EXCEPT !.state = "recorded"]
  /\ UNCHANGED <<pilot, room, text, tone, menus, extras, files, leak, moves, sent>>

StopRecording ==
  /\ voice.state = "recording"
  /\ voice' = [voice EXCEPT !.state = "recorded", !.open = @ - 1]
  /\ UNCHANGED <<pilot, room, text, tone, menus, extras, files, leak, moves, sent>>

\* The trash, or handleVoiceSend.
CloseRecorder ==
  /\ voice.shown /\ voice.state = "recorded"
  /\ voice' = Closed(voice)
  /\ \/ UNCHANGED files
     \/ Cardinality(out) < MaxOut /\ out' = out \cup {Pick("voice")} /\ busy' = TRUE
  /\ UNCHANGED <<pilot, room, text, tone, menus, extras, leak, moves, sent>>

-----------------------------------------------------------------------------
(* Moving to another room, and the co-pilot. *)

\* A notification's link: the page is not mounted anew.
Move ==
  /\ moves < MaxMoves
  /\ moves' = moves + 1
  /\ room' \in Room \ {room}
  /\ UNCHANGED <<pilot, text, tone, menus, extras, files, mic, sent>>

\* A suggestion becomes the draft.
Advised ==
  /\ TakeAdvice
  /\ \E t \in Text : t.names = {} /\ t # draft /\ Becomes(t, tracked, hint)
  /\ menu' = Aged
  /\ UNCHANGED <<room, members, fetching, extras, files, mic, moves, sent>>

Suggested ==
  /\ TogglePanel \/ AskAdvice \/ AdviceComes
  /\ UNCHANGED <<room, text, tone, menus, extras, files, mic, moves, sent>>

Summarised ==
  /\ \/ SummaryComes \/ SummaryFails
     \/ \E online \in SUBSET MemberOf[room], t \in Transcript : AskSummary(online, t)
  /\ UNCHANGED <<room, text, tone, menus, extras, files, mic, moves, sent>>

Writing == Write \/ Click \/ Emoji \/ Send
Mentioning == MembersCome \/ SelectMention
Toning == TimerFires \/ ToneComes \/ TakeHint
Delivering == Reply \/ Move \/ \E o \in out : Uploaded(o)
Recording == OpenRecorder \/ StartAgain \/ Granted \/ Denied \/ StopRecording \/ CloseRecorder
Advising == Advised \/ Suggested \/ Summarised

Next == Writing \/ SetTimed \/ Mentioning \/ Toning \/ Attach \/ Delivering \/ Recording \/ Advising

Spec == Init /\ [][Next]_vars

-----------------------------------------------------------------------------
(* Properties. *)

TypeOK ==
  /\ PilotTypeOK
  /\ room \in Room /\ draft \in Text \cup {Empty}
  /\ ToSet(tracked) \subseteq Person /\ Len(mentions) <= MaxMentions
  /\ menu \in {"closed", "current", "stale"}
  /\ {members, fetching, reply} \subseteq Room \cup {NoRoom}
  /\ hint \in {"none", "now", "old"}
  /\ {timer, missed, timed, busy, leak} \subseteq BOOLEAN
  /\ checks.now + checks.old <= MaxOut + 1
  /\ voice.state \in {"off", "idle", "recording", "recorded"}
  /\ Cardinality(out) <= MaxOut /\ Cardinality(sent) <= MaxSent

\* Who a message mentions is named in it, or begins a name in it, at most MAX_MENTIONS
\* people, and belongs to its room unless the page came from another one.
MentionsNamed ==
  \A m \in sent :
    /\ \A p \in m.mentions : Shows([names |-> m.names], p)
    /\ Cardinality(m.mentions) <= MaxMentions
    /\ m.moved \/ m.mentions \subseteq MemberOf[m.room]

\* A file, a voice message or a position goes to the room, and answers the message, that
\* it was chosen for, however long the upload took and wherever the user went meanwhile.
FileGoesWherePicked ==
  \A m \in sent : m.picked # <<>> =>
    m.room = m.picked[1].room /\ m.reply = m.picked[1].reply

\* With no check due or under way, the hint shown is about the text in the box, unless
\* the answer to another text came last or the last check failed.
HintMatches == ~timer /\ checks.now = 0 /\ hint = "old" => missed

\* A microphone is open only while the recorder shown is recording, unless a recorder
\* was started twice.
MicFollowsRecorder == voice.open > (IF voice.state = "recording" THEN 1 ELSE 0) => leak
=============================================================================
