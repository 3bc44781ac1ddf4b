---------------------------- MODULE PagesProofs ----------------------------
(***************************************************************************)
(* Theorems about what the pages of a browser show and send: the composer, *)
(* the search box and the tabs' sessions of MCPages, for all rooms, people,*)
(* tabs, queries and bounds; the ticks and the typing indicator of         *)
(* RoomSignals, for all members and limits.                                *)
(*                                                                         *)
(* The composer's properties are shown of Spec, in which everything        *)
(* interleaves, and hold of SceneSpec, which keeps apart what does not     *)
(* meet, because its steps are steps of Spec (Composes).                   *)
(***************************************************************************)
EXTENDS MCPages, MCRoomSignals, TLAPS

-----------------------------------------------------------------------------
(* The composer. *)

\* Whatever scene it is, the composer does what it may.
LEMMA Composes == SceneSpec => Spec
<1>1. InitScene => Init
  BY DEF InitScene
<1>2. [NextScene]_<<vars, tabs, box, scene>> => [Next]_vars
  <2> SUFFICES ASSUME [NextScene]_<<vars, tabs, box, scene>>  PROVE Next \/ UNCHANGED vars
    OBVIOUS
  <2>1. InComposer => Next
    BY DEF InComposer, Next, Delivering, Advising
  <2> QED
    BY <2>1 DEF NextScene
<1> QED
  BY <1>1, <1>2, PTL DEF SceneSpec, Spec

\* Only a text sent and an upload that is done hand something on.
LEMMA HandedOn ==
  ASSUME [Next]_vars
  PROVE  UNCHANGED sent \/ Send \/ \E o \in out : Uploaded(o)
BY DEF Next, Writing, Write, Click, Emoji, SetTimed, Mentioning, MembersCome, SelectMention,
   Toning, TimerFires, ToneComes, TakeHint, Attach, Delivering, Reply, Move, Recording,
   OpenRecorder, StartAgain, Granted, Denied, StopRecording, CloseRecorder, Advising, Advised,
   Suggested, Summarised, vars

LEMMA FilesKept ==
  ASSUME FileGoesWherePicked, [Next]_vars
  PROVE  FileGoesWherePicked'
<1>1. CASE UNCHANGED sent
  BY <1>1 DEF FileGoesWherePicked
<1>2. ASSUME NEW m, m.picked # <<>> => m.room = m.picked[1].room /\ m.reply = m.picked[1].reply,
             sent' = sent \cup {m}
      PROVE  FileGoesWherePicked'
  BY <1>2 DEF FileGoesWherePicked
<1>3. CASE Send
  <2> DEFINE m == [Message("text", room, reply) EXCEPT
                     !.mentions = MentionIds, !.names = draft.names, !.timed = timed]
             k == [m EXCEPT !.n = Cardinality(sent) + 1]
  <2>1. k.picked = <<>>
    BY DEF Message
  <2>2. sent' = sent \cup {k}
    BY <1>3 DEF Send, Hand
  <2> HIDE DEF k
  <2> QED
    BY <1>2, <2>1, <2>2
<1>4. ASSUME NEW o \in out, Uploaded(o)  PROVE FileGoesWherePicked'
  <2> DEFINE k == [SentFile(o) EXCEPT !.n = Cardinality(sent) + 1]
  <2>1. k.picked = <<o>> /\ k.room = o.room /\ k.reply = o.reply
    BY DEF SentFile, Message
  <2>2. sent' = sent \cup {k} \/ sent' = sent
    BY <1>4 DEF Uploaded, Hand
  <2> HIDE DEF k
  <2> QED
    BY <1>1, <1>2, <2>1, <2>2
<1> QED
  BY <1>1, <1>3, <1>4, HandedOn

\* A file, a voice message or a position goes to the room, and answers the message, that it
\* was chosen for, whatever else the composer does meanwhile (ChatroomPage.tsx, sendFile).
THEOREM FileGoesAlways == Spec => []FileGoesWherePicked
<1>1. Init => FileGoesWherePicked
  BY DEF Init, FileGoesWherePicked
<1> QED
  BY <1>1, FilesKept, PTL DEF Spec

\* The recorder, until one was started twice: it has asked for a microphone if it is idle,
\* and has one open if it is recording.
Tidy ==
  /\ voice.late = 0
  /\ voice.asks = IF voice.state = "idle" THEN 1 ELSE 0
  /\ voice.open = IF voice.state = "recording" THEN 1 ELSE 0
  /\ ~voice.shown => voice.state = "off"
VoiceType == [shown : BOOLEAN, state : {"off", "idle", "recording", "recorded"},
              asks : Nat, late : Nat, open : Int]
MicInv ==
  /\ voice \in VoiceType
  /\ ~leak => Tidy

LEMMA Closing ==
  ASSUME NEW v \in VoiceType
  PROVE  /\ Closed(v) \in VoiceType
         /\ ~Closed(v).shown /\ Closed(v).state = "off"
         /\ Closed(v).late = v.late + v.asks /\ Closed(v).asks = 0
         /\ Closed(v).open = IF v.state = "recording" THEN v.open - 1 ELSE v.open
<1> DEFINE mics == IF v.state = "recording" THEN v.open - 1 ELSE v.open
           pend == v.late + v.asks
<1>1. mics \in Int /\ pend \in Nat
  BY DEF VoiceType
<1>2. Closed(v) = [v EXCEPT !.shown = FALSE, !.state = "off", !.late = pend, !.asks = 0,
                            !.open = mics]
  BY DEF Closed
<1> HIDE DEF mics, pend
<1>3. Closed(v) = [shown |-> FALSE, state |-> "off", asks |-> 0, late |-> pend, open |-> mics]
  BY <1>2 DEF VoiceType
<1>4. Closed(v) \in VoiceType
  BY <1>1, <1>3 DEF VoiceType
<1> QED
  BY <1>3, <1>4 DEF mics, pend

LEMMA MicKept ==
  ASSUME MicInv, [Next]_vars
  PROVE  MicInv'
<1>v. /\ voice \in VoiceType
      /\ voice.shown \in BOOLEAN /\ voice.asks \in Nat /\ voice.late \in Nat /\ voice.open \in Int
  BY DEF MicInv, VoiceType
<1>1. CASE OpenRecorder
  BY <1>1 DEF MicInv, VoiceType, Tidy, OpenRecorder, MayRecord, Shown
<1>2. CASE StartAgain
  BY <1>2 DEF MicInv, VoiceType, StartAgain
<1>3. CASE Granted
  <2>1. voice' \in VoiceType
    <3>1. CASE /\ voice.asks > 0
               /\ voice' = [voice EXCEPT !.asks = @ - 1, !.open = @ + 1, !.state = "recording"]
      <4>1. voice.asks - 1 \in Nat /\ voice.open + 1 \in Int
        BY <1>v, <3>1
      <4> QED
        BY <1>v, <3>1, <4>1 DEF VoiceType
    <3>2. CASE voice.late > 0 /\ voice' = [voice EXCEPT !.late = @ - 1, !.open = @ + 1]
      <4>1. voice.late - 1 \in Nat /\ voice.open + 1 \in Int
        BY <1>v, <3>2
      <4> QED
        BY <1>v, <3>2, <4>1 DEF VoiceType
    <3> QED
      BY <1>3, <3>1, <3>2 DEF Granted
  <2>2. ~leak' => Tidy'
    <3> SUFFICES ASSUME ~leak  PROVE Tidy'
      BY <1>3 DEF Granted
    <3>1. Tidy
      BY DEF MicInv
    <3>2. voice.asks = 1 /\ voice.late = 0 /\ voice.open = 0 /\ voice.shown
      BY <1>3, <1>v, <3>1 DEF Tidy, Granted
    <3>3. voice' = [voice EXCEPT !.asks = @ - 1, !.open = @ + 1, !.state = "recording"]
      BY <1>3, <3>2 DEF Granted
    <3>4. /\ voice'.asks = 0 /\ voice'.late = 0 /\ voice'.open = 1 /\ voice'.shown
          /\ voice'.state = "recording"
      BY <1>v, <3>2, <3>3 DEF VoiceType
    <3> QED
      BY <3>4 DEF Tidy
  <2> QED
    BY <2>1, <2>2 DEF MicInv
<1>4. CASE Denied
  <2> DEFINE a == [voice EXCEPT !.asks = @ - 1]
             b == [voice EXCEPT !.late = @ - 1]
  <2>1. CASE voice.asks > 0 /\ voice' = Closed(a)
    <3>1. voice.asks - 1 \in Nat
      BY <1>v, <2>1
    <3>2. /\ a \in VoiceType /\ a.late = voice.late /\ a.asks = voice.asks - 1
          /\ a.open = voice.open /\ a.state = voice.state
      BY <1>v, <3>1 DEF VoiceType
    <3> HIDE DEF a
    <3>3. ~leak => Tidy'
      <4> SUFFICES ASSUME Tidy  PROVE Tidy'
        BY DEF MicInv
      <4> QED
        BY <1>v, <2>1, <3>2, Closing DEF Tidy
    <3> QED
      BY <1>4, <2>1, <3>2, <3>3, Closing DEF MicInv, Denied
  <2>2. CASE voice.late > 0 /\ voice' = Closed(b)
    <3>1. voice.late - 1 \in Nat
      BY <1>v, <2>2
    <3>2. b \in VoiceType
      BY <1>v, <3>1 DEF VoiceType
    <3> HIDE DEF b
    <3>3. leak
      BY <1>v, <2>2 DEF MicInv, Tidy
    <3> QED
      BY <1>4, <2>2, <3>2, <3>3, Closing DEF MicInv, Denied
  <2> QED
    BY <1>4, <2>1, <2>2 DEF Denied
<1>5. CASE StopRecording
  <2>1. voice.open - 1 \in Int
    BY <1>v
  <2>2. /\ voice' \in VoiceType /\ voice'.late = voice.late /\ voice'.asks = voice.asks
        /\ voice'.open = voice.open - 1 /\ voice'.shown = voice.shown
        /\ voice'.state = "recorded"
    BY <1>5, <1>v, <2>1 DEF VoiceType, StopRecording
  <2>3. ~leak' => Tidy'
    BY <1>5, <1>v, <2>2 DEF MicInv, Tidy, StopRecording
  <2> QED
    BY <2>2, <2>3 DEF MicInv
<1>6. CASE CloseRecorder
  <2>1. voice' = Closed(voice) /\ voice.state = "recorded" /\ leak' = leak
    BY <1>6 DEF CloseRecorder
  <2>2. ~leak' => Tidy'
    BY <1>v, <2>1, Closing DEF MicInv, Tidy
  <2> QED
    BY <1>v, <2>1, <2>2, Closing DEF MicInv
<1>7. CASE UNCHANGED mic
  BY <1>7 DEF MicInv, Tidy, mic
<1>8. Recording \/ UNCHANGED mic
  BY DEF Next, Writing, Write, Click, Emoji, Send, SetTimed, Mentioning, MembersCome,
     SelectMention, Toning, TimerFires, ToneComes, TakeHint, Attach, Delivering, Reply, Move,
     Uploaded, Advising, Advised, Suggested, Summarised, vars
<1> QED
  BY <1>1, <1>2, <1>3, <1>4, <1>5, <1>6, <1>7, <1>8 DEF Recording

\* No microphone stays open after its recorder, unless a recorder was started twice
\* (VoiceRecorder.tsx).
THEOREM MicFollowsAlways == Spec => []MicFollowsRecorder
<1>1. Init => MicInv
  BY DEF Init, NoVoice, MicInv, VoiceType, Tidy
<1>2. MicInv => MicFollowsRecorder
  BY DEF MicInv, VoiceType, Tidy, MicFollowsRecorder
<1> QED
  BY <1>1, <1>2, MicKept, PTL DEF Spec

HintInv == checks \in [now : Nat, old : Nat] /\ HintMatches

LEMMA BecomesHint ==
  ASSUME HintInv, NEW t, NEW picked, NEW h, Becomes(t, picked, h)
  PROVE  HintInv'
<1>1. checks' \in [now : Nat, old : Nat]
  BY DEF HintInv, Becomes
<1>2. CASE t.blank \/ ~t.long
  <2>1. hint' = "none"
    BY <1>2 DEF Becomes, HintAfter
  <2> QED
    BY <1>1, <2>1 DEF HintInv, HintMatches
<1>3. CASE ~(t.blank \/ ~t.long)
  <2>1. timer'
    BY <1>3 DEF Becomes
  <2> QED
    BY <1>1, <2>1 DEF HintInv, HintMatches
<1> QED
  BY <1>2, <1>3

LEMMA HintKept ==
  ASSUME HintInv, [Next]_vars
  PROVE  HintInv'
<1>1. CASE TimerFires
  BY <1>1 DEF HintInv, HintMatches, TimerFires
<1>2. CASE ToneComes
  BY <1>2 DEF HintInv, HintMatches, ToneComes
<1>3. CASE UNCHANGED <<timer, checks, missed>> /\ hint' = "none"
  BY <1>3 DEF HintInv, HintMatches
<1>4. CASE UNCHANGED tone
  BY <1>4 DEF HintInv, HintMatches, tone
<1>5. \/ TimerFires \/ ToneComes
      \/ UNCHANGED <<timer, checks, missed>> /\ hint' = "none"
      \/ \E t, picked, h : Becomes(t, picked, h)
      \/ UNCHANGED tone
  BY DEF Next, Writing, Write, Click, Emoji, Send, SetTimed, Mentioning, MembersCome,
     SelectMention, Toning, TakeHint, Attach, Delivering, Reply, Move, Uploaded, Recording,
     OpenRecorder, StartAgain, Granted, Denied, StopRecording, CloseRecorder, Advising, Advised,
     Suggested, Summarised, vars
<1> QED
  BY <1>1, <1>2, <1>3, <1>4, <1>5, BecomesHint

LEMMA HintsMatch == Spec => []HintMatches
<1>1. Init => HintInv
  BY DEF Init, NoChecks, HintInv, HintMatches
<1>2. HintInv => HintMatches
  BY DEF HintInv
<1> QED
  BY <1>1, <1>2, HintKept, PTL DEF Spec

-----------------------------------------------------------------------------
(* The search box. *)

\* A search that was not cancelled is for what the box holds, and that is a query; while the
\* timer is armed there is none.
BoxInv ==
  /\ \A s \in open : s = [of |-> s.of, n |-> s.n, cancelled |-> s.cancelled]
  /\ \A s \in open : ~s.cancelled => s.of = <<typed, place>> /\ typed # Box!Short /\ ~due
  /\ due => typed # Box!Short
  /\ Box!ResultsCurrent

LEMMA BoxKept ==
  ASSUME BoxInv, [Box!NextBox]_box
  PROVE  BoxInv'
<1>1. ASSUME NEW q, NEW p, Box!Effect(q, p)  PROVE BoxInv'
  <2>1. \A s \in open' : s.cancelled /\ s = [of |-> s.of, n |-> s.n, cancelled |-> s.cancelled]
    BY <1>1 DEF Box!Effect, BoxInv
  <2> QED
    BY <1>1, <2>1 DEF Box!Effect, BoxInv, Box!ResultsCurrent
<1>2. CASE Box!Timeout
  <2>1. PICK n : open' = open \cup {[of |-> <<typed, place>>, n |-> n, cancelled |-> FALSE]}
    BY <1>2 DEF Box!Timeout
  <2>2. due /\ ~due' /\ typed' = typed /\ place' = place
    BY <1>2 DEF Box!Timeout
  <2> DEFINE new == [of |-> <<typed, place>>, n |-> n, cancelled |-> FALSE]
  <2>3. new.of = <<typed, place>> /\ ~new.cancelled
        /\ new = [of |-> new.of, n |-> new.n, cancelled |-> new.cancelled]
    OBVIOUS
  <2> HIDE DEF new
  <2>4. open' = open \cup {new}
    BY <2>1 DEF new
  <2> QED
    BY <2>2, <2>3, <2>4 DEF BoxInv, Box!ResultsCurrent
<1>3. ASSUME NEW s \in open, Box!Answer(s)  PROVE BoxInv'
  BY <1>3 DEF Box!Answer, Box!Show, BoxInv, Box!ResultsCurrent
<1>4. CASE Box!WorkerCrashes
  BY <1>4 DEF Box!WorkerCrashes, BoxInv, Box!ResultsCurrent
<1>5. CASE UNCHANGED box
  BY <1>5 DEF box, BoxInv, Box!ResultsCurrent
<1> QED
  BY <1>1, <1>2, <1>3, <1>4, <1>5 DEF Box!NextBox, Box!Type, Box!Elsewhere

\* The tone hint is about the text in the box, and the hits about the query in the search
\* box, once nothing is due or under way, but for a hint whose check failed or was overtaken
\* (MessageInput.tsx, GlobalSearchModal.tsx).
THEOREM AnswersMatchAlways == SceneSpec => []AnswersMatch
<1>1. SceneSpec => []BoxInv
  <2>1. InitScene => BoxInv
    BY DEF InitScene, Box!InitBox, BoxInv, Box!ResultsCurrent
  <2>2. BoxInv /\ [NextScene]_<<vars, tabs, box, scene>> => BoxInv'
    <3> SUFFICES ASSUME BoxInv, [NextScene]_<<vars, tabs, box, scene>>  PROVE BoxInv'
      OBVIOUS
    <3>1. [Box!NextBox]_box
      BY DEF NextScene
    <3> QED
      BY <3>1, BoxKept
  <2> QED
    BY <2>1, <2>2, PTL DEF SceneSpec
<1>2. BoxInv /\ HintMatches => AnswersMatch
  BY DEF BoxInv, AnswersMatch
<1> QED
  BY <1>1, <1>2, Composes, HintsMatch, PTL

-----------------------------------------------------------------------------
(* The tabs' sessions. *)

Cookies == [session : Nat, gen : Nat]
Refreshes == [n : Nat, tab : BrowserTab, of : Cookies, waits : Nat,
              got : {"none", "new", "kept", "refused"}]

TabsTyped ==
  /\ newest \in 0..MaxSessions
  /\ cookie \in Cookies /\ live \in [0..MaxSessions -> Nat]
  /\ claims \in [BrowserTab -> Nat] /\ calls \in [BrowserTab -> Nat]
  /\ started \in Nat /\ asks \subseteq Refreshes
  /\ spoilt \subseteq 0..newest

\* The newest session has been left alone since it started: one refresh at most is under
\* way, with its cookie, which is the live one unless the refresh was answered with the next;
\* and its token is stored, or will be by the tab that signs in.
Undisturbed ==
  /\ leaving = {}
  /\ live[newest] > 0
  /\ \A q, r \in asks : q = r
  /\ \A r \in asks : r.of = cookie /\ r.got \in {"none", "new"}
  /\ cookie.session = newest
  /\ live[newest] = IF \E r \in asks : r.got = "new" THEN cookie.gen + 1 ELSE cookie.gen
  /\ \A t \in BrowserTab : claims[t] \in {0, newest}
  /\ (\A t \in BrowserTab : claims[t] = 0) => store = newest

TabsInv == TabsTyped /\ (newest > 0 /\ newest \notin spoilt => Undisturbed)

\* One more refresh is under way, that of another tab's cookie never while one is.
LEMMA StartSteps ==
  ASSUME TabsInv, NEW t \in BrowserTab, NEW waits \in Nat, Tabs!Start(t, waits),
         \A r \in asks : r.tab # t,
         calls' \in [BrowserTab -> Nat], UNCHANGED <<store, cookie, live, claims, leaving, newest>>
  PROVE  TabsInv'
<1> DEFINE new == Tabs!Ask(t, waits)
<1>1. new \in Refreshes /\ new.of = cookie /\ new.got = "none"
  BY DEF TabsInv, TabsTyped, Tabs!Ask, Refreshes
<1>2. asks' = asks \cup {new} /\ started' = started + 1
      /\ spoilt' = IF \E r \in asks : r.tab # t THEN spoilt \cup {newest} ELSE spoilt
  BY DEF Tabs!Start
<1> HIDE DEF new
<1>3. TabsTyped'
  BY <1>1, <1>2 DEF TabsInv, TabsTyped
<1>4. CASE asks = {}
  <2>1. asks' = {new} /\ spoilt' = spoilt
    BY <1>2, <1>4
  <2> QED
    BY <1>1, <1>3, <1>4, <2>1 DEF TabsInv, Undisturbed
<1>5. CASE asks # {}
  BY <1>2, <1>3, <1>5 DEF TabsInv
<1> QED
  BY <1>4, <1>5

\* Refreshes that are asked for again share the one under way.
LEMMA RefreshSteps ==
  ASSUME TabsInv, NEW t \in BrowserTab, NEW waits \in Nat, Tabs!RefreshAccessToken(t, waits),
         calls' \in [BrowserTab -> Nat], UNCHANGED <<store, cookie, live, claims, leaving, newest>>
  PROVE  TabsInv'
<1> DEFINE mine == {r \in asks : r.tab = t}
           More(r) == [r EXCEPT !.waits = @ + waits]
<1>1. CASE mine = {} /\ Tabs!Start(t, waits)
  BY <1>1, StartSteps
<1>2. CASE mine # {} /\ asks' = (asks \ mine) \cup {More(r) : r \in mine}
           /\ UNCHANGED <<started, spoilt>>
  <2>1. ASSUME NEW r \in asks
        PROVE  More(r) \in Refreshes /\ More(r).of = r.of /\ More(r).got = r.got
    <3>1. r \in Refreshes
      BY DEF TabsInv, TabsTyped
    <3>2. r.waits + waits \in Nat
      BY <3>1 DEF Refreshes
    <3> QED
      BY <3>1, <3>2 DEF Refreshes
  <2> HIDE DEF More
  <2>2. TabsTyped'
    BY <1>2, <2>1 DEF TabsInv, TabsTyped
  <2>3. ASSUME newest > 0, newest \notin spoilt  PROVE Undisturbed'
    <3>1. Undisturbed
      BY <2>3 DEF TabsInv
    <3>2. PICK r \in asks : r.tab = t
      BY <1>2
    <3>3. asks = {r}
      BY <3>1, <3>2 DEF Undisturbed
    <3>4. asks' = {More(r)}
      BY <1>2, <3>2, <3>3
    <3> QED
      BY <1>2, <2>1, <3>1, <3>3, <3>4 DEF Undisturbed
  <2> QED
    BY <1>2, <2>2, <2>3 DEF TabsInv
<1> QED
  BY <1>1, <1>2 DEF Tabs!RefreshAccessToken

\* What a page does that no session depends on.
LEMMA AsideSteps ==
  ASSUME TabsInv, calls' \in [BrowserTab -> Nat],
         UNCHANGED <<store, cookie, live, claims, asks, started, leaving, newest, spoilt>>
  PROVE  TabsInv'
BY DEF TabsInv, TabsTyped, Undisturbed

LEMMA SignedInSteps ==
  ASSUME TabsInv, NEW t \in BrowserTab, Tabs!SignedIn(t)
  PROVE  TabsInv'
<1> DEFINE s == newest + 1
<1>0. newest \in Nat /\ s \in 0..MaxSessions /\ s # 0
  BY PagesAssumption DEF Tabs!SignedIn, TabsInv, TabsTyped
<1>1. /\ newest' = s
      /\ cookie' = [session |-> s, gen |-> 1] /\ live' = [live EXCEPT ![s] = 1]
      /\ claims' = [claims EXCEPT ![t] = s]
      /\ UNCHANGED <<store, calls, asks, started, leaving>>
  BY DEF Tabs!SignedIn, Tabs!net
<1>2. cookie' \in Cookies /\ cookie'.session = s /\ cookie'.gen = 1
  BY <1>0, <1>1 DEF Cookies
<1>3. live' \in [0..MaxSessions -> Nat] /\ live'[s] = 1
  BY <1>0, <1>1 DEF TabsInv, TabsTyped
<1>4. claims' \in [BrowserTab -> Nat] /\ claims'[t] = s
      /\ \A u \in BrowserTab \ {t} : claims'[u] = claims[u]
  BY <1>0, <1>1 DEF TabsInv, TabsTyped
<1>5. spoilt' \subseteq 0..s
  BY <1>0, <1>1 DEF Tabs!SignedIn, TabsInv, TabsTyped
<1>6. TabsTyped'
  BY <1>0, <1>1, <1>2, <1>3, <1>4, <1>5 DEF TabsInv, TabsTyped
<1>7. ASSUME s \notin spoilt'  PROVE Undisturbed'
  <2>1. asks = {} /\ leaving = {} /\ \A u \in BrowserTab : claims[u] = 0
    BY <1>1, <1>7 DEF Tabs!SignedIn
  <2> HIDE DEF s
  <2> QED
    BY <1>0, <1>1, <1>2, <1>3, <1>4, <2>1 DEF Undisturbed
<1> QED
  BY <1>1, <1>6, <1>7 DEF TabsInv

LEMMA FinishSteps ==
  ASSUME TabsInv, NEW t \in BrowserTab, Tabs!FinishLogin(t)
  PROVE  TabsInv'
<1>1. claims' \in [BrowserTab -> Nat] /\ claims'[t] = 0
      /\ \A u \in BrowserTab \ {t} : claims'[u] = claims[u]
  BY DEF Tabs!FinishLogin, TabsInv, TabsTyped
<1>2. claims[t] # 0 /\ store' = claims[t]
      /\ UNCHANGED <<cookie, live, calls, asks, started, leaving, newest, spoilt>>
  BY DEF Tabs!FinishLogin, Tabs!net
<1>3. TabsTyped'
  BY <1>1, <1>2 DEF TabsInv, TabsTyped
<1> QED
  BY <1>1, <1>2, <1>3 DEF TabsInv, Undisturbed

\* A sign-out spoils its session.
LEMMA LogoutSteps ==
  ASSUME TabsInv, NEW l \in leaving, Tabs!LogoutServed(l) \/ Tabs!LogoutAnswered(l)
  PROVE  TabsInv'
<1>1. newest > 0 => newest \in spoilt
  BY DEF TabsInv, Undisturbed
<1>2. CASE Tabs!LogoutServed(l)
  BY <1>1, <1>2 DEF Tabs!LogoutServed, TabsInv, TabsTyped
<1>3. CASE Tabs!LogoutAnswered(l)
  <2>1. Tabs!NoCookie \in Cookies
    BY DEF Tabs!NoCookie, Cookies
  <2> QED
    BY <1>1, <1>3, <2>1 DEF Tabs!LogoutAnswered, TabsInv, TabsTyped
<1> QED
  BY <1>2, <1>3

LEMMA ServeSteps ==
  ASSUME TabsInv, NEW r \in asks, Tabs!Serve(r)
  PROVE  TabsInv'
<1> DEFINE s == r.of.session
           Said(what) == [r EXCEPT !.got = what]
<1>1. r \in Refreshes /\ s \in Nat /\ r.of.gen \in Nat
  BY DEF TabsInv, TabsTyped, Refreshes, Cookies
<1>2. \A what \in {"new", "kept", "refused"} :
        Said(what) \in Refreshes /\ Said(what).of = r.of /\ Said(what).got = what
  BY <1>1 DEF Refreshes
<1> HIDE DEF Said
<1>3. /\ r.got = "none"
      /\ \/ /\ live[s] > 0 /\ live[s] = r.of.gen /\ live' = [live EXCEPT ![s] = @ + 1]
            /\ asks' = (asks \ {r}) \cup {Said("new")}
         \/ /\ live[s] > r.of.gen
            /\ \/ live' = live /\ asks' = (asks \ {r}) \cup {Said("kept")}
               \/ live' = [live EXCEPT ![s] = 0] /\ asks' = (asks \ {r}) \cup {Said("refused")}
         \/ live[s] = 0 /\ live' = live /\ asks' = (asks \ {r}) \cup {Said("refused")}
      /\ UNCHANGED <<store, cookie, claims, calls, started, leaving, newest, spoilt>>
  BY DEF Tabs!Serve, Said
<1>4. TabsTyped'
  <2>1. live' \in [0..MaxSessions -> Nat]
    BY <1>3 DEF TabsInv, TabsTyped
  <2>2. asks' \subseteq Refreshes
    BY <1>2, <1>3 DEF TabsInv, TabsTyped
  <2> QED
    BY <1>3, <2>1, <2>2 DEF TabsInv, TabsTyped
<1>5. ASSUME newest > 0, newest \notin spoilt  PROVE Undisturbed'
  <2>1. Undisturbed
    BY <1>5 DEF TabsInv
  <2>2. asks = {r} /\ r.of = cookie /\ s = newest
    BY <2>1 DEF Undisturbed
  <2>3. live[newest] = r.of.gen /\ live[newest] > 0
    BY <1>3, <2>1, <2>2 DEF Undisturbed
  <2>4. live' = [live EXCEPT ![newest] = @ + 1] /\ asks' = {Said("new")}
    BY <1>1, <1>3, <2>2, <2>3
  <2>5. live'[newest] = cookie.gen + 1
    BY <2>2, <2>3, <2>4 DEF TabsInv, TabsTyped
  <2> QED
    BY <1>1, <1>2, <1>3, <2>1, <2>2, <2>4, <2>5 DEF Undisturbed
<1> QED
  BY <1>3, <1>4, <1>5 DEF TabsInv

LEMMA AnsweredSteps ==
  ASSUME TabsInv, NEW r \in asks, Tabs!Answered(r)
  PROVE  TabsInv'
<1> DEFINE c == [r.of EXCEPT !.gen = @ + 1]
<1>1. r \in Refreshes /\ r.of \in Cookies
  BY DEF TabsInv, TabsTyped, Refreshes
<1>2. c \in Cookies /\ c.session = r.of.session /\ c.gen = r.of.gen + 1
  BY <1>1 DEF Cookies
<1> HIDE DEF c
<1>3. /\ r.got = "new" /\ asks' = asks \ {r} /\ cookie' = c /\ store' = r.of.session
      /\ UNCHANGED <<live, claims, calls, started, leaving, newest, spoilt>>
  BY DEF Tabs!Answered, c
<1>4. TabsTyped'
  BY <1>2, <1>3 DEF TabsInv, TabsTyped
<1>5. ASSUME newest > 0, newest \notin spoilt  PROVE Undisturbed'
  <2>1. Undisturbed
    BY <1>5 DEF TabsInv
  <2>2. asks' = {} /\ r.of = cookie
    BY <1>3, <2>1 DEF Undisturbed
  <2> QED
    BY <1>2, <1>3, <2>1, <2>2 DEF Undisturbed
<1> QED
  BY <1>3, <1>4, <1>5 DEF TabsInv

\* A refresh that is over, with what its tab's calls and others' are by then.
LEMMA ClearedTyped ==
  ASSUME TabsTyped, NEW r \in asks, Tabs!ClearSession(r)
  PROVE  calls' \in [BrowserTab -> Nat] /\ asks' \subseteq asks
BY DEF TabsTyped, Tabs!ClearSession

LEMMA OverSteps ==
  ASSUME TabsInv, NEW r \in asks, Tabs!Rejected(r) \/ Tabs!Lost(r)
  PROVE  TabsInv'
<1>1. calls' \in [BrowserTab -> Nat] /\ asks' \subseteq asks
  BY ClearedTyped DEF TabsInv, Tabs!Rejected, Tabs!Lost
<1>2. CASE Tabs!Rejected(r)
  <2>1. newest > 0 => newest \in spoilt
    BY <1>2 DEF Tabs!Rejected, TabsInv, Undisturbed
  <2>2. cookie' \in Cookies
    BY <1>2 DEF Tabs!Rejected, Tabs!NoCookie, Cookies, TabsInv, TabsTyped
  <2> QED
    BY <1>1, <1>2, <2>1, <2>2 DEF Tabs!Rejected, TabsInv, TabsTyped
<1>3. CASE Tabs!Lost(r)
  BY <1>1, <1>3 DEF Tabs!Lost, TabsInv, TabsTyped
<1> QED
  BY <1>2, <1>3

LEMMA TabsKept ==
  ASSUME TabsInv, [Tabs!NextTabs]_tabs
  PROVE  TabsInv'
<1>1. ASSUME NEW t \in BrowserTab, Tabs!SignedIn(t) \/ Tabs!FinishLogin(t)  PROVE TabsInv'
  BY <1>1, SignedInSteps, FinishSteps
<1>2. ASSUME NEW t \in BrowserTab, Tabs!WrongPassword(t) \/ Tabs!Logout(t)  PROVE TabsInv'
  <2>1. newest \in 0..newest
    BY DEF TabsInv, TabsTyped
  <2>2. spoilt' = spoilt \cup {newest} /\ UNCHANGED <<cookie, live, claims, calls, asks, started, newest>>
    BY <1>2 DEF Tabs!WrongPassword, Tabs!Logout, Tabs!net
  <2>3. TabsTyped'
    BY <2>1, <2>2 DEF TabsInv, TabsTyped
  <2> QED
    BY <2>2, <2>3 DEF TabsInv
<1>3. ASSUME NEW t \in BrowserTab, Tabs!OpenTab(t) \/ Tabs!Call(t) \/ Tabs!Done(t)
      PROVE  TabsInv'
  <2>1. calls' \in [BrowserTab -> Nat]
    BY <1>3 DEF Tabs!OpenTab, Tabs!Call, Tabs!Done, TabsInv, TabsTyped
  <2>2. UNCHANGED <<store, cookie, live, claims, asks, started, leaving, newest, spoilt>>
    BY <1>3 DEF Tabs!OpenTab, Tabs!Call, Tabs!Done, Tabs!net
  <2> QED
    BY <2>1, <2>2, AsideSteps
<1>4. ASSUME NEW t \in BrowserTab, Tabs!Unauthorized(t)  PROVE TabsInv'
  <2>1. calls' \in [BrowserTab -> Nat]
    BY <1>4 DEF Tabs!Unauthorized, TabsInv, TabsTyped
  <2> QED
    BY <1>4, <2>1, RefreshSteps DEF Tabs!Unauthorized
<1>5. ASSUME NEW t \in BrowserTab, Tabs!SocketRefused(t)  PROVE TabsInv'
  <2>1. calls' \in [BrowserTab -> Nat]
    BY <1>5 DEF Tabs!SocketRefused, TabsInv, TabsTyped
  <2> QED
    BY <1>5, <2>1, RefreshSteps DEF Tabs!SocketRefused
<1>6. CASE UNCHANGED tabs
  BY <1>6 DEF tabs, TabsInv, TabsTyped, Undisturbed
<1> QED
  BY <1>1, <1>2, <1>3, <1>4, <1>5, <1>6, LogoutSteps, ServeSteps, AnsweredSteps, OverSteps
     DEF Tabs!NextTabs

\* However the tabs of a browser expire, refresh, replay and lose their calls, the stored
\* token is of the newest session until something outside the refresh disturbs it
\* (services/api.ts, refreshAccessToken).
THEOREM KeepsItsSessionAlways == SceneSpec => []KeepsItsSession
<1>1. InitScene => TabsInv
  BY PagesAssumption DEF InitScene, Tabs!InitTabs, Tabs!NoCookie, TabsInv, TabsTyped, Cookies
<1>2. TabsInv /\ [NextScene]_<<vars, tabs, box, scene>> => TabsInv'
  <2> SUFFICES ASSUME TabsInv, [NextScene]_<<vars, tabs, box, scene>>  PROVE TabsInv'
    OBVIOUS
  <2>1. [Tabs!NextTabs]_tabs
    BY DEF NextScene
  <2> QED
    BY <2>1, TabsKept
<1>3. TabsInv => KeepsItsSession
  BY DEF TabsInv, Undisturbed, KeepsItsSession, Tabs!KeepsItsSession
<1> QED
  BY <1>1, <1>2, <1>3, PTL DEF SceneSpec

-----------------------------------------------------------------------------
(* The ticks. *)

Kinds == {"new", "read", "delivered", "typing", "stop"}
FrameType == [kind : Kinds, by : Member, slot : Nat, who : SUBSET Member]
Receipts == [readBy : SUBSET Member, deliveredTo : SUBSET Member]

LogTyped ==
  /\ log \in Seq(Member) /\ looked \in [Member -> Nat] /\ latest \in [Member -> Nat]
  /\ \A p \in Member : looked[p] <= Len(log) /\ latest[p] <= Len(log)
  /\ up \subseteq Member

\* r was sent the message in slot i, or has read that far.
Has(i, r) == <<i, r>> \in had \/ looked[r] >= i

RowsTrue(q) ==
  /\ DOMAIN rows[q] \subseteq 1..Len(log) /\ rows[q] \in [DOMAIN rows[q] -> Receipts]
  /\ \A i \in DOMAIN rows[q] : /\ \A r \in rows[q][i].readBy : looked[r] >= i
                               /\ \A r \in rows[q][i].deliveredTo : Has(i, r)

\* What the server keeps, and what is on its way to it and from it, is true already.
StatusTrue ==
  /\ status = [read |-> status.read, delivered |-> status.delivered]
  /\ \A i \in Nat, r \in Member : /\ <<i, r>> \in status.read => looked[r] >= i
                                  /\ <<i, r>> \in status.delivered => Has(i, r)
FrameTrue(f) ==
  /\ f.kind = "new" => f.slot \in 1..Len(log)
  /\ f.kind = "read" => looked[f.by] >= f.slot
  /\ f.kind = "delivered" => \A r \in f.who : Has(f.slot, r)
AskTrue(a) ==
  /\ a \in FrameType /\ FrameTrue(a)
  /\ a.kind = "delivered" => <<a.slot, a.by>> \in had
WireTrue(m) == m \in [to : Member, frame : FrameType] /\ FrameTrue(m.frame)

TicksInv ==
  /\ LogTyped /\ StatusTrue
  /\ DOMAIN rows = Member /\ \A q \in Member : RowsTrue(q)
  /\ \A a \in frames : AskTrue(a)
  /\ \A m \in wire : WireTrue(m)

\* Messages are never lost, nobody unreads one, and what was sent stays sent.
Grown ==
  /\ LogTyped /\ LogTyped'
  /\ Len(log) <= Len(log)' /\ had \subseteq had'
  /\ \A p \in Member : looked[p] <= looked'[p]

LEMMA StillTrue ==
  ASSUME Grown
  PROVE  /\ \A i \in Nat, r \in Member : looked[r] >= i => looked'[r] >= i
         /\ \A i \in Nat, r \in Member : Has(i, r) => Has(i, r)'
         /\ \A f \in FrameType : FrameTrue(f) => FrameTrue(f)'
         /\ \A a : AskTrue(a) => AskTrue(a)'
         /\ \A m : WireTrue(m) => WireTrue(m)'
<1>1. ASSUME NEW i \in Nat, NEW r \in Member, looked[r] >= i  PROVE looked'[r] >= i
  BY <1>1 DEF Grown, LogTyped
<1>2. ASSUME NEW i \in Nat, NEW r \in Member, Has(i, r)  PROVE Has(i, r)'
  BY <1>1, <1>2 DEF Grown, Has
<1>3. ASSUME NEW f \in FrameType, FrameTrue(f)  PROVE FrameTrue(f)'
  <2>1. f.slot \in Nat /\ f.by \in Member /\ f.who \subseteq Member
    BY DEF FrameType
  <2>2. Len(log) \in Nat /\ Len(log)' \in Nat /\ Len(log) <= Len(log)'
    BY DEF Grown, LogTyped
  <2>3. f.kind = "new" => f.slot \in 1..Len(log)'
    BY <1>3, <2>1, <2>2 DEF FrameTrue
  <2>4. f.kind = "read" => looked'[f.by] >= f.slot
    BY <1>1, <1>3, <2>1 DEF FrameTrue
  <2>5. f.kind = "delivered" => \A r \in f.who : Has(f.slot, r)'
    BY <1>2, <1>3, <2>1 DEF FrameTrue
  <2> QED
    BY <2>3, <2>4, <2>5 DEF FrameTrue
<1>4. ASSUME NEW a, AskTrue(a)  PROVE AskTrue(a)'
  BY <1>3, <1>4 DEF AskTrue, Grown
<1>5. ASSUME NEW m, WireTrue(m)  PROVE WireTrue(m)'
  BY <1>3, <1>5 DEF WireTrue
<1> QED
  BY <1>1, <1>2, <1>3, <1>4, <1>5

LEMMA RowsStay ==
  ASSUME Grown, NEW q \in Member, RowsTrue(q), rows'[q] = rows[q]
  PROVE  RowsTrue(q)'
<1>1. DOMAIN rows[q] \subseteq 1..Len(log)' /\ DOMAIN rows[q] \subseteq Nat
  <2>1. Len(log) \in Nat /\ Len(log)' \in Nat /\ Len(log) <= Len(log)'
    BY DEF Grown, LogTyped
  <2>2. DOMAIN rows[q] \subseteq 1..Len(log)
    BY DEF RowsTrue
  <2> QED
    BY <2>1, <2>2
<1>2. ASSUME NEW i \in DOMAIN rows[q]
      PROVE  /\ \A r \in rows[q][i].readBy : looked'[r] >= i
             /\ \A r \in rows[q][i].deliveredTo : Has(i, r)'
  <2>1. i \in Nat /\ rows[q][i].readBy \subseteq Member /\ rows[q][i].deliveredTo \subseteq Member
    BY <1>1 DEF RowsTrue, Receipts
  <2> QED
    BY <2>1, StillTrue DEF RowsTrue
<1> QED
  BY <1>1, <1>2 DEF RowsTrue

\* What a step leaves alone stays true, and the rest is looked at.
LEMMA TicksStay ==
  ASSUME TicksInv, Grown,
         status' = status \/ StatusTrue',
         DOMAIN rows' = Member, \A q \in Member : rows'[q] = rows[q] \/ RowsTrue(q)',
         \A a \in frames' : a \in frames \/ AskTrue(a)',
         \A m \in wire' : m \in wire \/ WireTrue(m)'
  PROVE  TicksInv'
<1>1. StatusTrue'
  BY StillTrue DEF TicksInv, StatusTrue
<1>2. \A q \in Member : RowsTrue(q)'
  BY RowsStay DEF TicksInv
<1>3. \A a \in frames' : AskTrue(a)'
  BY StillTrue DEF TicksInv
<1>4. \A m \in wire' : WireTrue(m)'
  BY StillTrue DEF TicksInv
<1> QED
  BY <1>1, <1>2, <1>3, <1>4 DEF TicksInv, Grown

LEMMA Greatest ==
  ASSUME NEW a \in Nat, NEW b \in Nat
  PROVE  /\ Signals!Greater(a, b) \in Nat /\ Signals!Greater(a, b) >= a
         /\ Signals!Greater(a, b) >= b /\ Signals!Greater(a, b) \in {a, b}
BY DEF Signals!Greater

\* Who comes to see up to a slot there is has grown.
LEMMA SeesMore ==
  ASSUME LogTyped, NEW p \in Member, NEW n \in Nat, n <= Len(log),
         looked' = looked \/ looked' = [looked EXCEPT ![p] = Signals!Greater(@, n)],
         latest' \in [Member -> Nat], \A q \in Member : latest'[q] <= Len(log),
         up' \subseteq Member, had \subseteq had', log' = log
  PROVE  Grown
<1>1. Len(log) \in Nat /\ looked[p] \in Nat /\ looked[p] <= Len(log)
  BY DEF LogTyped
<1>2. looked' \in [Member -> Nat]
  BY <1>1, Greatest DEF LogTyped
<1>3. ASSUME NEW q \in Member  PROVE looked[q] <= looked'[q] /\ looked'[q] <= Len(log)
  <2>1. looked[q] \in Nat /\ looked[q] <= Len(log)
    BY DEF LogTyped
  <2>2. looked'[q] = looked[q] \/ (q = p /\ looked'[q] = Signals!Greater(looked[p], n))
    BY DEF LogTyped
  <2>3. Signals!Greater(looked[p], n) >= looked[p] /\ Signals!Greater(looked[p], n) <= Len(log)
    BY <1>1, Greatest
  <2> QED
    BY <1>1, <2>1, <2>2, <2>3
<1> QED
  BY <1>1, <1>2, <1>3 DEF Grown, LogTyped

\* A frame that is true is fanned out to true ones.
LEMMA FansOut ==
  ASSUME up \subseteq Member, NEW f \in FrameType, FrameTrue(f)'
  PROVE  \A m \in Signals!FanOut(f) : WireTrue(m)'
<1> SUFFICES ASSUME NEW q \in up  PROVE WireTrue([to |-> q, frame |-> f])'
  BY DEF Signals!FanOut
<1> QED
  BY DEF WireTrue

\* A page tells of itself.
LEMMA TellsTrue ==
  ASSUME up \subseteq Member, NEW p \in Member, NEW n \in Nat, NEW kind \in Kinds \ {"new"},
         kind = "read" => looked'[p] >= n,
         kind = "delivered" => <<n, p>> \in had'
  PROVE  \A a \in Signals!Told(p, kind, n) : AskTrue(a)'
<1> DEFINE f == Signals!Frame(kind, p, n, {})
<1>1. f \in FrameType /\ f.kind = kind /\ f.by = p /\ f.slot = n /\ f.who = {}
  BY DEF Signals!Frame, FrameType
<1>2. \A a \in Signals!Told(p, kind, n) : a = f
  BY DEF Signals!Told
<1> HIDE DEF f
<1> SUFFICES ASSUME NEW a, a = f  PROVE AskTrue(a)'
  BY <1>2
<1> QED
  BY <1>1 DEF AskTrue, FrameTrue, Kinds

\* What typing, and the sockets, do to nobody's receipts.
LEMMA QuietTicks ==
  ASSUME TicksInv, NEW p \in Member, NEW kind \in {"typing", "stop"},
         UNCHANGED <<log, looked, had, latest, rows, status>>, up' \subseteq up,
         frames' \subseteq frames \cup Signals!Told(p, kind, 0),
         wire' \subseteq wire \cup Signals!FanOut(Signals!Frame(kind, p, 0, {}))
  PROVE  TicksInv'
<1> DEFINE f == Signals!Frame(kind, p, 0, {})
<1>1. LogTyped /\ up \subseteq Member /\ 0 <= Len(log)
  BY DEF TicksInv, LogTyped
<1>2. Grown
  BY <1>1, SeesMore DEF LogTyped
<1>3. \A a \in Signals!Told(p, kind, 0) : AskTrue(a)'
  BY <1>1, TellsTrue DEF Kinds
<1>4. f \in FrameType /\ f.kind = kind
  BY DEF Signals!Frame, FrameType, Kinds
<1> HIDE DEF f
<1>5. FrameTrue(f)'
  BY <1>4 DEF FrameTrue
<1>6. \A m \in Signals!FanOut(f) : WireTrue(m)'
  BY <1>1, <1>4, <1>5, FansOut
<1>7. \A a \in frames' : a \in frames \/ AskTrue(a)'
  BY <1>3
<1>8. \A m \in wire' : m \in wire \/ WireTrue(m)'
  BY <1>6 DEF f
<1> QED
  BY <1>2, <1>7, <1>8, TicksStay DEF TicksInv

LEMMA PostedTicks ==
  ASSUME TicksInv, NEW p \in Member, Signals!Posted(p)
  PROVE  TicksInv'
<1>1. log \in Seq(Member) /\ log' = Append(log, p) /\ up \subseteq Member
      /\ UNCHANGED <<looked, had, latest, rows, status, frames, up>>
  BY DEF Signals!Posted, Signals!history, TicksInv, LogTyped
<1>2. log' \in Seq(Member) /\ Len(log') = Len(log) + 1 /\ Len(log) \in Nat
  BY <1>1
<1> PICK n \in Nat : n = Len(log')
  BY <1>2
<1> DEFINE f == Signals!Frame("new", p, n, {})
<1>3. wire' = wire \cup Signals!FanOut(f)
  BY DEF Signals!Posted
<1>4. f \in FrameType /\ f.kind = "new" /\ f.slot = n
  BY DEF Signals!Frame, FrameType, Kinds
<1> HIDE DEF f
<1>5. Grown
  <2>1. \A q \in Member : looked[q] \in Nat /\ latest[q] \in Nat
                          /\ looked[q] <= Len(log) /\ latest[q] <= Len(log)
    BY DEF TicksInv, LogTyped
  <2>2. \A q \in Member : looked[q] <= looked[q] /\ looked[q] <= Len(log') /\ latest[q] <= Len(log')
    BY <1>2, <2>1
  <2> QED
    BY <1>1, <1>2, <2>2 DEF TicksInv, LogTyped, Grown
<1>6. FrameTrue(f)'
  BY <1>2, <1>4 DEF FrameTrue
<1>7. \A m \in wire' : m \in wire \/ WireTrue(m)'
  BY <1>1, <1>3, <1>4, <1>6, FansOut
<1> QED
  BY <1>1, <1>5, <1>7, TicksStay DEF TicksInv

LEMMA ScrollTicks ==
  ASSUME TicksInv, NEW p \in Member, Signals!Scroll(p)
  PROVE  TicksInv'
<1>1. LogTyped /\ latest[p] \in Nat /\ latest[p] <= Len(log) /\ looked[p] \in Nat
      /\ UNCHANGED <<log, had, latest, rows, status, wire, up>>
  BY DEF Signals!Scroll, Signals!server, TicksInv, LogTyped
<1>2. Grown
  BY <1>1, SeesMore DEF Signals!Scroll, LogTyped
<1>3. \A a \in frames' : a \in frames \/ AskTrue(a)'
  <2>1. CASE p \in bottom
    BY <2>1 DEF Signals!Scroll
  <2>2. CASE p \notin bottom
    <3>1. looked'[p] >= latest[p]
      BY <1>1, <2>2, Greatest DEF Signals!Scroll, LogTyped
    <3>2. \A a \in Signals!Told(p, "read", latest[p]) : AskTrue(a)'
      BY <1>1, <3>1, TellsTrue DEF LogTyped, Kinds
    <3> QED
      BY <2>2, <3>2 DEF Signals!Scroll, Signals!MarkRead
  <2> QED
    BY <2>1, <2>2
<1> QED
  BY <1>1, <1>2, <1>3, TicksStay DEF TicksInv

\* A page's rows are true if those that are new, or whose receipts are, are.
LEMMA RowsCome ==
  ASSUME Grown, NEW q \in Member, RowsTrue(q),
         rows'[q] = [i \in DOMAIN rows'[q] |-> rows'[q][i]],
         DOMAIN rows'[q] \subseteq 1..Len(log)',
         \A i \in DOMAIN rows'[q] :
           \/ i \in DOMAIN rows[q] /\ rows'[q][i] = rows[q][i]
           \/ /\ rows'[q][i] \in Receipts
              /\ \A r \in rows'[q][i].readBy : looked'[r] >= i
              /\ \A r \in rows'[q][i].deliveredTo : Has(i, r)'
  PROVE  RowsTrue(q)'
<1>1. ASSUME NEW i \in DOMAIN rows'[q], i \in DOMAIN rows[q], rows'[q][i] = rows[q][i]
      PROVE  /\ rows'[q][i] \in Receipts
             /\ \A r \in rows'[q][i].readBy : looked'[r] >= i
             /\ \A r \in rows'[q][i].deliveredTo : Has(i, r)'
  <2>1. i \in Nat /\ rows[q][i] \in Receipts
    BY <1>1 DEF RowsTrue
  <2>2. rows[q][i].readBy \subseteq Member /\ rows[q][i].deliveredTo \subseteq Member
    BY <2>1 DEF Receipts
  <2> QED
    BY <1>1, <2>1, <2>2, StillTrue DEF RowsTrue
<1> QED
  BY <1>1 DEF RowsTrue

\* The receipts the server keeps, as a page loads them.
LEMMA LoadedTrue ==
  ASSUME StatusTrue, NEW i \in Nat
  PROVE  /\ Signals!Fresh(i) \in Receipts /\ Signals!Loaded(i) \in Receipts
         /\ Signals!Synced \in Receipts
         /\ Signals!Fresh(i).readBy = {} /\ Signals!Synced.readBy = {}
         /\ Signals!Synced.deliveredTo = {}
         /\ \A r \in Signals!Loaded(i).readBy : r \in Member /\ looked[r] >= i
         /\ \A r \in Signals!Loaded(i).deliveredTo : r \in Member /\ Has(i, r)
         /\ \A r \in Signals!Fresh(i).deliveredTo : r \in Member /\ Has(i, r)
<1>1. /\ Signals!Receipts(status.read, i) \subseteq Member
      /\ Signals!Receipts(status.delivered, i) \subseteq Member
      /\ \A r \in Signals!Receipts(status.read, i) : looked[r] >= i
      /\ \A r \in Signals!Receipts(status.delivered, i) : Has(i, r)
  BY DEF Signals!Receipts, StatusTrue
<1> QED
  BY <1>1 DEF Signals!Fresh, Signals!Loaded, Signals!Synced, Receipts

LEMMA ReconnectTicks ==
  ASSUME TicksInv, NEW p \in Member, Signals!Reconnect(p)
  PROVE  TicksInv'
<1>1. /\ LogTyped /\ Len(log) \in Nat /\ latest[p] \in Nat /\ up' = up \cup {p}
      /\ UNCHANGED <<log, had, looked, status, frames, wire>>
  BY DEF Signals!Reconnect, Signals!server, Signals!history, TicksInv, LogTyped
<1>2. Grown
  <2>1. latest' = latest \/ latest' = [latest EXCEPT ![p] = Len(log)]
    BY DEF Signals!Reconnect
  <2>2. latest' \in [Member -> Nat]
    BY <1>1, <2>1 DEF LogTyped
  <2>3. ASSUME NEW q \in Member  PROVE latest'[q] <= Len(log)
    <3>1. latest'[q] = latest[q] \/ latest'[q] = Len(log)
      BY <1>1, <2>1 DEF LogTyped
    <3> QED
      BY <1>1, <3>1 DEF LogTyped
  <2> QED
    BY <1>1, <2>2, <2>3, SeesMore DEF LogTyped
<1>3. DOMAIN rows' = Member /\ \A q \in Member \ {p} : rows'[q] = rows[q]
  BY DEF Signals!Reconnect, TicksInv
<1>4. rows'[p] = rows[p] \/ RowsTrue(p)'
  <2>1. CASE latest[p] = 0
    BY <2>1 DEF Signals!Reconnect
  <2>2. CASE latest[p] # 0
    <3> DEFINE S == (latest[p] + 1..Len(log)) \ DOMAIN rows[p]
    <3>1. rows'[p] = [i \in DOMAIN rows[p] \cup S |->
                        IF i \in S THEN Signals!Synced ELSE rows[p][i]]
      BY <2>2 DEF Signals!Reconnect, Signals!With, TicksInv
    <3>2. S \subseteq 1..Len(log) /\ RowsTrue(p)
      BY <1>1 DEF TicksInv
    <3> HIDE DEF S
    <3>3. DOMAIN rows'[p] \subseteq 1..Len(log)'
      BY <1>1, <3>1, <3>2 DEF RowsTrue
    <3>4. \A i \in DOMAIN rows'[p] : IF i \in S THEN rows'[p][i] = Signals!Synced
                                    ELSE i \in DOMAIN rows[p] /\ rows'[p][i] = rows[p][i]
      BY <3>1
    <3>5. rows'[p] = [i \in DOMAIN rows'[p] |-> rows'[p][i]]
      BY <3>1
    <3>6. Signals!Synced \in Receipts /\ Signals!Synced.readBy = {} /\ Signals!Synced.deliveredTo = {}
      BY DEF Signals!Synced, Receipts
    <3> QED
      BY <1>2, <3>2, <3>3, <3>4, <3>5, <3>6, RowsCome
  <2> QED
    BY <2>1, <2>2
<1> QED
  BY <1>1, <1>2, <1>3, <1>4, TicksStay DEF TicksInv

LEMMA MountTicks ==
  ASSUME TicksInv, NEW p \in Member, Signals!Mount(p)
  PROVE  TicksInv'
<1>1. /\ LogTyped /\ Len(log) \in Nat /\ up \subseteq Member /\ wire' \subseteq wire
      /\ latest' = [latest EXCEPT ![p] = Len(log)] /\ looked' = [looked EXCEPT ![p] = Len(log)]
      /\ frames' = frames \cup Signals!MarkRead(p, Len(log))
      /\ UNCHANGED <<log, had, status, up>>
  BY DEF Signals!Mount, Signals!server, TicksInv, LogTyped
<1>2. Grown
  <2>1. latest' \in [Member -> Nat] /\ looked' \in [Member -> Nat]
    BY <1>1 DEF LogTyped
  <2>2. \A q \in Member : latest'[q] <= Len(log) /\ looked'[q] <= Len(log) /\ looked[q] <= looked'[q]
    BY <1>1, <2>1 DEF LogTyped
  <2> QED
    BY <1>1, <2>1, <2>2 DEF Grown, LogTyped
<1>3. DOMAIN rows' = Member /\ \A q \in Member \ {p} : rows'[q] = rows[q]
  BY DEF Signals!Mount, TicksInv
<1>4. RowsTrue(p)'
  <2>1. rows'[p] = [i \in DOMAIN log |-> Signals!Loaded(i)]
    BY DEF Signals!Mount, Signals!With, TicksInv
  <2>2. DOMAIN log = 1..Len(log) /\ DOMAIN log \subseteq Nat
    BY <1>1 DEF LogTyped
  <2>3. \A i \in DOMAIN log :
          /\ rows'[p][i] \in Receipts
          /\ \A r \in rows'[p][i].readBy : r \in Member /\ looked[r] >= i
          /\ \A r \in rows'[p][i].deliveredTo : r \in Member /\ Has(i, r)
    BY <2>1, <2>2, LoadedTrue DEF TicksInv
  <2>4. \A i \in DOMAIN log :
          /\ \A r \in rows'[p][i].readBy : looked'[r] >= i
          /\ \A r \in rows'[p][i].deliveredTo : Has(i, r)'
    BY <1>2, <2>2, <2>3, StillTrue
  <2>5. DOMAIN rows'[p] = DOMAIN log /\ rows'[p] = [i \in DOMAIN rows'[p] |-> rows'[p][i]]
    BY <2>1
  <2> QED
    BY <1>1, <2>2, <2>3, <2>4, <2>5 DEF RowsTrue
<1>5. \A a \in frames' : a \in frames \/ AskTrue(a)'
  <2>1. looked'[p] >= Len(log)
    BY <1>1 DEF LogTyped
  <2>2. \A a \in Signals!Told(p, "read", Len(log)) : AskTrue(a)'
    BY <1>1, <2>1, TellsTrue DEF Kinds
  <2> QED
    BY <1>1, <2>2 DEF Signals!MarkRead
<1> QED
  BY <1>1, <1>2, <1>3, <1>4, <1>5, TicksStay DEF TicksInv

LEMMA ServeReadTicks ==
  ASSUME TicksInv, NEW a \in frames, Signals!ServeRead(a)
  PROVE  TicksInv'
<1> DEFINE S == {i \in DOMAIN log : i <= a.slot /\ log[i] # a.by} \X {a.by}
<1>1. /\ a.kind = "read" /\ frames' = frames \ {a} /\ wire' = wire \cup Signals!FanOut(a)
      /\ status' = [read |-> status.read \cup S, delivered |-> status.delivered \cup S]
      /\ UNCHANGED <<log, looked, had, latest, rows, up>>
  BY DEF Signals!ServeRead, Signals!page, Signals!history
<1>2. LogTyped /\ up \subseteq Member /\ a \in FrameType /\ looked[a.by] >= a.slot
  BY <1>1 DEF TicksInv, LogTyped, AskTrue, FrameTrue
<1>3. a.by \in Member /\ a.slot \in Nat /\ looked[a.by] \in Nat
  BY <1>2 DEF FrameType, LogTyped
<1>4. Grown
  BY <1>1, <1>2, <1>3, SeesMore DEF LogTyped
<1>5. ASSUME NEW i \in Nat, NEW r \in Member, <<i, r>> \in S  PROVE looked[r] >= i
  <2>1. r = a.by /\ i <= a.slot
    BY <1>5
  <2> QED
    BY <1>2, <1>3, <2>1
<1> HIDE DEF S
<1>6. StatusTrue'
  <2>1. status'.read = status.read \cup S /\ status'.delivered = status.delivered \cup S
        /\ status' = [read |-> status'.read, delivered |-> status'.delivered]
    BY <1>1
  <2>2. ASSUME NEW i \in Nat, NEW r \in Member
        PROVE  /\ <<i, r>> \in status'.read => looked'[r] >= i
               /\ <<i, r>> \in status'.delivered => Has(i, r)'
    BY <1>1, <1>5, <2>1 DEF TicksInv, StatusTrue, Has
  <2> QED
    BY <2>1, <2>2 DEF StatusTrue
<1>7. FrameTrue(a)'
  BY <1>1, <1>2 DEF FrameTrue
<1>8. \A m \in wire' : m \in wire \/ WireTrue(m)'
  BY <1>1, <1>2, <1>7, FansOut
<1> QED
  BY <1>1, <1>4, <1>6, <1>8, TicksStay DEF TicksInv

LEMMA ServeDeliveredTicks ==
  ASSUME TicksInv, NEW a \in frames, Signals!ServeDelivered(a)
  PROVE  TicksInv'
<1>1. /\ a.kind = "delivered" /\ frames' = frames \ {a}
      /\ status' = [status EXCEPT !.delivered = @ \cup {<<a.slot, a.by>>}]
      /\ UNCHANGED <<log, looked, had, latest, rows, up>>
  BY DEF Signals!ServeDelivered, Signals!page, Signals!history
<1>2. LogTyped /\ up \subseteq Member /\ a \in FrameType /\ <<a.slot, a.by>> \in had
  BY <1>1 DEF TicksInv, LogTyped, AskTrue
<1>3. a.by \in Member /\ a.slot \in Nat
  BY <1>2 DEF FrameType
<1>4. Grown
  <2>1. 0 \in Nat /\ 0 <= Len(log)
    BY <1>2 DEF LogTyped
  <2> QED
    BY <1>1, <1>2, <1>3, <2>1, SeesMore DEF LogTyped
<1>5. /\ status'.read = status.read
      /\ status'.delivered = status.delivered \cup {<<a.slot, a.by>>}
      /\ status' = [read |-> status'.read, delivered |-> status'.delivered]
  BY <1>1 DEF TicksInv, StatusTrue
<1>6. ASSUME NEW i \in Nat, NEW r \in Member
      PROVE  /\ <<i, r>> \in status'.read => looked'[r] >= i
             /\ <<i, r>> \in status'.delivered => Has(i, r)'
  BY <1>1, <1>2, <1>5 DEF TicksInv, StatusTrue, Has
<1>7. StatusTrue'
  BY <1>5, <1>6 DEF StatusTrue
<1> PICK who : who = Signals!Receipts(status'.delivered, a.slot)
  OBVIOUS
<1>8. who \subseteq Member /\ \A r \in who : Has(a.slot, r)'
  BY <1>3, <1>6 DEF Signals!Receipts
<1> DEFINE f == [a EXCEPT !.who = who]
<1>9. f \in FrameType /\ f.kind = "delivered" /\ f.slot = a.slot /\ f.who = who
  BY <1>1, <1>2, <1>8 DEF FrameType
<1>10. wire' = wire \cup Signals!FanOut(f)
  BY DEF Signals!ServeDelivered
<1> HIDE DEF f
<1>11. FrameTrue(f)'
  BY <1>8, <1>9 DEF FrameTrue
<1>12. \A m \in wire' : m \in wire \/ WireTrue(m)'
  BY <1>2, <1>9, <1>10, <1>11, FansOut
<1> QED
  BY <1>1, <1>4, <1>7, <1>12, TicksStay DEF TicksInv

\* What arrives at a page, first of what is not about receipts.
LEMMA ReceivedTyping ==
  ASSUME TicksInv, NEW m \in wire, wire' = wire \ {m},
         UNCHANGED <<log, looked, had, latest, rows, status, frames, up>>
  PROVE  TicksInv'
<1>1. LogTyped /\ Grown
  <2>1. m.to \in Member /\ 0 \in Nat /\ 0 <= Len(log) /\ LogTyped
    BY DEF TicksInv, LogTyped, WireTrue
  <2> QED
    BY <2>1, SeesMore DEF LogTyped
<1> QED
  BY <1>1, TicksStay DEF TicksInv

LEMMA ReceivedRead ==
  ASSUME TicksInv, NEW m \in wire, wire' = wire \ {m}, m.frame.kind = "read",
         Signals!MessagesRead(m.to, m.frame), UNCHANGED <<log, status, up>>
  PROVE  TicksInv'
<1> PICK q, f : q = m.to /\ f = m.frame
  OBVIOUS
<1>1. /\ q \in Member /\ f \in FrameType /\ LogTyped /\ RowsTrue(q)
      /\ looked[f.by] >= f.slot
  BY DEF TicksInv, WireTrue, FrameTrue
<1>2. f.by \in Member /\ f.slot \in Nat /\ looked[f.by] \in Nat /\ Len(log) \in Nat
  BY <1>1 DEF FrameType, LogTyped
<1>3. UNCHANGED <<looked, had, latest, frames>>
  BY DEF Signals!MessagesRead
<1>4. Grown
  BY <1>1, <1>2, <1>3, SeesMore DEF LogTyped
<1> DEFINE S == {i \in DOMAIN rows[q] : i <= f.slot}
           ReadToo(i) == [rows[q][i] EXCEPT !.readBy = @ \cup {f.by}]
<1>5. /\ DOMAIN rows' = Member /\ \A u \in Member \ {q} : rows'[u] = rows[u]
      /\ rows'[q] = [i \in DOMAIN rows[q] \cup S |-> IF i \in S THEN ReadToo(i) ELSE rows[q][i]]
  BY <1>1 DEF Signals!MessagesRead, Signals!With, Signals!Covers, TicksInv
<1>6. ASSUME NEW i \in S
      PROVE  /\ ReadToo(i) \in Receipts
             /\ \A r \in ReadToo(i).readBy : looked'[r] >= i
             /\ \A r \in ReadToo(i).deliveredTo : Has(i, r)'
  <2>1. rows[q][i] \in Receipts /\ i <= f.slot /\ i \in Nat
    BY <1>1 DEF RowsTrue
  <2>2. ReadToo(i) \in Receipts /\ ReadToo(i).readBy = rows[q][i].readBy \cup {f.by}
        /\ ReadToo(i).deliveredTo = rows[q][i].deliveredTo
    BY <1>2, <2>1 DEF Receipts
  <2>3. looked[f.by] >= i
    BY <1>1, <1>2, <2>1
  <2> HIDE DEF ReadToo
  <2> QED
    BY <1>1, <1>3, <2>2, <2>3 DEF RowsTrue, Has
<1>7. S \subseteq DOMAIN rows[q]
  OBVIOUS
<1> HIDE DEF S, ReadToo
<1>8. RowsTrue(q)'
  <2>1. DOMAIN rows'[q] = DOMAIN rows[q] /\ rows'[q] = [i \in DOMAIN rows'[q] |-> rows'[q][i]]
    BY <1>5, <1>7
  <2>2. DOMAIN rows'[q] \subseteq 1..Len(log)'
    BY <1>1, <2>1 DEF RowsTrue
  <2>3. \A i \in DOMAIN rows'[q] :
          IF i \in S THEN rows'[q][i] = ReadToo(i) ELSE rows'[q][i] = rows[q][i]
    BY <1>5
  <2> QED
    BY <1>1, <1>4, <1>6, <2>1, <2>2, <2>3, RowsCome
<1> QED
  BY <1>3, <1>4, <1>5, <1>8, TicksStay DEF TicksInv

LEMMA ReceivedDelivered ==
  ASSUME TicksInv, NEW m \in wire, wire' = wire \ {m}, m.frame.kind = "delivered",
         Signals!DeliveryUpdate(m.to, m.frame), UNCHANGED <<log, status, up>>
  PROVE  TicksInv'
<1> PICK q, f : q = m.to /\ f = m.frame
  OBVIOUS
<1>1. /\ q \in Member /\ f \in FrameType /\ LogTyped /\ RowsTrue(q)
      /\ \A r \in f.who : Has(f.slot, r)
  BY DEF TicksInv, WireTrue, FrameTrue
<1>2. f.who \subseteq Member /\ f.slot \in Nat /\ 0 \in Nat /\ 0 <= Len(log)
  BY <1>1 DEF FrameType, LogTyped
<1>3. UNCHANGED <<looked, had, latest, frames>>
  BY DEF Signals!DeliveryUpdate
<1>4. Grown
  BY <1>1, <1>2, <1>3, SeesMore DEF LogTyped
<1>5. CASE f.slot \notin DOMAIN rows[q]
  <2>1. rows' = rows
    BY <1>5 DEF Signals!DeliveryUpdate
  <2> QED
    BY <1>3, <1>4, <2>1, TicksStay DEF TicksInv
<1>6. CASE f.slot \in DOMAIN rows[q]
  <2>1. rows' = [rows EXCEPT ![q][f.slot].deliveredTo = f.who]
    BY <1>6 DEF Signals!DeliveryUpdate
  <2>2. DOMAIN rows' = Member /\ \A u \in Member \ {q} : rows'[u] = rows[u]
    BY <1>1, <2>1 DEF TicksInv
  <2>3. rows'[q] = [rows[q] EXCEPT ![f.slot].deliveredTo = f.who]
    BY <1>1, <2>1 DEF TicksInv
  <2>4. rows[q][f.slot] \in Receipts
    BY <1>1, <1>6 DEF RowsTrue
  <2> DEFINE new == [rows[q][f.slot] EXCEPT !.deliveredTo = f.who]
  <2>5. new \in Receipts /\ new.readBy = rows[q][f.slot].readBy /\ new.deliveredTo = f.who
    BY <1>2, <2>4 DEF Receipts
  <2>6. /\ DOMAIN rows'[q] = DOMAIN rows[q] /\ rows'[q] = [i \in DOMAIN rows'[q] |-> rows'[q][i]]
        /\ rows'[q][f.slot] = new
        /\ \A i \in DOMAIN rows[q] : i # f.slot => rows'[q][i] = rows[q][i]
    BY <1>1, <1>6, <2>3 DEF RowsTrue
  <2> HIDE DEF new
  <2>7. (\A r \in new.readBy : looked'[r] >= f.slot) /\ \A r \in new.deliveredTo : Has(f.slot, r)'
    BY <1>1, <1>3, <1>6, <2>5 DEF RowsTrue, Has
  <2>8. DOMAIN rows'[q] \subseteq 1..Len(log)'
    BY <1>1, <2>6 DEF RowsTrue
  <2>9. RowsTrue(q)'
    BY <1>1, <1>4, <2>5, <2>6, <2>7, <2>8, RowsCome
  <2> QED
    BY <1>3, <1>4, <2>2, <2>9, TicksStay DEF TicksInv
<1> QED
  BY <1>5, <1>6

LEMMA ReceivedNew ==
  ASSUME TicksInv, NEW m \in wire, wire' = wire \ {m}, m.frame.kind = "new",
         Signals!NewMessage(m.to, m.frame), UNCHANGED <<log, status, up>>
  PROVE  TicksInv'
<1> PICK q, f : q = m.to /\ f = m.frame
  OBVIOUS
<1>1. q \in Member /\ f \in FrameType /\ LogTyped /\ RowsTrue(q) /\ f.slot \in 1..Len(log)
  BY DEF TicksInv, WireTrue, FrameTrue
<1>2. /\ Len(log) \in Nat /\ f.slot \in Nat /\ f.slot <= Len(log) /\ up \subseteq Member
      /\ latest[q] \in Nat /\ latest[q] <= Len(log) /\ looked[q] \in Nat
  BY <1>1 DEF LogTyped
<1>3. /\ latest' = [latest EXCEPT ![q] = Signals!Greater(@, f.slot)]
      /\ rows' = IF f.slot \in DOMAIN rows[q] THEN rows
                 ELSE [rows EXCEPT ![q] = Signals!With(@, {f.slot}, Signals!Fresh)]
      /\ frames' = frames \cup (IF q \in bottom THEN Signals!MarkRead(q, f.slot) ELSE {})
                   \cup (IF f.by # q THEN Signals!Told(q, "delivered", f.slot) ELSE {})
      /\ looked' = IF q \in bottom THEN [looked EXCEPT ![q] = Signals!Greater(@, f.slot)] ELSE looked
      /\ had' = had \cup {<<f.slot, q>>}
  BY DEF Signals!NewMessage
<1>4. Signals!Greater(latest[q], f.slot) \in Nat /\ Signals!Greater(latest[q], f.slot) <= Len(log)
  BY <1>2, Greatest
<1>5. latest' \in [Member -> Nat] /\ \A u \in Member : latest'[u] <= Len(log)
  BY <1>1, <1>3, <1>4 DEF LogTyped
<1>6. Grown
  BY <1>1, <1>2, <1>3, <1>5, SeesMore
<1>7. \A a \in frames' : a \in frames \/ AskTrue(a)'
  <2>1. <<f.slot, q>> \in had'
    BY <1>3
  <2>2. \A a \in Signals!Told(q, "delivered", f.slot) : AskTrue(a)'
    BY <1>1, <1>2, <2>1, TellsTrue DEF Kinds
  <2>3. ASSUME q \in bottom  PROVE \A a \in Signals!Told(q, "read", f.slot) : AskTrue(a)'
    <3>1. looked'[q] >= f.slot
      BY <1>1, <1>2, <1>3, <2>3, Greatest DEF LogTyped
    <3> QED
      BY <1>1, <1>2, <3>1, TellsTrue DEF Kinds
  <2> QED
    BY <1>3, <2>2, <2>3 DEF Signals!MarkRead
<1>8. CASE f.slot \in DOMAIN rows[q]
  BY <1>3, <1>6, <1>7, <1>8, TicksStay DEF TicksInv
<1>9. CASE f.slot \notin DOMAIN rows[q]
  <2>1. /\ DOMAIN rows' = Member /\ \A u \in Member \ {q} : rows'[u] = rows[u]
        /\ rows'[q] = [i \in DOMAIN rows[q] \cup {f.slot} |->
                         IF i \in {f.slot} THEN Signals!Fresh(i) ELSE rows[q][i]]
    BY <1>1, <1>3, <1>9 DEF Signals!With, TicksInv
  <2>2. /\ DOMAIN rows'[q] \subseteq 1..Len(log)'
        /\ rows'[q] = [i \in DOMAIN rows'[q] |-> rows'[q][i]]
        /\ rows'[q][f.slot] = Signals!Fresh(f.slot)
        /\ \A i \in DOMAIN rows'[q] :
             i = f.slot \/ (i \in DOMAIN rows[q] /\ rows'[q][i] = rows[q][i])
    BY <1>1, <2>1 DEF RowsTrue
  <2>3. /\ Signals!Fresh(f.slot) \in Receipts /\ Signals!Fresh(f.slot).readBy = {}
        /\ \A r \in Signals!Fresh(f.slot).deliveredTo : r \in Member /\ Has(f.slot, r)
    BY <1>2, LoadedTrue DEF TicksInv
  <2>4. \A r \in rows'[q][f.slot].deliveredTo : Has(f.slot, r)'
    BY <1>2, <1>6, <2>2, <2>3, StillTrue
  <2>5. RowsTrue(q)'
    BY <1>1, <1>6, <2>2, <2>3, <2>4, RowsCome
  <2> QED
    BY <1>6, <1>7, <2>1, <2>5, TicksStay DEF TicksInv
<1> QED
  BY <1>8, <1>9

LEMMA ReceiveTicks ==
  ASSUME TicksInv, NEW m \in wire, Signals!Receive(m)
  PROVE  TicksInv'
<1>1. /\ wire' = wire \ {m}
      /\ CASE m.frame.kind = "new"       -> Signals!NewMessage(m.to, m.frame)
           [] m.frame.kind = "read"      -> Signals!MessagesRead(m.to, m.frame)
           [] m.frame.kind = "delivered" -> Signals!DeliveryUpdate(m.to, m.frame)
           [] m.frame.kind = "typing"    -> Signals!UserTyping(m.to, m.frame)
           [] m.frame.kind = "stop"      -> Signals!UserStopTyping(m.to, m.frame)
      /\ UNCHANGED <<log, status, up>>
  BY DEF Signals!Receive, Signals!server
<1>2. m.frame.kind \in Kinds
  BY DEF TicksInv, WireTrue, FrameType
<1>3. CASE m.frame.kind = "new"
  BY <1>1, <1>3, ReceivedNew
<1>4. CASE m.frame.kind = "read"
  BY <1>1, <1>4, ReceivedRead
<1>5. CASE m.frame.kind = "delivered"
  BY <1>1, <1>5, ReceivedDelivered
<1>6. CASE m.frame.kind = "typing"
  BY <1>1, <1>6, ReceivedTyping DEF Signals!UserTyping
<1>7. CASE m.frame.kind = "stop"
  BY <1>1, <1>7, ReceivedTyping DEF Signals!UserStopTyping
<1> QED
  BY <1>2, <1>3, <1>4, <1>5, <1>6, <1>7 DEF Kinds

LEMMA StepTicks ==
  ASSUME TicksInv, NEW p \in Member, Signals!Steps(p)
  PROVE  TicksInv'
<1>1. CASE Signals!Compose(p)
  BY <1>1, QuietTicks DEF Signals!Compose, Signals!server, Signals!history
<1>2. CASE Signals!Posted(p)
  BY <1>2, PostedTicks
<1>3. CASE Signals!Scroll(p)
  BY <1>3, ScrollTicks
<1>4. CASE Signals!Type(p)
  BY <1>4, QuietTicks DEF Signals!Type, Signals!server, Signals!page, Signals!history
<1>5. CASE Signals!StopTyping(p)
  BY <1>5, QuietTicks DEF Signals!StopTyping, Signals!server, Signals!page, Signals!history
<1>6. CASE Signals!Relay(p)
  BY <1>6, QuietTicks DEF Signals!Relay, Signals!page
<1>7. CASE Signals!Sweep(p)
  BY <1>7, QuietTicks DEF Signals!Sweep, Signals!Stop, Signals!page
<1>8. CASE Signals!Drop(p)
  <2>1. UNCHANGED <<log, looked, had, latest, rows, status>> /\ up' \subseteq up
    BY <1>8 DEF Signals!Drop
  <2>2. frames' \subseteq frames /\ wire' \subseteq wire
    BY <1>8 DEF Signals!Drop
  <2> QED
    BY <2>1, <2>2, QuietTicks
<1>9. CASE Signals!Disconnected(p)
  BY <1>9, QuietTicks DEF Signals!Disconnected, Signals!page
<1>10. CASE Signals!Reconnect(p)
  BY <1>10, ReconnectTicks
<1>11. CASE Signals!Mount(p)
  BY <1>11, MountTicks
<1> QED
  BY <1>1, <1>2, <1>3, <1>4, <1>5, <1>6, <1>7, <1>8, <1>9, <1>10, <1>11 DEF Signals!Steps

LEMMA ServeTicks ==
  ASSUME TicksInv, NEW a \in frames, Signals!Serve(a)
  PROVE  TicksInv'
<1>1. a.by \in Member
  BY DEF TicksInv, AskTrue, FrameType
<1>2. CASE Signals!ServeRead(a)
  BY <1>2, ServeReadTicks
<1>3. CASE Signals!ServeDelivered(a)
  BY <1>3, ServeDeliveredTicks
<1>4. CASE Signals!TypingStarted(a)
  BY <1>1, <1>4, QuietTicks DEF Signals!TypingStarted, Signals!page, Signals!history
<1>5. CASE Signals!ServeStop(a)
  BY <1>1, <1>5, QuietTicks DEF Signals!ServeStop, Signals!Stop, Signals!page
<1> QED
  BY <1>2, <1>3, <1>4, <1>5 DEF Signals!Serve

LEMMA TicksKept ==
  ASSUME TicksInv, [Signals!NextSignals]_(Signals!signals)
  PROVE  TicksInv'
<1>1. CASE UNCHANGED Signals!signals
  BY <1>1 DEF Signals!signals, Signals!server, Signals!page, Signals!history, TicksInv, LogTyped,
     StatusTrue, RowsTrue, AskTrue, WireTrue, FrameTrue, Has
<1>2. CASE Signals!NextSignals
  BY <1>2, StepTicks, ServeTicks, ReceiveTicks DEF Signals!NextSignals
<1> QED
  BY <1>1, <1>2

LEMMA TicksStart == Signals!InitSignals => TicksInv
<1> SUFFICES ASSUME Signals!InitSignals  PROVE TicksInv
  OBVIOUS
<1>1. LogTyped
  BY DEF Signals!InitSignals, LogTyped
<1>2. StatusTrue
  BY DEF Signals!InitSignals, StatusTrue
<1>3. \A q \in Member : RowsTrue(q)
  <2>1. \A q \in Member : rows[q] = <<>>
    BY DEF Signals!InitSignals
  <2>2. <<>> \in Seq(Receipts) /\ Len(<<>>) = 0
    OBVIOUS
  <2>3. DOMAIN <<>> = {} /\ <<>> \in [{} -> Receipts]
    BY <2>2
  <2> QED
    BY <2>1, <2>3 DEF RowsTrue
<1> QED
  BY <1>1, <1>2, <1>3 DEF Signals!InitSignals, TicksInv

\* Whoever is listed as a message's reader has had it, or a later one, on display at the
\* bottom; whoever is listed as having it was sent it or has read that far; however receipts,
\* loads and lost connections cross (useReadReceipts, MessageService.markRead).
THEOREM TicksTrueAlways == SignalsSpec => []TicksTrue
<1>1. TicksInv => TicksTrue
  BY DEF TicksInv, RowsTrue, Has, TicksTrue, Signals!TicksTrue
<1> QED
  BY <1>1, TicksStart, TicksKept, PTL DEF SignalsSpec, Signals!SpecSignals

-----------------------------------------------------------------------------
(* Who is typing. *)

Notice(kind, p) == Signals!Frame(kind, p, 0, {})
OnWire(q, kind, p) == [to |-> q, frame |-> Notice(kind, p)] \in wire

\* Where p is shown typing, or is about to be, the server watches p or has told q to stop;
\* or it is one of the cases in which nothing is left to take the indicator away.
Watched(q, p) == <<q, p>> \in orphans \/ p \in owned \/ OnWire(q, "stop", p)
WellFormed(m) ==
  /\ m = [to |-> m.to, frame |-> m.frame] /\ m.to \in Member
  /\ m.frame.by \in Member /\ m.frame.kind \in Kinds
  /\ m.frame.kind \in {"typing", "stop"} => m.frame = Notice(m.frame.kind, m.frame.by)
TypingTyped ==
  /\ typingUsers \in [Member -> SUBSET Member] /\ up \subseteq Member
  /\ \A a \in frames : a.by \in Member
  /\ \A m \in wire : WellFormed(m)
TypingInv ==
  /\ TypingTyped
  /\ \A q, p \in Member : p \in typingUsers[q] \/ OnWire(q, "typing", p) => Watched(q, p)

LEMMA Notices ==
  ASSUME NEW kind, NEW p
  PROVE  Notice(kind, p).kind = kind /\ Notice(kind, p).by = p
BY DEF Notice, Signals!Frame

\* A frame that says nothing about typing changes nothing about it.
LEMMA TypingAside ==
  ASSUME TypingInv, UNCHANGED <<typingUsers, owned, orphans>>, up' \subseteq Member,
         \A a \in frames' : a \in frames \/ a.by \in Member,
         NEW f, f.by \in Member, f.kind \in Kinds \ {"typing", "stop"},
         wire' = wire \/ wire' = wire \cup Signals!FanOut(f)
  PROVE  TypingInv'
<1>1. \A m \in Signals!FanOut(f) : m.frame = f /\ m.to \in Member /\ m = [to |-> m.to, frame |-> m.frame]
  BY DEF Signals!FanOut, TypingInv, TypingTyped
<1>2. TypingTyped'
  BY <1>1 DEF TypingInv, TypingTyped, WellFormed
<1>3. \A q, p \in Member :
        /\ OnWire(q, "typing", p)' => OnWire(q, "typing", p)
        /\ OnWire(q, "stop", p) => OnWire(q, "stop", p)'
  BY <1>1, Notices DEF OnWire
<1>4. ASSUME NEW q \in Member, NEW p \in Member, p \in typingUsers'[q] \/ OnWire(q, "typing", p)'
      PROVE  Watched(q, p)'
  <2>1. Watched(q, p)
    BY <1>3, <1>4 DEF TypingInv
  <2> QED
    BY <1>3, <2>1 DEF Watched
<1> QED
  BY <1>2, <1>4 DEF TypingInv

LEMMA RelayTyping ==
  ASSUME TypingInv, NEW p \in Member, Signals!Relay(p)
  PROVE  TypingInv'
<1> DEFINE f == Notice("typing", p)
<1>1. /\ wire' = wire \cup Signals!FanOut(f) /\ UNCHANGED <<typingUsers, owned, up, frames>>
      /\ orphans' = IF p \in owned THEN orphans ELSE orphans \cup (Member \X {p})
  BY DEF Signals!Relay, Signals!page, Signals!typing, Notice
<1>2. f.kind = "typing" /\ f.by = p
  BY Notices
<1>3. \A m \in Signals!FanOut(f) : m.frame = f /\ m.to \in Member /\ m = [to |-> m.to, frame |-> m.frame]
  BY DEF Signals!FanOut, TypingInv, TypingTyped
<1>4. TypingTyped'
  <2> HIDE DEF f
  <2>1. f = Notice(f.kind, f.by)
    BY <1>2 DEF f
  <2> QED
    BY <1>1, <1>2, <1>3, <2>1 DEF TypingInv, TypingTyped, WellFormed, Kinds
<1>5. ASSUME NEW q \in Member, NEW r \in Member, r \in typingUsers'[q] \/ OnWire(q, "typing", r)'
      PROVE  Watched(q, r)'
  <2>1. CASE r = p
    BY <1>1, <2>1 DEF Watched
  <2>2. CASE r # p
    <3>1. OnWire(q, "typing", r)' => OnWire(q, "typing", r)
      BY <1>1, <1>2, <1>3, <2>2, Notices DEF OnWire
    <3>2. Watched(q, r)
      BY <1>1, <1>5, <3>1 DEF TypingInv
    <3> QED
      BY <1>1, <3>2 DEF Watched, OnWire
  <2> QED
    BY <2>1, <2>2
<1> QED
  BY <1>4, <1>5 DEF TypingInv

LEMMA StopTyping ==
  ASSUME TypingInv, NEW p \in Member, Signals!Stop(p), UNCHANGED <<typingUsers, up>>,
         frames' \subseteq frames
  PROVE  TypingInv'
<1> DEFINE f == Notice("stop", p)
<1>1. /\ wire' = wire \cup Signals!FanOut(f) /\ owned' = owned \ {p}
      /\ orphans' = orphans \cup ((Member \ up) \X {p})
  BY DEF Signals!Stop, Notice
<1>2. f.kind = "stop" /\ f.by = p
  BY Notices
<1>3. \A m \in Signals!FanOut(f) : m.frame = f /\ m.to \in Member /\ m = [to |-> m.to, frame |-> m.frame]
  BY DEF Signals!FanOut, TypingInv, TypingTyped
<1>4. TypingTyped'
  <2> HIDE DEF f
  <2>1. f = Notice(f.kind, f.by)
    BY <1>2 DEF f
  <2> QED
    BY <1>1, <1>2, <1>3, <2>1 DEF TypingInv, TypingTyped, WellFormed, Kinds
<1>5. \A q \in up : OnWire(q, "stop", p)'
  BY <1>1 DEF OnWire, Signals!FanOut
<1>6. ASSUME NEW q \in Member, NEW r \in Member, r \in typingUsers'[q] \/ OnWire(q, "typing", r)'
      PROVE  Watched(q, r)'
  <2>1. CASE r = p
    BY <1>1, <1>5, <2>1 DEF Watched
  <2>2. CASE r # p
    <3>1. OnWire(q, "typing", r)' => OnWire(q, "typing", r)
      BY <1>1, <1>2, <1>3, Notices DEF OnWire
    <3>2. Watched(q, r)
      BY <1>6, <3>1 DEF TypingInv
    <3> QED
      BY <1>1, <2>2, <3>2 DEF Watched, OnWire
  <2> QED
    BY <2>1, <2>2
<1> QED
  BY <1>4, <1>6 DEF TypingInv

\* What arrives leaves the wire, and in the end nothing on it is looked at twice.
LEMMA ArrivesTyping ==
  ASSUME TypingInv, NEW m \in wire, Signals!Receive(m)
  PROVE  TypingInv'
<1> PICK q, f : q = m.to /\ f = m.frame
  OBVIOUS
<1>1. /\ q \in Member /\ f.by \in Member /\ f.kind \in Kinds /\ m = [to |-> q, frame |-> f]
      /\ f.kind \in {"typing", "stop"} => f = Notice(f.kind, f.by)
  BY DEF TypingInv, TypingTyped, WellFormed
<1>2. wire' = wire \ {m} /\ UNCHANGED <<owned, up>>
  BY DEF Signals!Receive, Signals!server
<1>3. \A u, r \in Member, kind \in {"typing", "stop"} :
        /\ OnWire(u, kind, r)' => OnWire(u, kind, r)
        /\ OnWire(u, kind, r) => OnWire(u, kind, r)' \/ (u = q /\ r = f.by /\ kind = f.kind)
  BY <1>1, <1>2, Notices DEF OnWire
<1>4. CASE f.kind \notin {"typing", "stop"}
  <2>0. \A kind, n : \A a \in Signals!Told(q, kind, n) : a.by = q
    BY DEF Signals!Told, Signals!Frame
  <2>1. /\ UNCHANGED <<typingUsers, orphans>>
        /\ \A a \in frames' : a \in frames \/ a.by = q
    <3>1. CASE f.kind = "new"
      BY <2>0, <3>1 DEF Signals!Receive, Signals!NewMessage, Signals!MarkRead
    <3>2. CASE f.kind = "read"
      BY <3>2 DEF Signals!Receive, Signals!MessagesRead
    <3>3. CASE f.kind = "delivered"
      BY <3>3 DEF Signals!Receive, Signals!DeliveryUpdate
    <3> QED
      BY <1>1, <1>4, <3>1, <3>2, <3>3 DEF Kinds
  <2>2. TypingTyped'
    BY <1>1, <1>2, <2>1 DEF TypingInv, TypingTyped, WellFormed
  <2>3. ASSUME NEW u \in Member, NEW r \in Member, r \in typingUsers'[u] \/ OnWire(u, "typing", r)'
        PROVE  Watched(u, r)'
    <3>1. Watched(u, r)
      BY <1>3, <2>1, <2>3 DEF TypingInv
    <3> QED
      BY <1>2, <1>3, <1>4, <2>1, <3>1 DEF Watched
  <2> QED
    BY <2>2, <2>3 DEF TypingInv
<1>5. CASE f.kind = "typing"
  <2>1. /\ UNCHANGED <<frames, orphans>>
        /\ typingUsers' = typingUsers \/ typingUsers' = [typingUsers EXCEPT ![q] = @ \cup {f.by}]
    BY <1>5 DEF Signals!Receive, Signals!UserTyping
  <2>2. TypingTyped'
    BY <1>1, <1>2, <2>1 DEF TypingInv, TypingTyped, WellFormed
  <2>3. OnWire(q, "typing", f.by)
    BY <1>1, <1>5 DEF OnWire
  <2>4. ASSUME NEW u \in Member, NEW r \in Member, r \in typingUsers'[u] \/ OnWire(u, "typing", r)'
        PROVE  Watched(u, r)'
    <3>1. \/ r \in typingUsers[u] \/ OnWire(u, "typing", r)
          \/ u = q /\ r = f.by
      BY <1>1, <1>3, <2>1, <2>4 DEF TypingInv, TypingTyped
    <3>2. Watched(u, r)
      BY <2>3, <3>1 DEF TypingInv
    <3> QED
      BY <1>2, <1>3, <1>5, <2>1, <3>2 DEF Watched
  <2> QED
    BY <2>2, <2>4 DEF TypingInv
<1>6. CASE f.kind = "stop"
  <2>1. /\ UNCHANGED frames /\ typingUsers' = [typingUsers EXCEPT ![q] = @ \ {f.by}]
        /\ orphans' = IF [to |-> q, frame |-> [f EXCEPT !.kind = "typing"]] \in wire
                        THEN orphans \cup {<<q, f.by>>} ELSE orphans \ {<<q, f.by>>}
    BY <1>6 DEF Signals!Receive, Signals!UserStopTyping
  <2>2. TypingTyped'
    BY <1>1, <1>2, <2>1 DEF TypingInv, TypingTyped, WellFormed
  <2>3. [f EXCEPT !.kind = "typing"] = Notice("typing", f.by)
    <3>1. f = [kind |-> "stop", by |-> f.by, slot |-> 0, who |-> {}]
      BY <1>1, <1>6 DEF Notice, Signals!Frame
    <3> QED
      BY <3>1 DEF Notice, Signals!Frame
  <2>4. ASSUME NEW u \in Member, NEW r \in Member, r \in typingUsers'[u] \/ OnWire(u, "typing", r)'
        PROVE  Watched(u, r)'
    <3>1. CASE u = q /\ r = f.by
      <4>1. r \notin typingUsers'[u]
        BY <1>1, <2>1, <3>1 DEF TypingInv, TypingTyped
      <4>2. OnWire(q, "typing", f.by)
        BY <1>3, <2>4, <3>1, <4>1
      <4>3. <<u, r>> \in orphans'
        BY <2>1, <2>3, <3>1, <4>2 DEF OnWire
      <4> QED
        BY <4>3 DEF Watched
    <3>2. CASE ~(u = q /\ r = f.by)
      <4>1. r \in typingUsers[u] \/ OnWire(u, "typing", r)
        BY <1>1, <1>3, <2>1, <2>4 DEF TypingInv, TypingTyped
      <4>2. Watched(u, r)
        BY <4>1 DEF TypingInv
      <4>3. <<u, r>> \in orphans => <<u, r>> \in orphans'
        BY <2>1, <3>2
      <4> QED
        BY <1>2, <1>3, <3>2, <4>2, <4>3 DEF Watched
    <3> QED
      BY <3>1, <3>2
  <2> QED
    BY <2>2, <2>4 DEF TypingInv
<1> QED
  BY <1>4, <1>5, <1>6

LEMMA DropTyping ==
  ASSUME TypingInv, NEW p \in Member, Signals!Drop(p)
  PROVE  TypingInv'
<1>1. /\ up' \subseteq up /\ frames' \subseteq frames /\ wire' = {m \in wire : m.to # p}
      /\ orphans' = orphans \cup {<<p, q>> : q \in {r \in Member : OnWire(p, "stop", r)}}
      /\ UNCHANGED <<typingUsers, owned>>
  BY DEF Signals!Drop, Signals!typing, OnWire, Notice
<1>2. TypingTyped'
  BY <1>1 DEF TypingInv, TypingTyped, WellFormed
<1>3. ASSUME NEW q \in Member, NEW r \in Member, r \in typingUsers'[q] \/ OnWire(q, "typing", r)'
      PROVE  Watched(q, r)'
  <2>1. Watched(q, r)
    BY <1>1, <1>3 DEF TypingInv, OnWire
  <2>2. CASE q = p
    BY <1>1, <2>1, <2>2 DEF Watched
  <2>3. CASE q # p
    BY <1>1, <2>1, <2>3 DEF Watched, OnWire
  <2> QED
    BY <2>2, <2>3
<1> QED
  BY <1>2, <1>3 DEF TypingInv

LEMMA DisconnectedTyping ==
  ASSUME TypingInv, NEW p \in Member, Signals!Disconnected(p)
  PROVE  TypingInv'
<1>1. /\ owned' = owned \ {p} /\ UNCHANGED <<typingUsers, up, frames, wire>>
      /\ orphans' = IF p \in owned THEN orphans \cup (Member \X {p}) ELSE orphans
  BY DEF Signals!Disconnected, Signals!page, Signals!typing
<1>2. TypingTyped'
  BY <1>1 DEF TypingInv, TypingTyped, WellFormed
<1>3. ASSUME NEW q \in Member, NEW r \in Member, r \in typingUsers'[q] \/ OnWire(q, "typing", r)'
      PROVE  Watched(q, r)'
  <2>1. Watched(q, r)
    BY <1>1, <1>3 DEF TypingInv, OnWire
  <2> QED
    BY <1>1, <2>1 DEF Watched, OnWire
<1> QED
  BY <1>2, <1>3 DEF TypingInv

LEMMA MountTyping ==
  ASSUME TypingInv, NEW p \in Member, Signals!Mount(p)
  PROVE  TypingInv'
<1>1. /\ typingUsers' = [typingUsers EXCEPT ![p] = {}] /\ wire' = {m \in wire : m.to # p}
      /\ orphans' = {o \in orphans : o[1] # p} /\ UNCHANGED <<owned, up>>
      /\ \A a \in frames' : a \in frames \/ a.by = p
  BY DEF Signals!Mount, Signals!server, Signals!MarkRead, Signals!Told, Signals!Frame
<1>2. TypingTyped'
  BY <1>1 DEF TypingInv, TypingTyped, WellFormed
<1>3. ASSUME NEW q \in Member, NEW r \in Member, r \in typingUsers'[q] \/ OnWire(q, "typing", r)'
      PROVE  Watched(q, r)'
  <2>1. q # p /\ Watched(q, r)
    BY <1>1, <1>3 DEF TypingInv, TypingTyped, OnWire
  <2> QED
    BY <1>1, <2>1 DEF Watched, OnWire
<1> QED
  BY <1>2, <1>3 DEF TypingInv

LEMMA StepTyping ==
  ASSUME TypingInv, NEW p \in Member, Signals!Steps(p)
  PROVE  TypingInv'
<1>1. \A kind, n : \A a \in Signals!Told(p, kind, n) : a.by = p
  BY DEF Signals!Told, Signals!Frame
<1>2. up \subseteq Member
  BY DEF TypingInv, TypingTyped
<1> DEFINE new(n) == Signals!Frame("new", p, n, {})
<1>3. \A n : new(n).by = p /\ new(n).kind = "new"
  BY DEF Signals!Frame
<1> HIDE DEF new
<1>4. \/ Signals!Compose(p) \/ Signals!Scroll(p) \/ Signals!Type(p) \/ Signals!StopTyping(p)
      \/ Signals!Reconnect(p)
      => TypingInv'
  <2> SUFFICES ASSUME \/ Signals!Compose(p) \/ Signals!Scroll(p) \/ Signals!Type(p)
                      \/ Signals!StopTyping(p) \/ Signals!Reconnect(p)
               PROVE  TypingInv'
    OBVIOUS
  <2>1. /\ UNCHANGED <<typingUsers, owned, orphans, wire>> /\ up' \subseteq up \cup {p}
        /\ \A a \in frames' : a \in frames \/ a.by = p
    BY <1>1 DEF Signals!Compose, Signals!Scroll, Signals!Type, Signals!StopTyping,
       Signals!Reconnect, Signals!server, Signals!page, Signals!typing, Signals!history,
       Signals!MarkRead
  <2>2. up' \subseteq Member
    BY <1>2, <2>1
  <2> QED
    BY <1>3, <2>1, <2>2, TypingAside DEF Kinds
<1>5. CASE Signals!Posted(p)
  <2> PICK n : n = Len(log')
    OBVIOUS
  <2>1. /\ wire' = wire \cup Signals!FanOut(new(n))
        /\ UNCHANGED <<typingUsers, owned, orphans, up, frames>>
    BY <1>5 DEF Signals!Posted, Signals!typing, Signals!history, new
  <2> QED
    BY <1>2, <1>3, <2>1, TypingAside DEF Kinds
<1>6. CASE Signals!Sweep(p)
  BY <1>6, StopTyping DEF Signals!Sweep, Signals!page, Signals!typing
<1> QED
  BY <1>4, <1>5, <1>6, RelayTyping, DropTyping, DisconnectedTyping, MountTyping DEF Signals!Steps

LEMMA ServeTyping ==
  ASSUME TypingInv, NEW a \in frames, a \in FrameType, Signals!Serve(a)
  PROVE  TypingInv'
<1>1. a.by \in Member /\ up \subseteq Member
  BY DEF TypingInv, TypingTyped
<1>2. CASE Signals!ServeRead(a)
  <2>1. /\ wire' = wire \cup Signals!FanOut(a) /\ a.kind = "read" /\ frames' \subseteq frames
        /\ UNCHANGED <<typingUsers, owned, orphans, up>>
    BY <1>2 DEF Signals!ServeRead, Signals!page, Signals!typing, Signals!history
  <2> QED
    BY <1>1, <2>1, TypingAside DEF Kinds
<1>3. CASE Signals!ServeDelivered(a)
  <2> PICK who : who = Signals!Receipts(status'.delivered, a.slot)
    OBVIOUS
  <2> DEFINE f == [a EXCEPT !.who = who]
  <2>1. f.by = a.by /\ f.kind = a.kind
    BY DEF FrameType
  <2>2. /\ wire' = wire \cup Signals!FanOut(f) /\ a.kind = "delivered" /\ frames' \subseteq frames
        /\ UNCHANGED <<typingUsers, owned, orphans, up>>
    BY <1>3 DEF Signals!ServeDelivered, Signals!page, Signals!typing, Signals!history
  <2> HIDE DEF f
  <2> QED
    BY <1>1, <2>1, <2>2, TypingAside DEF Kinds
<1>4. CASE Signals!TypingStarted(a)
  <2>1. /\ owned' = owned \cup {a.by} /\ frames' \subseteq frames
        /\ UNCHANGED <<typingUsers, orphans, wire, up>>
    BY <1>4 DEF Signals!TypingStarted, Signals!page, Signals!typing, Signals!history
  <2>2. TypingTyped'
    BY <2>1 DEF TypingInv, TypingTyped, WellFormed
  <2> QED
    BY <2>1, <2>2 DEF TypingInv, Watched, OnWire
<1>5. CASE Signals!ServeStop(a)
  BY <1>1, <1>5, StopTyping DEF Signals!ServeStop, Signals!page, Signals!typing
<1> QED
  BY <1>2, <1>3, <1>4, <1>5 DEF Signals!Serve

LEMMA TypingKept ==
  ASSUME TypingInv, TicksInv, [Signals!NextSignals]_(Signals!signals)
  PROVE  TypingInv'
<1>1. CASE UNCHANGED Signals!signals
  BY <1>1 DEF Signals!signals, Signals!server, Signals!page, Signals!typing, Signals!history,
     TypingInv, TypingTyped, WellFormed, Watched, OnWire
<1>2. CASE Signals!NextSignals
  <2>1. \A a \in frames : a \in FrameType
    BY DEF TicksInv, AskTrue
  <2> QED
    BY <1>2, <2>1, StepTyping, ServeTyping, ArrivesTyping DEF Signals!NextSignals
<1> QED
  BY <1>1, <1>2

\* Who has stopped typing is no longer shown as typing once nothing about it is on its way,
\* whichever of the timer, a send or the sweep stopped it (PresenceGateway.java, sweepTyping;
\* ChatroomPage.tsx, handleStopTyping).
THEOREM TypingEndsAlways == SignalsSpec => []TypingEnds
<1>1. Signals!InitSignals => TypingInv
  BY DEF Signals!InitSignals, TypingInv, TypingTyped, OnWire
<1>2. TypingInv => TypingEnds
  <2> SUFFICES ASSUME TypingInv, NEW q \in Member, NEW p \in Member, Signals!Settled(q, p),
                      p \in typingUsers[q]
               PROVE  <<q, p>> \in orphans
    BY DEF TypingEnds, Signals!TypingEnds
  <2>1. Watched(q, p)
    BY DEF TypingInv
  <2>2. ~OnWire(q, "stop", p)
    <3> DEFINE m == [to |-> q, frame |-> Notice("stop", p)]
    <3>1. m.to = q /\ m.frame.by = p
      BY Notices
    <3> HIDE DEF m
    <3>2. m \notin wire
      BY <3>1 DEF Signals!Settled
    <3> QED
      BY <3>2 DEF m, OnWire
  <2> QED
    BY <2>1, <2>2 DEF Watched, Signals!Settled
<1> QED
  BY <1>1, <1>2, TypingKept, TicksStart, TicksKept, PTL DEF SignalsSpec, Signals!SpecSignals
=============================================================================
