---------------------------- MODULE MCPages -------------------------------
(***************************************************************************)
(* The room page's composer, a search box and the tabs of the browser they *)
(* are in, for TLC: two rooms, two people whose names begin alike, and     *)
(* transcripts with a name in either case, a part of a name, an e-mail     *)
(* address, a token somebody typed and an identifier that shows late; two  *)
(* tabs and two sign-ins; two queries in two conversations.                *)
(***************************************************************************)
EXTENDS Composer

Home == [r \in Room |-> IF r = "red" THEN {"ann", "anna"} ELSE {"anna"}]
Beginnings == {<<"ann", "anna">>}
Parts == [p \in Person |-> IF p = "anna" THEN {"rao"} ELSE {}]

Says(who, said) == [who |-> who, text |-> said]
Word == Atom("word", "hello", FALSE)
Talks == {
  <<Says("ann", <<Word>>), Says("anna", <<Atom("name", "ann", TRUE), Atom("EMAIL", "ann@x", FALSE)>>),
    Says("ann", <<Atom("EMAIL", "anna@x", TRUE), Atom("EMAIL", "ann@x", TRUE), Atom("name", "rao", FALSE)>>)>>,
  <<Says("anna", <<TokenAtom("PERSON", 1), Atom("CARD", "4111", FALSE)>>), Says("ann", <<>>)>>,
  <<Says("ann", <<Atom("odd", "x", FALSE)>>)>> }

CONSTANTS
  BrowserTab, MaxSessions, MaxAsks, MaxCalls,  \* see SessionTabs
  Query, Place, MaxOpen                        \* see SearchBox

ASSUME PagesAssumption == {MaxSessions, MaxAsks, MaxCalls, MaxOpen} \subseteq Nat

TabSymmetry == Permutations(BrowserTab)

VARIABLES
  scene,                                           \* see InComposer
  store, cookie, live, page, claims, calls, asks, started, leaving, newest, spoilt,
  typed, place, due, open, hits, searching

tabs == <<store, cookie, live, page, claims, calls, asks, started, leaving, newest, spoilt>>
box == <<typed, place, due, open, hits, searching>>

Tabs == INSTANCE SessionTabs WITH Tab <- BrowserTab
Box == INSTANCE SearchBox

InitScene ==
  /\ Init /\ Tabs!InitTabs /\ Box!InitBox
  /\ scene \in {"mentions", "tone", "files", "voice", "pilot", "tabs", "search"}
  /\ place = CHOOSE p \in Place : TRUE
  /\ scene \in {"tabs", "search"} => room = CHOOSE r \in Room : TRUE

\* What is not used together is not checked together: mentions and suggestions, the tone
\* hint, files, voice messages, the co-pilot's transcripts; the tabs; the search box.
InComposer ==
  \/ scene = "mentions" /\ (Writing \/ Mentioning \/ Move \/ Advised \/ Suggested)
  \/ scene = "tone" /\ (Writing \/ SetTimed \/ Toning)
  \/ scene = "files" /\ (Attach \/ Delivering)
  \/ scene = "voice" /\ (Recording \/ Delivering)
  \/ scene = "pilot" /\ (Suggested \/ Summarised)

NextScene ==
  /\ UNCHANGED scene
  /\ \/ InComposer /\ UNCHANGED <<tabs, box>>
     \/ scene = "tabs" /\ Tabs!NextTabs /\ UNCHANGED <<vars, box>>
     \/ scene = "search" /\ Box!NextBox /\ UNCHANGED <<vars, tabs>>

SceneSpec == InitScene /\ [][NextScene]_<<vars, tabs, box, scene>>

Typed == TypeOK /\ Tabs!TabsTypeOK
\* An answer shown belongs to what it was asked for: the tone hint, and the search's hits.
AnswersMatch == HintMatches /\ Box!ResultsCurrent
\* A browser stays signed in (see SessionTabs).
KeepsItsSession == Tabs!KeepsItsSession
=============================================================================
