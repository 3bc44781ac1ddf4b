------------------------------ MODULE CoPilot ------------------------------
(***************************************************************************)
(* The AI co-pilot of a room: AICoPilot over summarizeRedacted and         *)
(* PiiRedactor.  A transcript is redacted in the browser, only tokens are  *)
(* posted, and the answer is put back together from a map that never       *)
(* leaves.                                                                 *)
(*                                                                         *)
(* Text is a sequence of atoms: words, person names, identifiers that a    *)
(* detector recognises, and tokens somebody typed.  "odd" is an identifier *)
(* the detectors only recognise once its neighbours are gone.  The service *)
(* and its model are external: an answer is any few words and tokens.  The *)
(* summary the server makes itself of a room with no transcript shown is   *)
(* left out.                                                               *)
(***************************************************************************)
EXTENDS Naturals, Sequences, SequencesExt, FiniteSets

CONSTANTS
  Person,       \* people, as the atoms that name them; a name's parts are atoms too
  PartsOf,      \* the parts of three letters or more of each person's name
  Transcript,   \* transcripts a room may show: sequences of [who, text]
  MaxLines,     \* slice(-50)
  MaxPosts      \* bound: summaries asked for

ASSUME CoPilotAssumption ==
  /\ PartsOf \in [Person -> SUBSET Person]
  /\ {MaxLines, MaxPosts} \subseteq Nat

VARIABLES
  panel,    \* is the panel open?
  asked,    \* the summary asked for and not answered, or None
  summary,  \* what is shown for one
  advising, \* suggestions asked for and not answered
  advice,   \* are suggestions shown?
  posted    \* history: what was posted, and what it was made from

pilot == <<panel, asked, summary, advising, advice, posted>>

\* An atom: what it is, its value, and whether it is in capitals.
Atom(is, val, caps) == [is |-> is, val |-> val, caps |-> caps]
TokenAtom(type, n) == Atom("token", <<type, n>>, TRUE)
NoAsk == <<>>

InitPilot ==
  /\ panel = FALSE /\ asked = NoAsk /\ summary = <<>>
  /\ advising = FALSE /\ advice = FALSE /\ posted = {}

-----------------------------------------------------------------------------
(* PiiRedactor. *)

\* Faulty variant: only the people on-line, not those who wrote.
OnlineNames(online, lines) == UNION {{p} \cup PartsOf[p] : p \in online}

\* The dictionary: the room's people and the authors, whole names and their parts.
Names(online, lines) ==
  UNION {{p} \cup PartsOf[p] : p \in online \cup {lines[i].who : i \in DOMAIN lines}}

\* What a detector makes of an atom: identifiers by pattern, names by dictionary.
TypeOf(names, a) ==
  IF a.is \in {"EMAIL", "CARD"} THEN a.is
  ELSE IF a.is = "name" /\ a.val \in names THEN "PERSON" ELSE "none"

\* Letter case does not tell persons and e-mail addresses apart.
SameKey(a, b) == a.is = b.is /\ a.val = b.val

\* One session: the atoms that were given a token, in the order of their tokens.
Noted(names, session, a) ==
  IF TypeOf(names, a) = "none" \/ \E i \in DOMAIN session : SameKey(session[i], a)
    THEN session ELSE Append(session, a)

Session(names, line, all) == FoldLeft(LAMBDA s, a : Noted(names, s, a), <<>>, all)

\* tokenFor: numbered within the type.
TokenFor(names, session, a) ==
  LET i == CHOOSE j \in DOMAIN session : SameKey(session[j], a)
      type == TypeOf(names, a)
  IN TokenAtom(type, Cardinality({j \in 1..i : TypeOf(names, session[j]) = type}))

Redacted(names, session, text) ==
  [i \in DOMAIN text |->
     IF TypeOf(names, text[i]) = "none" THEN text[i] ELSE TokenFor(names, session, text[i])]

\* rehydrate: unknown tokens are left as they are.
Rehydrated(names, session, text) ==
  LET Stands(t) == {j \in DOMAIN session : TokenFor(names, session, session[j]) = t}
  IN [i \in DOMAIN text |->
        IF Stands(text[i]) = {} THEN text[i] ELSE session[CHOOSE j \in Stands(text[i]) : TRUE]]

\* containsPii: the patterns once more, without the dictionary.
ContainsPii(text) == \E i \in DOMAIN text : text[i].is \in {"EMAIL", "CARD", "odd"}

-----------------------------------------------------------------------------
(* summarizeRedacted and the panel. *)

\* Who wrote, then what, line by line; empty lines are filtered out.
Spoken(lines) ==
  FlattenSeq([i \in DOMAIN lines |->
                IF lines[i].text = <<>> THEN <<>>
                ELSE <<Atom("name", lines[i].who, FALSE)>> \o lines[i].text])

Recent(lines) == SubSeq(lines, IF Len(lines) > MaxLines THEN Len(lines) - MaxLines + 1 ELSE 1,
                        Len(lines))

\* One post: the text as it was, the dictionary, the session and what leaves.
Post(online, transcript) ==
  LET lines   == Recent(transcript)
      names   == Names(online, lines)
      Line(i) == Spoken(<<lines[i]>>)
      S(i)    == Session(names, Line(i), Spoken(lines))
  IN [from |-> Spoken(lines), people |-> online \cup {lines[i].who : i \in DOMAIN lines},
      names |-> names, map |-> Session(names, Spoken(lines), Spoken(lines)),
      out |-> FlattenSeq([i \in DOMAIN lines |-> Redacted(names, S(i), Line(i))])]

TogglePanel ==
  /\ panel' = ~panel
  /\ UNCHANGED <<asked, summary, advising, advice, posted>>

\* getSummary: nothing is posted if the self-check still finds something.
AskSummary(online, transcript) ==
  /\ panel /\ asked = NoAsk /\ transcript # <<>> /\ Cardinality(posted) < MaxPosts
  /\ LET p == Post(online, transcript) IN
       IF ContainsPii(p.out)
         THEN asked' = NoAsk /\ summary' = <<Atom("word", "refused", FALSE)>> /\ UNCHANGED posted
         ELSE asked' = <<p>> /\ summary' = <<>> /\ posted' = posted \cup {p}
  /\ UNCHANGED <<panel, advising, advice>>

\* The model answers with tokens it was given, or with one it made up.
Answers(p) ==
  {<<t>> : t \in {p.out[i] : i \in DOMAIN p.out} \cup {TokenAtom("PERSON", Len(p.out) + 1)}}

SummaryComes ==
  /\ asked # NoAsk
  /\ \E said \in Answers(asked[1]) :
       summary' = Rehydrated(asked[1].names, asked[1].map, said)
  /\ asked' = NoAsk
  /\ UNCHANGED <<panel, advising, advice, posted>>

SummaryFails ==
  /\ asked # NoAsk
  /\ summary' = <<Atom("word", "unavailable", FALSE)>>
  /\ asked' = NoAsk
  /\ UNCHANGED <<panel, advising, advice, posted>>

\* getSuggestions.
AskAdvice ==
  /\ panel /\ ~advising
  /\ advising' = TRUE /\ advice' = FALSE
  /\ UNCHANGED <<panel, asked, summary, posted>>

AdviceComes ==
  /\ advising
  /\ advising' = FALSE /\ advice' \in BOOLEAN
  /\ UNCHANGED <<panel, asked, summary, posted>>

\* onSelectSuggestion, then onClose; the page puts the suggestion into the draft.
TakeAdvice ==
  /\ panel /\ advice
  /\ panel' = FALSE
  /\ UNCHANGED <<asked, summary, advising, advice, posted>>

-----------------------------------------------------------------------------
(* Properties. *)

PilotTypeOK ==
  /\ {panel, advising, advice} \subseteq BOOLEAN
  /\ Len(asked) <= 1 /\ (asked # NoAsk => asked[1] \in posted)
  /\ Cardinality(posted) <= MaxPosts

\* What leaves the device names nobody of the room's people or the authors, in whole or
\* in part, and holds no identifier a detector knows; and each token in it stands, in
\* the map kept here, for what it replaced, letter case aside, so an answer about one
\* person is never shown under another's name.
RedactionHolds ==
  \A p \in posted :
    /\ \A i \in DOMAIN p.out :
         /\ p.out[i].is \notin {"EMAIL", "CARD", "odd"}
         /\ p.out[i].is = "name" =>
              \A q \in p.people : p.out[i].val # q /\ p.out[i].val \notin PartsOf[q]
    /\ Len(p.out) = Len(p.from)
    /\ \A i \in DOMAIN p.out :
         p.from[i].is # "token" =>
           SameKey(Rehydrated(p.names, p.map, p.out)[i], p.from[i])
=============================================================================
