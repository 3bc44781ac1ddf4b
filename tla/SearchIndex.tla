---------------------------- MODULE SearchIndex -----------------------------
(***************************************************************************)
(* The on-device index over decrypted messages: a worker per tab, each     *)
(* with an index of its own, and encrypted snapshots per conversation that *)
(* all of them share in IndexedDB.                                         *)
(*                                                                         *)
(* A change makes its conversation dirty; a timer turns the dirty ones into*)
(* a batch, which exports, seals and stores one snapshot after another.    *)
(* Requests run between those steps: shredding a conversation, and the wipe*)
(* that an account switch (DeviceOwner.claim) or a key reset asks for. An  *)
(* "era" is the time between two wipes; a message belongs to one era. The  *)
(* work between two awaits on IndexedDB or WebCrypto is one step, and      *)
(* transactions on a store run in the order they were made. A batch is over*)
(* before the next timer fires (PERSIST_DEBOUNCE_MS); one tab signs in at a*)
(* time. Left out: ranking, the op "remove", which no page asks for.       *)
(***************************************************************************)
EXTENDS Naturals, FiniteSets

CONSTANTS
  Tab,       \* tabs, each with its worker
  Conv,      \* conversations
  MaxDocs,   \* bound: messages of a conversation in an era
  MaxEra,    \* bound: eras
  MaxKeys,   \* bound: snapshot keys generated
  MaxFails,  \* bound: rejected IndexedDB requests
  MaxCloses  \* bound: tabs closed or reloaded

VARIABLES
  rows,      \* the snapshots store: the documents sealed for each conversation, and the key
  meta,      \* the meta store: the snapshot key
  keys,      \* snapshot keys generated so far
  era,       \* wipes so far, plus one
  page,      \* the era whose messages each tab shows; 0: none
  phase,     \* each worker: off, hydrating, on
  core,      \* the documents in each worker's index
  read,      \* the rows a hydration has read
  dirty,     \* conversations to be persisted
  timer,     \* the debounce is running
  batch,     \* conversations being persisted, and the index they are exported from
  sealing,   \* the snapshot being sealed
  held,      \* keyPromise: the key each worker holds; 0: none
  asked,     \* what each tab awaits: "no", "wipe", or the conversation being shredded
  wiping,    \* how far a wipe is: "no", snapshots cleared, key cleared
  fails,     \* rejected requests so far
  closes,    \* tabs closed so far
  gone,      \* history: documents shredded or wiped
  late,      \* history: those of them that were elsewhere by then
  mixed      \* history: two workers have been at work together

store  == <<rows, meta, keys>>
worker == <<phase, core, read, dirty, timer, batch, sealing, held, wiping>>
hist   == <<gone, late, mixed>>
vars   == <<store, era, page, worker, asked, fails, closes, hist>>

Doc == [era : 1..MaxEra, conv : Conv, no : 1..MaxDocs]
In(docs, c) == {d \in docs : d.conv = c}
NoRow == [docs |-> {}, key |-> 0]
NoRows == [c \in Conv |-> NoRow]
NoBatch == [rest |-> {}, own |-> TRUE, docs |-> {}]
NoSeal == [conv |-> {}, docs |-> {}, key |-> 0]

RowType(r) == \A c \in Conv : r[c].docs \subseteq In(Doc, c) /\ r[c].key \in 0..keys

TypeOK ==
  /\ RowType(rows) /\ keys \in 0..MaxKeys /\ meta \in 0..keys
  /\ era \in 1..MaxEra /\ page \in [Tab -> 0..era]
  /\ phase \in [Tab -> {"off", "loading", "on"}]
  /\ core \in [Tab -> SUBSET Doc]
  /\ dirty \in [Tab -> SUBSET Conv] /\ timer \in [Tab -> BOOLEAN]
  /\ held \in [Tab -> 0..keys]
  /\ asked \in [Tab -> {"no", "wipe"} \cup Conv]
  /\ wiping \in [Tab -> {"no", "snapshots", "key"}]
  /\ fails \in 0..MaxFails /\ closes \in 0..MaxCloses
  /\ gone \subseteq Doc /\ late \subseteq gone /\ mixed \in BOOLEAN
  /\ \A t \in Tab :
       /\ RowType(read[t])
       /\ batch[t].rest \subseteq Conv /\ batch[t].docs \subseteq Doc
       /\ sealing[t].conv \subseteq batch[t].rest
       /\ \A c \in sealing[t].conv : sealing[t].docs \subseteq In(Doc, c) /\ sealing[t].docs # {}
       /\ phase[t] # "on" => core[t] \cup dirty[t] \cup batch[t].rest = {}
       /\ wiping[t] # "no" => asked[t] = "wipe"

Init ==
  /\ rows = NoRows /\ meta = 0 /\ keys = 0 /\ era = 1
  /\ page = [t \in Tab |-> 0] /\ phase = [t \in Tab |-> "off"]
  /\ core = [t \in Tab |-> {}] /\ read = [t \in Tab |-> NoRows]
  /\ dirty = [t \in Tab |-> {}] /\ timer = [t \in Tab |-> FALSE]
  /\ batch = [t \in Tab |-> NoBatch] /\ sealing = [t \in Tab |-> NoSeal]
  /\ held = [t \in Tab |-> 0] /\ asked = [t \in Tab |-> "no"] /\ wiping = [t \in Tab |-> "no"]
  /\ fails = 0 /\ closes = 0 /\ gone = {} /\ late = {} /\ mixed = FALSE

-----------------------------------------------------------------------------
(* snapshotKey and the documents that are not where a request looks.       *)

\* The key a worker holds, else the stored one, else a new one.
Key(t) == IF held[t] # 0 THEN held[t] ELSE IF meta # 0 THEN meta ELSE keys + 1
TakeKey(t) ==
  /\ Key(t) <= MaxKeys
  /\ held' = [held EXCEPT ![t] = Key(t)]
  /\ IF Key(t) > keys THEN keys' = Key(t) /\ meta' = Key(t) ELSE UNCHANGED <<keys, meta>>

RowDocs(r) == UNION {r[c].docs : c \in Conv}
Elsewhere(t) ==
  sealing[t].docs \cup batch[t].docs
    \cup UNION {core[u] \cup sealing[u].docs \cup batch[u].docs \cup RowDocs(read[u]) : u \in Tab \ {t}}
Shown(t) == {d \in Doc : \E u \in Tab \ {t} : page[u] = d.era}

-----------------------------------------------------------------------------
(* The page and its worker.                                                *)

OpenPage(t) ==
  /\ page[t] = 0 /\ asked[t] = "no"
  /\ page' = [page EXCEPT ![t] = era]
  /\ UNCHANGED <<store, era, worker, asked, fails, closes, hist>>

\* The first request starts the worker, whose ensureCore reads the snapshots.
StartWorker(t) ==
  /\ phase[t] = "off" /\ (page[t] # 0 \/ asked[t] # "no")
  /\ phase' = [phase EXCEPT ![t] = "loading"]
  /\ read' = [read EXCEPT ![t] = rows]
  /\ mixed' = (mixed \/ \E u \in Tab \ {t} : phase[u] # "off")
  /\ UNCHANGED <<store, era, page, core, dirty, timer, batch, sealing, held, wiping, asked, fails, closes, gone, late>>

\* A row that does not open is deleted.
Hydrated(t) ==
  /\ phase[t] = "loading"
  /\ phase' = [phase EXCEPT ![t] = "on"]
  /\ read' = [read EXCEPT ![t] = NoRows]
  /\ TakeKey(t)
  /\ core' = [core EXCEPT ![t] = UNION {read[t][c].docs : c \in {x \in Conv : read[t][x].key = Key(t)}}]
  /\ rows' = [c \in Conv |-> IF read[t][c].key \in {0, Key(t)} THEN rows[c] ELSE NoRow]
  /\ UNCHANGED <<era, page, dirty, timer, batch, sealing, wiping, asked, fails, closes, hist>>

\* Storage blocked: the worker runs in memory only.
HydrateFails(t) ==
  /\ phase[t] = "loading" /\ fails < MaxFails /\ fails' = fails + 1
  /\ phase' = [phase EXCEPT ![t] = "on"]
  /\ read' = [read EXCEPT ![t] = NoRows]
  /\ UNCHANGED <<store, era, page, core, dirty, timer, batch, sealing, held, wiping, asked, closes, hist>>

\* The page renders a decrypted message; a page of an earlier era still does.
Index(t, d) ==
  /\ phase[t] = "on" /\ page[t] = d.era /\ d \notin core[t] /\ (d \in gone => d.era < era)
  /\ core' = [core EXCEPT ![t] = @ \cup {d}]
  /\ dirty' = [dirty EXCEPT ![t] = @ \cup {d.conv}]
  /\ timer' = [timer EXCEPT ![t] = TRUE]
  /\ UNCHANGED <<store, era, page, phase, read, batch, sealing, held, wiping, asked, fails, closes, hist>>

-----------------------------------------------------------------------------
(* Persisting.                                                             *)

TimerFires(t) ==
  /\ timer[t] /\ batch[t].rest = {}
  /\ timer' = [timer EXCEPT ![t] = FALSE]
  /\ batch' = [batch EXCEPT ![t] = [NoBatch EXCEPT !.rest = dirty[t]]]
  /\ dirty' = [dirty EXCEPT ![t] = {}]
  /\ UNCHANGED <<store, era, page, phase, core, read, sealing, held, wiping, asked, fails, closes, hist>>

Exported(t, c) == In(IF batch[t].own THEN core[t] ELSE batch[t].docs, c)
Through(t, c) == LET rest == batch[t].rest \ {c} IN
  batch' = [batch EXCEPT ![t] = IF rest = {} THEN NoBatch ELSE [@ EXCEPT !.rest = rest]]

Empty(t, c) == Exported(t, c) = {}

\* saveSnapshot exports a conversation; one without documents loses its row.
Export(t, c) ==
  /\ c \in batch[t].rest /\ sealing[t] = NoSeal
  /\ IF Empty(t, c)
     THEN /\ rows' = [rows EXCEPT ![c] = NoRow]
          /\ Through(t, c)
          /\ UNCHANGED <<meta, keys, held, sealing>>
     ELSE /\ TakeKey(t)
          /\ sealing' = [sealing EXCEPT ![t] = [conv |-> {c}, docs |-> Exported(t, c), key |-> Key(t)]]
          /\ UNCHANGED <<rows, batch>>
  /\ UNCHANGED <<era, page, phase, core, read, dirty, timer, wiping, asked, fails, closes, hist>>

\* The sealed snapshot is put.
Stored(t, c) ==
  /\ c \in sealing[t].conv
  /\ rows' = [rows EXCEPT ![c] = [docs |-> sealing[t].docs, key |-> sealing[t].key]]
  /\ sealing' = [sealing EXCEPT ![t] = NoSeal]
  /\ Through(t, c)
  /\ UNCHANGED <<meta, keys, era, page, phase, core, read, dirty, timer, held, wiping, asked, fails, closes, hist>>

\* Faulty variant: a failed save is forgotten.
DroppedAgain(t, c) == dirty[t]
DirtyAgain(t, c) == dirty[t] \cup {c}

\* It waits for the next batch, without a timer of its own.
StoreFails(t, c) ==
  /\ c \in sealing[t].conv /\ fails < MaxFails /\ fails' = fails + 1
  /\ dirty' = [dirty EXCEPT ![t] = DirtyAgain(t, c)]
  /\ sealing' = [sealing EXCEPT ![t] = NoSeal]
  /\ Through(t, c)
  /\ UNCHANGED <<store, era, page, phase, core, read, timer, held, wiping, asked, closes, hist>>

-----------------------------------------------------------------------------
(* Shredding a conversation, and wiping everything.                        *)

AskShred(t, c) ==
  /\ page[t] # 0 /\ asked[t] = "no"
  /\ asked' = [asked EXCEPT ![t] = c]
  /\ UNCHANGED <<store, era, page, worker, fails, closes, hist>>

\* Faulty variant: the index keeps the conversation until it is rebuilt.
RowOnly(t, c) == core[t]
Unlisted(t, c) == core[t] \ In(core[t], c)

\* deleteConversation, and the row; searchClient turns a rejected delete into an answer.
Shred(t, c) ==
  /\ asked[t] = c /\ phase[t] = "on"
  /\ core' = [core EXCEPT ![t] = Unlisted(t, c)]
  /\ dirty' = [dirty EXCEPT ![t] = @ \ {c}]
  /\ asked' = [asked EXCEPT ![t] = "no"]
  /\ LET of == {d \in In(Doc, c) : d.era = page[t]} IN
     /\ gone' = gone \cup of
     /\ \/ /\ rows' = [rows EXCEPT ![c] = NoRow] /\ UNCHANGED fails
           /\ late' = late \cup (of \cap Elsewhere(t))
        \/ /\ fails < MaxFails /\ fails' = fails + 1 /\ UNCHANGED rows
           /\ late' = late \cup (of \cap (Elsewhere(t) \cup rows[c].docs))
  /\ UNCHANGED <<meta, keys, era, page, phase, read, timer, batch, sealing, held, wiping, closes, mixed>>

\* An account switch or a key reset.
AskWipe(t) ==
  /\ asked[t] = "no" /\ (\A u \in Tab : asked[u] # "wipe") /\ era < MaxEra
  /\ asked' = [asked EXCEPT ![t] = "wipe"]
  /\ page' = [page EXCEPT ![t] = 0]
  /\ UNCHANGED <<store, era, worker, fails, closes, hist>>

\* Answered, rejected or not: the next era begins in this tab.
Answered(t, e) ==
  /\ asked' = [asked EXCEPT ![t] = "no"] /\ wiping' = [wiping EXCEPT ![t] = "no"]
  /\ page' = [page EXCEPT ![t] = e]

\* A new core, and the snapshots cleared; a batch under way keeps the old core.
WipeStarts(t) ==
  /\ asked[t] = "wipe" /\ wiping[t] = "no" /\ phase[t] = "on"
  /\ era' = era + 1
  /\ core' = [core EXCEPT ![t] = {}]
  /\ dirty' = [dirty EXCEPT ![t] = {}]
  /\ batch' = [batch EXCEPT ![t] = IF @.rest # {} /\ @.own
                                   THEN [@ EXCEPT !.own = FALSE, !.docs = core[t]] ELSE @]
  /\ LET of == {d \in Doc : d.era <= era}
         left == Elsewhere(t) \cup Shown(t) \cup batch'[t].docs IN
     /\ gone' = gone \cup of
     /\ \/ /\ rows' = NoRows /\ wiping' = [wiping EXCEPT ![t] = "snapshots"]
           /\ late' = late \cup (of \cap left) /\ UNCHANGED <<fails, asked, page>>
        \/ /\ fails < MaxFails /\ fails' = fails + 1 /\ UNCHANGED rows
           /\ late' = late \cup (of \cap (left \cup RowDocs(rows))) /\ Answered(t, era + 1)
  /\ UNCHANGED <<meta, keys, phase, read, timer, sealing, held, closes, mixed>>

KeyCleared(t) ==
  /\ wiping[t] = "snapshots"
  /\ \/ /\ meta' = 0 /\ wiping' = [wiping EXCEPT ![t] = "key"] /\ UNCHANGED <<fails, asked, page>>
     \/ /\ fails < MaxFails /\ fails' = fails + 1 /\ UNCHANGED meta /\ Answered(t, era)
  /\ UNCHANGED <<rows, keys, era, phase, core, read, dirty, timer, batch, sealing, held, closes, hist>>

WipeEnds(t) ==
  /\ wiping[t] = "key"
  /\ held' = [held EXCEPT ![t] = 0]
  /\ Answered(t, era)
  /\ UNCHANGED <<store, era, phase, core, read, dirty, timer, batch, sealing, fails, closes, hist>>

\* The tab is closed or reloaded, its worker ended.
CloseTab(t) ==
  /\ page[t] # 0 \/ asked[t] # "no" \/ phase[t] # "off"
  /\ closes < MaxCloses /\ closes' = closes + 1
  /\ page' = [page EXCEPT ![t] = 0] /\ phase' = [phase EXCEPT ![t] = "off"]
  /\ core' = [core EXCEPT ![t] = {}] /\ read' = [read EXCEPT ![t] = NoRows]
  /\ dirty' = [dirty EXCEPT ![t] = {}] /\ timer' = [timer EXCEPT ![t] = FALSE]
  /\ batch' = [batch EXCEPT ![t] = NoBatch] /\ sealing' = [sealing EXCEPT ![t] = NoSeal]
  /\ held' = [held EXCEPT ![t] = 0]
  /\ asked' = [asked EXCEPT ![t] = "no"] /\ wiping' = [wiping EXCEPT ![t] = "no"]
  /\ mixed' = (mixed /\ \E u \in Tab \ {t} : phase[u] # "off")
  /\ UNCHANGED <<store, era, fails, gone, late>>

-----------------------------------------------------------------------------
Persist(t) == TimerFires(t) \/ \E c \in Conv : Export(t, c) \/ Stored(t, c) \/ StoreFails(t, c)
Serve(t) ==
  \/ StartWorker(t) \/ Hydrated(t) \/ HydrateFails(t)
  \/ (\E c \in Conv : Shred(t, c))
  \/ WipeStarts(t) \/ KeyCleared(t) \/ WipeEnds(t)
Ask(t) == OpenPage(t) \/ AskWipe(t) \/ (\E c \in Conv : AskShred(t, c)) \/ (\E d \in Doc : Index(t, d))

Next == \E t \in Tab : Ask(t) \/ Serve(t) \/ Persist(t) \/ CloseTab(t)

Spec == Init /\ [][Next]_vars

-----------------------------------------------------------------------------
(* Properties.                                                             *)

Readable == UNION {rows[c].docs : c \in {x \in Conv : rows[x].key = meta}}

\* "Remove every snapshot AND the key" (snapshotStore.ts:83-88), "deleting a conversation's
\* row removes its searchable plaintext completely" (snapshotCrypto.ts:4-8): what was shredded
\* or wiped is in no index and no readable snapshot again, unless a batch, another tab or a
\* rejected request had it at that moment.
NothingComesBack == (Readable \cup UNION {core[t] : t \in Tab}) \cap gone \subseteq late

\* A document the index answers with is in a snapshot that opens, or about to be saved, while
\* one worker is at work (search.worker.ts:39-55): no batch, failure or wipe forgets one.
SavedOrDirty ==
  ~mixed => \A t \in Tab : \A d \in core[t] \ gone :
              d \in Readable \/ d.conv \in dirty[t] \cup batch[t].rest

\* What the index holds is of its type and never only in memory.
IndexSound == TypeOK /\ SavedOrDirty
=============================================================================
