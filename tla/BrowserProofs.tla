--------------------------- MODULE BrowserProofs ----------------------------
(***************************************************************************)
(* Theorems about what a browser keeps. Of IdentityKeys, for every number  *)
(* of tabs, browsers, identities, wrapping keys and failures:              *)
(*   - a contact that is shown as verified is pinned to a key whose safety *)
(*     number was compared;                                                *)
(*   - ready means usable: the identity of a ready tab is published, its   *)
(*     code opens the backup, and the backup can be renewed;               *)
(*   - the key stores keep their types and can be read;                    *)
(* of SearchIndex, as MCBrowser instantiates it, that what was shredded or *)
(* wiped stays away, and that nothing it answers with is only in memory;   *)
(* and, with both, the same of all that MCBrowser puts together.           *)
(*                                                                         *)
(* The first hazard is the order of four awaits: the number on display was *)
(* computed from one key, markVerified reads the pin again later, and a    *)
(* send or a first message may replace the pin before or after that. The   *)
(* second is that of two gates at once, each of which reads the store or   *)
(* the directory, awaits, and writes: the invariants say what a tab that   *)
(* has read still knows when it writes.                                    *)
(***************************************************************************)
EXTENDS MCBrowser, TLAPS

\* The records the contact's steps update.
Shaped ==
  /\ pin = [id |-> pin.id, verified |-> pin.verified]
  /\ modal = [at |-> modal.at, id |-> modal.id, verified |-> modal.verified, mark |-> modal.mark]

\* What is marked was compared; and so was the pin, once it is no longer the key whose
\* number is on display.
Compared ==
  /\ VerifiedWasCompared
  /\ modal.mark # 0 => modal.at = "shown" /\ modal.mark \in vetted
  /\ modal.at = "shown" /\ pin.id # modal.id => pin.id \in vetted

\* The account's own tabs touch none of it.
LEMMA AccountLeavesContact ==
  ASSUME NEW t \in Tab,
         OpenPage(t) \/ Gate(t) \/ Work(t) \/ Mishap(t) \/ RefreshBackup(t)
  PROVE  UNCHANGED peer
<1>1. CASE OpenPage(t) \/ RefreshBackup(t)
  BY <1>1 DEF OpenPage, RefreshBackup
<1>2. CASE Gate(t)
  BY <1>2 DEF Gate, Turn, Enable, ConfirmReset, SubmitRestore, AcknowledgeSaved, Continue
<1>3. CASE Work(t)
  BY <1>3 DEF Work, Asked, Decided, Republished, Wiped, Refreshed, KeyRead, KeyStored,
              IdentitySaved, Published, Loaded, Uploaded, BackupOpened, Finished, hist
<1>4. CASE Mishap(t)
  BY <1>4 DEF Mishap, StepFails, AnswerLost, LeavePage, CloseTab
<1> QED
  BY <1>1, <1>2, <1>3, <1>4

LEMMA ContactCompares ==
  ASSUME Shaped, Compared, Contact
  PROVE  Shaped' /\ Compared'
<1> USE DEF Shaped, Compared, VerifiedWasCompared, Closed
\* A bundle is asked for: the modal can only be closed or loading.
<1>1. ASSUME NEW why, NEW claim, Fetch(why, claim)  PROVE Shaped' /\ Compared'
  BY <1>1 DEF Fetch
<1>2. CASE Checked
  <2>1. pin' = [id |-> check.ed, verified |-> FALSE] \/ (pin' = pin /\ pin.id = check.ed)
    BY <1>2 DEF Checked, Pinned
  <2>2. pin'.id = check.ed /\ (pin'.verified => pin' = pin)
    BY <2>1
  <2>3. \/ modal' = modal
        \/ modal.at = "loading"
           /\ modal' = [at |-> "shown", id |-> check.ed, verified |-> pin'.verified, mark |-> 0]
    BY <1>2 DEF Checked
  <2>4. /\ vetted \subseteq vetted'
        /\ modal.at = "shown" /\ modal.id # check.ed => check.ed \in vetted'
    BY <1>2 DEF Checked
  <2>5. Shaped'
    BY <2>1, <2>3
  <2>6. VerifiedWasCompared'
    BY <2>2, <2>4
  <2> QED
    BY <2>2, <2>3, <2>4, <2>5, <2>6
<1>3. CASE OpenModal
  BY <1>3 DEF OpenModal
\* The pin is read again here: it is the key on display, or one that was vetted.
<1>4. CASE Mark
  <2>1. modal' = [at |-> modal.at, id |-> modal.id, verified |-> modal.verified, mark |-> pin.id]
    BY <1>4 DEF Mark
  <2> QED
    BY <1>4, <2>1 DEF Mark
<1>5. CASE Marked
  <2>1. modal' = [at |-> modal.at, id |-> modal.id, verified |-> TRUE, mark |-> 0]
    BY <1>5 DEF Marked
  <2> QED
    BY <1>5, <2>1 DEF Marked
<1>6. CASE CloseModal
  BY <1>6 DEF CloseModal
<1> QED
  BY <1>1, <1>2, <1>3, <1>4, <1>5, <1>6 DEF Contact

\* A verified contact is pinned to a key whose number was compared, or that replaced the
\* pin while another number was on display (keyStore.ts:208, SafetyNumberModal).
THEOREM VerifiedWasComparedAlways == Spec => []VerifiedWasCompared
<1>1. Init => Shaped /\ Compared
  BY DEF Init, Shaped, Compared, VerifiedWasCompared, Unpinned, Closed
<1>2. Shaped /\ Compared /\ [Next]_vars => (Shaped /\ Compared)'
  <2> SUFFICES ASSUME Shaped, Compared, [Next]_vars  PROVE Shaped' /\ Compared'
    OBVIOUS
  <2>1. CASE UNCHANGED peer
    BY <2>1 DEF peer, Shaped, Compared, VerifiedWasCompared
  <2>2. UNCHANGED peer \/ Contact
    BY AccountLeavesContact DEF Next, vars
  <2> QED
    BY <2>1, <2>2, ContactCompares
<1>3. Compared => VerifiedWasCompared
  BY DEF Compared
<1> QED
  BY <1>1, <1>2, <1>3, PTL DEF Spec

-----------------------------------------------------------------------------

\* The steps of the account's own tabs.
Acts(t) == OpenPage(t) \/ Gate(t) \/ Work(t) \/ Mishap(t) \/ RefreshBackup(t)

\* Words for what the invariants speak of: nothing has gone wrong with the published
\* identity, or it is still being made.
Ready(t) == svc[t].state = "ready"
Makes(t, n) == Making(t) /\ job[t].id = n
Pending == \E t \in Tab : Makes(t, published)
Clean == ~overlap /\ published \notin torn

\* BeginCheck's three outcomes, and the gate they leave.
Cached(t) ==
  /\ Ready(t) /\ ui' = [ui EXCEPT ![t] = "ready"] /\ job' = [job EXCEPT ![t] = Idle]
  /\ UNCHANGED <<svc, sent, overlap>>
Unreadable(t) ==
  /\ ui' = [ui EXCEPT ![t] = "unavailable"] /\ job' = [job EXCEPT ![t] = Idle]
  /\ svc' = [svc EXCEPT ![t] = [state |-> "unavailable", id |-> 0]]
  /\ UNCHANGED <<sent, overlap>>
Asks(t) ==
  /\ ~Ready(t) /\ ui' = [ui EXCEPT ![t] = "loading"]
  /\ job' = [job EXCEPT ![t] = [Idle EXCEPT !.at = "ask", !.kind = "check", !.id = Here(t).id]]
  /\ overlap' = (overlap \/ Crossed(t)) /\ UNCHANGED <<svc, sent>>
Opening(t) ==
  /\ job[t].at = "idle"
  /\ gate' = [gate EXCEPT ![t] = Intro]
  /\ UNCHANGED <<home, store, server, fails, kept, torn, halved, stale, peer>>

\* Decided's three outcomes.
Told(t) ==
  /\ job[t].at = "told"
  /\ UNCHANGED <<home, store, server, fails, gate, hist, peer>>
Unlisted(t) ==
  /\ job[t].id # 0 /\ job[t].code = 0
  /\ job' = [job EXCEPT ![t].at = "republish"] /\ UNCHANGED <<svc, sent, ui>>
Confirmed(t) ==
  /\ job[t].id # 0 /\ job[t].code = job[t].id
  /\ job' = [job EXCEPT ![t] = Idle]
  /\ svc' = [svc EXCEPT ![t] = [state |-> "ready", id |-> job[t].id]]
  /\ sent' = sent \cup {job[t].id}
  /\ ui' = [ui EXCEPT ![t] = IF job[t].seen THEN "ready" ELSE @]
Refused(t) == \E v \in {"needs-setup", "needs-restore-or-reset"} :
  /\ job' = [job EXCEPT ![t] = Idle]
  /\ svc' = [svc EXCEPT ![t] = [state |-> v, id |-> 0]] /\ UNCHANGED sent
  /\ ui' = [ui EXCEPT ![t] = IF job[t].seen THEN v ELSE @]

\* KeyRead's two outcomes.
NewKey(t) ==
  /\ Here(t).wk = 0 /\ keys < MaxKeys /\ keys' = keys + 1
  /\ job' = [job EXCEPT ![t].at = "putKey", ![t].key = keys + 1]
OldKey(t) ==
  /\ Here(t).wk # 0 /\ UNCHANGED keys
  /\ job' = [job EXCEPT ![t].at = "putRow", ![t].key = Here(t).wk]
ReadsKey(t) ==
  /\ job[t].at = "key"
  /\ UNCHANGED <<home, store, published, blob, made, fails, svc, sent, ui, gate, hist, peer>>

-----------------------------------------------------------------------------
\* No identity or code is ahead of the counter they are drawn from.
Bounded ==
  /\ torn \subseteq 1..made /\ kept \subseteq 1..made
  /\ \A b \in Browser : store[b].id <= made /\ store[b].code <= made
  /\ \A t \in Tab : job[t].id <= made /\ job[t].code <= made /\ gate[t].code <= made

\* What a tab awaits fits its job, its gate and its service.
Fitting ==
  \A t \in Tab :
    /\ job[t].at = "idle" <=> job[t].kind = "none"
    /\ job[t].at \in {"ask", "told", "republish"} <=> job[t].kind = "check"
    /\ job[t].at = "fetch" => job[t].kind = "restore"
    /\ job[t].at \in {"wipe", "wiped", "publish", "load", "upload"} => Making(t)
    /\ job[t].at \in {"key", "putKey", "putRow", "material"} => Making(t) \/ job[t].kind = "restore"
    /\ job[t].at = "republish" \/ Making(t) \/ (job[t].kind = "restore" /\ job[t].at # "fetch")
         => job[t].id # 0
    /\ job[t].kind = "restore" => job[t].code # 0
    /\ ~job[t].seen => ui[t] = "away"
    /\ Ready(t) => job[t].at = "idle" /\ (ui[t] \in {"away", "ready"} \/ gate[t].view = "show-code")

\* The contact's questions are about an identity.
Asking ==
  /\ check.why # "none" => check.ed # 0
  /\ modal.at = "shown" => modal.id # 0

\* Until set-ups overlap, one that runs is the only job of the account.
Alone == overlap \/ \A t, u \in Tab : Making(t) /\ u # t => ~Active(u)

\* Identity n's set-up came to its end.
Finite(n) == n \notin torn /\ \A t \in Tab : ~Makes(t, n)
\* Every set-up makes an identity of its own; acknowledged codes and those on display
\* belong to identities whose set-up came to its end.
Once ==
  /\ \A t, u \in Tab : Making(t) /\ Making(u) /\ t # u => job[t].id # job[u].id
  /\ \A t \in Tab : Making(t) => job[t].id \notin torn
  /\ \A n \in kept : Finite(n)
  /\ \A t \in Tab : gate[t].view = "show-code" => Finite(gate[t].code)

\* An identity that was saved whole has a key to renew the backup with.
Renewable == \A b \in Browser : store[b].id # 0 /\ b \notin halved => store[b].code # 0

\* What a set-up that runs alone has done so far.
MakingGoesOn ==
  ~overlap =>
    \A t \in Tab : Making(t) =>
      /\ \A b \in Browser : b # home[t] => store[b].id # job[t].id
      /\ job[t].at \in {"publish", "load", "upload", "material"}
           => Here(t).id = job[t].id /\ home[t] \in halved
      /\ job[t].at \in {"load", "upload", "material"} => published = job[t].id
      /\ job[t].at = "upload" => job[t].code = job[t].id
      /\ job[t].at = "material" => blob.id = job[t].id /\ blob.code = job[t].id

\* Until an identity is published: there is no backup, ...
NoBackupYet == ~overlap /\ published = 0 => blob.id = 0
\* ... the identities in the stores were cut short or are being made, ...
OnlyUnfinished ==
  ~overlap /\ published = 0 =>
    \A b \in Browser :
      store[b].id = 0 \/ store[b].id \in torn \/ \E u \in Tab : Makes(u, store[b].id)
\* ... and so were those the tabs have read.
NoneToFind ==
  ~overlap => \A t \in Tab :
    /\ published = 0 /\ job[t].kind = "check" /\ job[t].id # 0 => job[t].id \in torn
    /\ job[t].at = "told" /\ job[t].code = 0 /\ job[t].id # 0 => job[t].id \in torn
    /\ job[t].at = "republish" => job[t].id \in torn
    /\ job[t].kind = "restore" /\ job[t].at # "fetch" => published # 0
\* A tab that has read an identity still finds one in its store.
StillStored ==
  ~overlap => \A t \in Tab :
    /\ Ready(t) => Here(t).id # 0
    /\ job[t].kind = "check" /\ job[t].id # 0 => Here(t).id # 0
    /\ job[t].kind = "restore" /\ job[t].at = "material" => Here(t).id # 0

\* Where no set-ups overlapped and the published one was not cut short: the published
\* identity is the one in the backup, under its own code.
BackupCurrent == Clean /\ ~Pending => blob.id = published /\ (blob.code = published \/ stale)
\* Who stores it stores its code.
CodeCurrent ==
  Clean /\ ~stale /\ published # 0 =>
    \A b \in Browser : b \notin halved /\ store[b].id = published => store[b].code = published
\* Who is ready is ready with it, ...
ReadyCurrent == Clean => \A t \in Tab : Ready(t) => svc[t].id = published /\ Here(t).id = published
\* ... a check that is told of it is told the truth, ...
CheckCurrent ==
  Clean => \A t \in Tab :
    /\ job[t].at = "told" => job[t].code = published
    /\ job[t].kind = "check" /\ job[t].id = published /\ published # 0 => Here(t).id = published
\* ... and a restore restores it.
RestoreCurrent ==
  Clean => \A t \in Tab :
    /\ job[t].kind = "restore" /\ job[t].at # "fetch"
         => job[t].id = published /\ (job[t].code = published \/ stale)
    /\ job[t].kind = "restore" /\ job[t].at = "material" => Here(t).id = published

\* With a tab per browser, an identity is stored under the wrapping key beside it.
Keyed ==
  (\A t, u \in Tab : t # u => home[t] # home[u])
    => /\ \A b \in Browser : store[b].id # 0 => store[b].under = store[b].wk /\ store[b].wk # 0
       /\ \A t \in Tab : /\ job[t].at = "putKey" => Here(t).wk = 0 /\ job[t].key # 0
                         /\ job[t].at = "putRow" => Here(t).wk = job[t].key /\ job[t].key # 0

-----------------------------------------------------------------------------
\* Types, one for each record.
Stores == [wk : 0..MaxKeys, id : MaybeId, under : 0..MaxKeys, code : MaybeId]
Services == [state : Status \cup {"unset"}, id : MaybeId]
Views == {"intro", "restore", "reset-confirm", "show-code"}
Gates == [view : Views, code : MaybeId, ack : BOOLEAN]
Kinds == {"none", "check", "setup", "reset", "restore"}
Jobs == [at : Step, kind : Kinds, id : MaybeId,
         key : 0..MaxKeys, code : MaybeId, seen : BOOLEAN]

HomeTyped    == home \in [Tab -> Browser]
StoreTyped   == store \in [Browser -> Stores]
ServerTyped  == /\ published \in 0..made /\ blob \in [id : 0..made, code : 0..made]
                /\ made \in MaybeId /\ keys \in 0..MaxKeys /\ fails \in 0..MaxFails
ServiceTyped == /\ svc \in [Tab -> Services] /\ sent \subseteq Id
                /\ \A t \in Tab : svc[t].state = "ready" <=> svc[t].id # 0
UiTyped      == ui \in [Tab -> Status \cup {"away", "loading"}]
GateTyped    == /\ gate \in [Tab -> Gates]
                /\ \A t \in Tab : gate[t].view = "show-code" => gate[t].code # 0
JobTyped     == job \in [Tab -> Jobs]
HistTyped    == /\ kept \subseteq Id /\ torn \subseteq Id /\ halved \subseteq Browser
                /\ {overlap, stale} \subseteq BOOLEAN
AccountTyped == /\ HomeTyped /\ StoreTyped /\ ServerTyped /\ ServiceTyped
                /\ UiTyped /\ GateTyped /\ JobTyped /\ HistTyped

LEMMA OpeningSteps ==
  ASSUME AccountTyped, Fitting, NEW t \in Tab, OpenPage(t) \/ Continue(t)
  PROVE  Opening(t) /\ (Cached(t) \/ Unreadable(t) \/ Asks(t))
BY DEF OpenPage, Continue, BeginCheck, Opening, Cached, Unreadable, Asks, Settle, Ready, Here,
   Fitting

LEMMA DecidedSteps ==
  ASSUME AccountTyped, NEW t \in Tab, Decided(t)
  PROVE  Told(t) /\ (Unlisted(t) \/ Confirmed(t) \/ Refused(t))
BY DEF AccountTyped, JobTyped, Jobs, MaybeId, Decided, Told, Unlisted, Confirmed, Refused, Verdict,
   Taken, Settle, Show, Go

LEMMA KeySteps ==
  ASSUME NEW t \in Tab, KeyRead(t)
  PROVE  ReadsKey(t) /\ (NewKey(t) \/ OldKey(t))
BY DEF KeyRead, NeedsKey, ReadsKey, NewKey, OldKey

Turns(t) == \E from, to \in {"intro", "restore", "reset-confirm"} : Turn(t, from, to)
Restores(t) == \E c \in Id : SubmitRestore(t, c)

\* What the account's tabs may do, one effect to a disjunct.
Effect(t) ==
  \/ Opening(t) /\ (Cached(t) \/ Unreadable(t) \/ Asks(t))
  \/ Asked(t) \/ (Told(t) /\ (Unlisted(t) \/ Confirmed(t) \/ Refused(t))) \/ Republished(t)
  \/ Turns(t)
  \/ Enable(t) \/ ConfirmReset(t) \/ Restores(t) \/ AcknowledgeSaved(t)
  \/ Wiped(t) \/ Refreshed(t) \/ (ReadsKey(t) /\ (NewKey(t) \/ OldKey(t))) \/ KeyStored(t)
  \/ IdentitySaved(t) \/ Published(t) \/ Loaded(t) \/ Uploaded(t) \/ BackupOpened(t) \/ Finished(t)
  \/ StepFails(t) \/ AnswerLost(t) \/ LeavePage(t) \/ CloseTab(t) \/ RefreshBackup(t)

LEMMA ActsHaveEffects ==
  ASSUME AccountTyped, Fitting, NEW t \in Tab, Acts(t)
  PROVE  Effect(t)
<1>1. CASE OpenPage(t) \/ Continue(t)
  BY <1>1, OpeningSteps DEF Effect
<1>2. CASE Decided(t)
  BY <1>2, DecidedSteps DEF Effect
<1>3. CASE KeyRead(t)
  BY <1>3, KeySteps DEF Effect
<1> QED
  BY <1>1, <1>2, <1>3 DEF Acts, Gate, Work, Mishap, Effect, Turns, Restores

LEMMA JobEdits ==
  ASSUME NEW j \in Jobs
  PROVE  /\ \A a \in Step : [j EXCEPT !.at = a] \in Jobs
         /\ \A a \in Step, k \in 0..MaxKeys : [j EXCEPT !.at = a, !.key = k] \in Jobs
         /\ \A a \in Step, c \in MaybeId : [j EXCEPT !.at = a, !.code = c] \in Jobs
         /\ \A a \in Step, n \in MaybeId : [j EXCEPT !.at = a, !.id = n] \in Jobs
         /\ \A b \in BOOLEAN : [j EXCEPT !.seen = b] \in Jobs
         /\ \A a \in Step, k \in Kinds, n \in MaybeId :
              /\ [j EXCEPT !.at = a, !.kind = k, !.id = n] \in Jobs
              /\ [j EXCEPT !.at = a, !.kind = k, !.code = n] \in Jobs
BY DEF Jobs

LEMMA JobSet ==
  ASSUME JobTyped, NEW t \in Tab, NEW j \in Jobs, job' = [job EXCEPT ![t] = j]
  PROVE  JobTyped'
BY DEF JobTyped

LEMMA JobWent ==
  ASSUME JobTyped, NEW t \in Tab, NEW a \in Step, Go(t, a)
  PROVE  JobTyped'
BY JobEdits, JobSet DEF Go, JobTyped

LEMMA IdleFits == Idle \in Jobs
BY IdentityKeysAssumption DEF Idle, Jobs, Kinds, Step, MaybeId

LEMMA JobTypedKept ==
  ASSUME AccountTyped, NEW t \in Tab, Effect(t)
  PROVE  JobTyped'
<1> USE IdentityKeysAssumption DEF AccountTyped
<1>j. job[t] \in Jobs /\ JobTyped
  BY DEF JobTyped
<1>1. CASE Asked(t)
  <2>1. published \in MaybeId
    BY DEF ServerTyped, MaybeId
  <2>2. [job[t] EXCEPT !.at = "told", !.code = published] \in Jobs
    BY <1>j, <2>1, JobEdits DEF Step
  <2> QED
    BY <1>1, <1>j, <2>2, JobSet DEF Asked
<1>2. CASE Told(t) /\ Unlisted(t)
  <2>1. [job[t] EXCEPT !.at = "republish"] \in Jobs
    BY <1>j, JobEdits DEF Step
  <2> QED
    BY <1>2, <1>j, <2>1, JobSet DEF Unlisted
<1>3. CASE Opening(t) /\ Asks(t)
  <2>1. Here(t).id \in MaybeId
    BY DEF Here, StoreTyped, HomeTyped, Stores
  <2>2. [Idle EXCEPT !.at = "ask", !.kind = "check", !.id = Here(t).id] \in Jobs
    BY <2>1, IdleFits, JobEdits DEF Step, Kinds
  <2> QED
    BY <1>3, <1>j, <2>2, JobSet DEF Asks
<1>4. CASE Enable(t) \/ ConfirmReset(t)
  <2>1. made + 1 \in MaybeId
    BY <1>4 DEF Enable, ConfirmReset, Start, ServerTyped, MaybeId
  <2>2. \A a \in Step, k \in {"setup", "reset"} :
          [Idle EXCEPT !.at = a, !.kind = k, !.id = made + 1] \in Jobs
    BY <2>1, IdleFits, JobEdits DEF Kinds
  <2>3. \E a \in Step, k \in {"setup", "reset"} :
          job' = [job EXCEPT ![t] = [Idle EXCEPT !.at = a, !.kind = k, !.id = made + 1]]
    BY <1>4 DEF Enable, ConfirmReset, Start, Step
  <2> QED
    BY <1>j, <2>2, <2>3, JobSet
<1>5. CASE Restores(t)
  <2>1. PICK c \in Id : SubmitRestore(t, c)
    BY <1>5 DEF Restores
  <2>2. c \in MaybeId
    BY DEF MaybeId, Id
  <2>3. [Idle EXCEPT !.at = "fetch", !.kind = "restore", !.code = c] \in Jobs
    BY <2>2, IdleFits, JobEdits DEF Step, Kinds
  <2> QED
    BY <2>1, <1>j, <2>3, JobSet DEF Restores, SubmitRestore
<1>6. CASE ReadsKey(t) /\ NewKey(t)
  <2>1. keys + 1 \in 0..MaxKeys
    BY <1>6 DEF ServerTyped, NewKey
  <2>2. [job[t] EXCEPT !.at = "putKey", !.key = keys + 1] \in Jobs
    BY <1>j, <2>1, JobEdits DEF Step
  <2> QED
    BY <1>6, <1>j, <2>2, JobSet DEF NewKey
<1>7. CASE ReadsKey(t) /\ OldKey(t)
  <2>1. Here(t).wk \in 0..MaxKeys
    BY DEF Here, StoreTyped, HomeTyped, Stores
  <2>2. [job[t] EXCEPT !.at = "putRow", !.key = Here(t).wk] \in Jobs
    BY <1>j, <2>1, JobEdits DEF Step
  <2> QED
    BY <1>7, <1>j, <2>2, JobSet DEF OldKey
<1>8. CASE Loaded(t)
  <2>1. Here(t).id \in MaybeId
    BY DEF Here, StoreTyped, HomeTyped, Stores
  <2>2. [job[t] EXCEPT !.at = "upload", !.code = Here(t).id] \in Jobs
    BY <1>j, <2>1, JobEdits DEF Step
  <2> QED
    BY <1>8, <1>j, <2>2, JobSet DEF Loaded
<1>9. CASE BackupOpened(t)
  <2>1. blob.id \in MaybeId
    BY DEF ServerTyped, MaybeId
  <2>2. [job[t] EXCEPT !.at = "key", !.id = blob.id] \in Jobs
    BY <1>j, <2>1, JobEdits DEF Step
  <2> QED
    BY <1>9, <1>j, <2>2, JobSet DEF BackupOpened
<1>10. CASE LeavePage(t)
  <2>1. [job[t] EXCEPT !.seen = job[t].at = "idle"] \in Jobs
    BY <1>j, JobEdits
  <2> QED
    BY <1>10, <1>j, <2>1, JobSet DEF LeavePage
<1>11. CASE job' = [job EXCEPT ![t] = Idle]
  BY <1>j, <1>11, IdleFits, JobSet
<1>12. CASE UNCHANGED job
  BY <1>12 DEF JobTyped
<1>13. CASE \E a \in Step : Go(t, a)
  BY <1>13, <1>j, JobWent
<1>14. CASE Opening(t) /\ ~Asks(t) /\ (Cached(t) \/ Unreadable(t))
  BY <1>14, <1>11 DEF Cached, Unreadable
<1>15. CASE Wiped(t) \/ Refreshed(t) \/ KeyStored(t) \/ IdentitySaved(t) \/ Published(t) \/ Uploaded(t)
  BY <1>15, <1>13 DEF Wiped, Refreshed, KeyStored, IdentitySaved, Published, Uploaded, Step
<1>16. CASE Finished(t) \/ StepFails(t) \/ AnswerLost(t) \/ CloseTab(t) \/ Republished(t)
  BY <1>16, <1>11 DEF Finished, StepFails, AnswerLost, CloseTab, Republished
<1>17. CASE AcknowledgeSaved(t) \/ RefreshBackup(t)
  BY <1>17, <1>12 DEF AcknowledgeSaved, RefreshBackup, tabs
<1>18. CASE Turns(t)
  BY <1>18, <1>12 DEF Turns, Turn
<1>19. CASE Told(t) /\ (Confirmed(t) \/ Refused(t))
  BY <1>19, <1>11 DEF Confirmed, Refused
<1> QED
  BY <1>1, <1>2, <1>3, <1>4, <1>5, <1>6, <1>7, <1>8, <1>9, <1>10, <1>14, <1>15, <1>16,
     <1>17, <1>18, <1>19 DEF Effect
-----------------------------------------------------------------------------
LEMMA StoreEdits ==
  ASSUME NEW s \in Stores
  PROVE  /\ \A k \in 0..MaxKeys : [s EXCEPT !.wk = k] \in Stores
         /\ \A k \in 0..MaxKeys, n \in MaybeId : [s EXCEPT !.id = n, !.under = k] \in Stores
         /\ \A n \in MaybeId : [s EXCEPT !.code = n] \in Stores
BY DEF Stores

LEMMA StoreSet ==
  ASSUME HomeTyped, StoreTyped, NEW t \in Tab, NEW s \in Stores,
         store' = [store EXCEPT ![home[t]] = s]
  PROVE  StoreTyped'
BY DEF HomeTyped, StoreTyped

LEMMA StoreTypedKept ==
  ASSUME AccountTyped, NEW t \in Tab, Effect(t)
  PROVE  StoreTyped'
<1> USE IdentityKeysAssumption DEF AccountTyped
<1>s. store[home[t]] \in Stores /\ HomeTyped /\ StoreTyped
  BY DEF HomeTyped, StoreTyped
<1>j. job[t].id \in MaybeId /\ job[t].key \in 0..MaxKeys /\ job[t].code \in MaybeId
  BY DEF JobTyped, Jobs
<1>1. CASE Wiped(t)
  <2>1. EmptyStore \in Stores
    BY DEF EmptyStore, Stores, MaybeId
  <2> QED
    BY <1>1, <1>s, <2>1, StoreSet DEF Wiped
<1>2. CASE KeyStored(t)
  <2>1. [store[home[t]] EXCEPT !.wk = job[t].key] \in Stores
    BY <1>s, <1>j, StoreEdits
  <2> QED
    BY <1>2, <1>s, <2>1, StoreSet DEF KeyStored
<1>3. CASE IdentitySaved(t)
  <2>1. [store[home[t]] EXCEPT !.id = job[t].id, !.under = job[t].key] \in Stores
    BY <1>s, <1>j, StoreEdits
  <2> QED
    BY <1>3, <1>s, <2>1, StoreSet DEF IdentitySaved
<1>4. CASE Finished(t)
  <2>1. [store[home[t]] EXCEPT !.code = Material(t)] \in Stores
    BY <1>s, <1>j, StoreEdits DEF Material, CodeOf
  <2> QED
    BY <1>4, <1>s, <2>1, StoreSet DEF Finished
<1>5. CASE UNCHANGED store
  BY <1>5, <1>s DEF StoreTyped
<1> QED
  BY <1>1, <1>2, <1>3, <1>4, <1>5
     DEF Effect, Opening, Asked, Told, Republished, Turns, Turn, Enable, ConfirmReset, Restores,
        SubmitRestore, AcknowledgeSaved,
         Refreshed, ReadsKey, Published, Loaded, Uploaded, BackupOpened, StepFails, AnswerLost,
         LeavePage, CloseTab, RefreshBackup

LEMMA ServerTypedKept ==
  ASSUME AccountTyped, Bounded, NEW t \in Tab, Effect(t)
  PROVE  ServerTyped'
<1> USE IdentityKeysAssumption DEF AccountTyped, ServerTyped
<1>j. job[t].id \in 0..made /\ job[t].code \in 0..made
  BY DEF JobTyped, Jobs, Bounded, MaybeId
<1>s. Here(t).id \in 0..made /\ Here(t).code \in 0..made
  BY DEF HomeTyped, StoreTyped, Stores, Bounded, MaybeId, Here
<1>1. CASE Enable(t) \/ ConfirmReset(t)
  <2>1. /\ made < MaxIds /\ made' = made + 1
        /\ UNCHANGED <<published, blob, keys, fails>>
    BY <1>1 DEF Enable, ConfirmReset, Start
  <2>2. blob \in [id : 0..made', code : 0..made'] /\ published \in 0..made' /\ made' \in MaybeId
    BY <2>1 DEF MaybeId
  <2> QED
    BY <2>1, <2>2
<1>2. CASE ReadsKey(t) /\ NewKey(t)
  BY <1>2 DEF ReadsKey, NewKey
<1>3. CASE Published(t) \/ Republished(t)
  BY <1>3, <1>j DEF Published, Republished
<1>4. CASE Uploaded(t) \/ AnswerLost(t)
  BY <1>4, <1>j DEF Uploaded, AnswerLost, CodeOf
<1>5. CASE RefreshBackup(t)
  BY <1>5, <1>s DEF RefreshBackup
<1>6. CASE UNCHANGED server /\ (UNCHANGED fails \/ (fails < MaxFails /\ fails' = fails + 1))
  BY <1>6 DEF server
<1> QED
  BY <1>1, <1>2, <1>3, <1>4, <1>5, <1>6
     DEF Effect, Opening, Asked, Told, Turns, Turn, Restores, SubmitRestore, AcknowledgeSaved,
        Wiped, Refreshed, ReadsKey, OldKey,
         KeyStored, IdentitySaved, Loaded, BackupOpened, Finished, StepFails, LeavePage, CloseTab,
         server

LEMMA ServiceSet ==
  ASSUME ServiceTyped, NEW t \in Tab, NEW s \in Services, s.state = "ready" <=> s.id # 0,
         svc' = [svc EXCEPT ![t] = s], sent' = sent \/ (s.id # 0 /\ sent' = sent \cup {s.id})
  PROVE  ServiceTyped'
<1>1. sent' \subseteq Id
  <2>1. s.id \in MaybeId
    BY DEF Services
  <2>2. s.id # 0 => s.id \in Id
    BY <2>1, IdentityKeysAssumption DEF MaybeId, Id
  <2> QED
    BY <2>2 DEF ServiceTyped
<1>2. svc' \in [Tab -> Services]
  BY DEF ServiceTyped
<1>3. \A u \in Tab : svc'[u].state = "ready" <=> svc'[u].id # 0
  BY DEF ServiceTyped
<1> QED
  BY <1>1, <1>2, <1>3 DEF ServiceTyped

LEMMA ServiceTypedKept ==
  ASSUME AccountTyped, Fitting, NEW t \in Tab, Effect(t)
  PROVE  ServiceTyped'
<1> USE IdentityKeysAssumption DEF AccountTyped
<1>s. ServiceTyped
  OBVIOUS
<1>j. job[t].id \in MaybeId
  BY DEF JobTyped, Jobs
<1>1. CASE \E st \in (Status \cup {"unset"}) \ {"ready"} :
              svc' = [svc EXCEPT ![t] = [state |-> st, id |-> 0]] /\ UNCHANGED sent
  <2>1. PICK st \in (Status \cup {"unset"}) \ {"ready"} :
              svc' = [svc EXCEPT ![t] = [state |-> st, id |-> 0]] /\ UNCHANGED sent
    BY <1>1
  <2>2. [state |-> st, id |-> 0] \in Services
    BY DEF Services, MaybeId
  <2> QED
    BY <1>s, <2>1, <2>2, ServiceSet
<1>2. CASE /\ job[t].id # 0 /\ svc' = [svc EXCEPT ![t] = [state |-> "ready", id |-> job[t].id]]
           /\ sent' = sent \cup {job[t].id}
  <2>1. [state |-> "ready", id |-> job[t].id] \in Services
    BY <1>j DEF Services, Status
  <2> QED
    BY <1>s, <1>2, <2>1, ServiceSet
<1>3. CASE UNCHANGED <<svc, sent>>
  BY <1>3, <1>s DEF ServiceTyped
<1>4. CASE Finished(t) \/ Republished(t) \/ (Told(t) /\ Confirmed(t))
  <2>1. job[t].id # 0
    BY <1>4, <1>j DEF Finished, Republished, Confirmed, Fitting, Making, MaybeId
  <2> QED
    BY <1>2, <1>4, <2>1 DEF Finished, Republished, Confirmed, Settle
<1>5. CASE Opening(t) /\ Unreadable(t)
  BY <1>1, <1>5 DEF Unreadable, Status
<1>6. CASE Told(t) /\ Refused(t)
  BY <1>1, <1>6 DEF Refused, Status
<1>7. CASE Refreshed(t) \/ CloseTab(t)
  BY <1>1, <1>7 DEF Refreshed, CloseTab, NoService
<1>8. CASE StepFails(t)
  BY <1>1, <1>3, <1>8 DEF StepFails, Settle, Status
<1>9. CASE (Opening(t) /\ (Cached(t) \/ Asks(t))) \/ Asked(t) \/ (Told(t) /\ Unlisted(t))
  BY <1>3, <1>9 DEF Cached, Asks, Asked, Unlisted
<1>10. CASE \/ Turns(t)
            \/ Enable(t) \/ ConfirmReset(t) \/ Restores(t) \/ AcknowledgeSaved(t)
  BY <1>3, <1>10 DEF Turns, Turn, Enable, ConfirmReset, Restores, SubmitRestore, AcknowledgeSaved
<1>11. CASE \/ Wiped(t) \/ ReadsKey(t) \/ KeyStored(t) \/ IdentitySaved(t) \/ Published(t) \/ Loaded(t)
            \/ Uploaded(t) \/ BackupOpened(t) \/ AnswerLost(t) \/ RefreshBackup(t) \/ LeavePage(t)
  BY <1>3, <1>11 DEF Wiped, ReadsKey, KeyStored, IdentitySaved, Published, Loaded, Uploaded,
     BackupOpened,
                     AnswerLost, LeavePage, RefreshBackup, tabs
<1> QED
  BY <1>4, <1>5, <1>6, <1>7, <1>8, <1>9, <1>10, <1>11 DEF Effect

LEMMA UiTypedKept ==
  ASSUME AccountTyped, NEW t \in Tab, Effect(t)
  PROVE  UiTyped'
<1> USE DEF AccountTyped, UiTyped
<1>1. CASE \E st \in Status \cup {"away", "loading"} : ui' = [ui EXCEPT ![t] = st]
  BY <1>1
<1>2. CASE \E st \in Status : ui' = [ui EXCEPT ![t] = IF job[t].seen THEN st ELSE @]
  BY <1>1, <1>2
<1>3. CASE UNCHANGED ui
  BY <1>3
<1>4. CASE Opening(t) /\ (Cached(t) \/ Unreadable(t) \/ Asks(t))
  BY <1>1, <1>4 DEF Cached, Unreadable, Asks, Status
<1>5. CASE Told(t) /\ (Confirmed(t) \/ Refused(t))
  BY <1>2, <1>5 DEF Confirmed, Refused, Status
<1>6. CASE Republished(t)
  BY <1>2, <1>6 DEF Republished, Show, Status
<1>7. CASE Finished(t)
  BY <1>2, <1>3, <1>7 DEF Finished, Show, Status
<1>8. CASE StepFails(t)
  BY <1>2, <1>3, <1>8 DEF StepFails, Show, Status
<1>9. CASE LeavePage(t) \/ CloseTab(t)
  BY <1>1, <1>9 DEF LeavePage, CloseTab
<1> QED
  BY <1>3, <1>4, <1>5, <1>6, <1>7, <1>8, <1>9
     DEF Effect, Asked, Unlisted, Turns, Turn, Enable, ConfirmReset, Restores, SubmitRestore,
        AcknowledgeSaved,
         Wiped, Refreshed, ReadsKey, KeyStored, IdentitySaved, Published, Loaded, Uploaded,
         BackupOpened, AnswerLost,
         RefreshBackup, tabs

LEMMA GateSet ==
  ASSUME GateTyped, NEW t \in Tab, NEW g \in Gates, g.view = "show-code" => g.code # 0,
         gate' = [gate EXCEPT ![t] = g]
  PROVE  GateTyped'
BY DEF GateTyped

LEMMA GateTypedKept ==
  ASSUME AccountTyped, Fitting, NEW t \in Tab, Effect(t)
  PROVE  GateTyped'
<1> USE IdentityKeysAssumption DEF AccountTyped
<1>g. GateTyped /\ gate[t] \in Gates
  BY DEF GateTyped
<1>1. CASE gate' = [gate EXCEPT ![t] = Intro]
  <2>1. Intro \in Gates /\ Intro.view # "show-code"
    BY DEF Intro, Gates, Views, MaybeId
  <2> QED
    BY <1>1, <1>g, <2>1, GateSet
<1>2. CASE Turns(t)
  <2>1. PICK to \in {"intro", "restore", "reset-confirm"} : gate' = [gate EXCEPT ![t].view = to]
    BY <1>2 DEF Turns, Turn
  <2>2. [gate[t] EXCEPT !.view = to] \in Gates /\ [gate[t] EXCEPT !.view = to].view # "show-code"
    BY <1>g DEF Gates, Views
  <2> QED
    BY <1>g, <2>1, <2>2, GateSet
<1>3. CASE AcknowledgeSaved(t)
  <2>1. [gate[t] EXCEPT !.ack = TRUE] \in Gates
    BY <1>g DEF Gates
  <2>2. [gate[t] EXCEPT !.ack = TRUE].view = "show-code" => [gate[t] EXCEPT !.ack = TRUE].code # 0
    BY <1>g DEF Gates, GateTyped
  <2>3. gate' = [gate EXCEPT ![t] = [gate[t] EXCEPT !.ack = TRUE]]
    BY <1>3 DEF AcknowledgeSaved
  <2> QED
    BY <1>g, <2>1, <2>2, <2>3, GateSet
<1>4. CASE UNCHANGED gate
  BY <1>4, <1>g DEF GateTyped
<1>5. CASE Finished(t)
  <2>1. CASE Making(t) /\ job[t].seen
    <3>1. job[t].id \in MaybeId /\ job[t].id # 0
      BY <2>1 DEF JobTyped, Jobs, Fitting
    <3>2. [view |-> "show-code", code |-> job[t].id, ack |-> FALSE] \in Gates
      BY <3>1 DEF Gates, Views
    <3>3. gate' = [gate EXCEPT ![t] = [view |-> "show-code", code |-> job[t].id, ack |-> FALSE]]
      BY <1>5, <2>1 DEF Finished, CodeOf
    <3> QED
      BY <1>g, <3>1, <3>2, <3>3, GateSet
  <2>2. CASE ~(Making(t) /\ job[t].seen)
    BY <1>4, <1>5, <1>g, <2>2 DEF Finished, GateTyped
  <2> QED
    BY <2>1, <2>2
<1> QED
  BY <1>1, <1>2, <1>3, <1>4, <1>5
     DEF Effect, Opening, Asked, Told, Republished, Enable, ConfirmReset, Restores, SubmitRestore,
        Wiped, Refreshed, ReadsKey,
         KeyStored, IdentitySaved, Published, Loaded, Uploaded, BackupOpened, StepFails,
         AnswerLost, LeavePage, CloseTab,
         RefreshBackup, tabs

LEMMA HistTypedKept ==
  ASSUME AccountTyped, Fitting, NEW t \in Tab, Effect(t)
  PROVE  HistTyped'
<1> USE IdentityKeysAssumption DEF AccountTyped, HistTyped
<1>1. CASE AcknowledgeSaved(t)
  <2>1. gate[t].code \in Id
    BY <1>1 DEF AcknowledgeSaved, GateTyped, Gates, MaybeId, Id
  <2> QED
    BY <1>1, <2>1 DEF AcknowledgeSaved
<1>2. CASE Interrupted(t) /\ UNCHANGED <<kept, halved, overlap, stale>>
  <2>1. Making(t) => job[t].id \in Id
    BY DEF JobTyped, Jobs, Fitting, MaybeId, Id
  <2> QED
    BY <1>2, <2>1 DEF Interrupted
<1>3. CASE /\ halved' \in {halved, halved \cup {home[t]}, halved \ {home[t]}}
           /\ UNCHANGED <<kept, torn, overlap, stale>>
  BY <1>3 DEF HomeTyped
<1>4. CASE UNCHANGED <<kept, torn, halved>> /\ overlap' \in BOOLEAN /\ stale' \in BOOLEAN
  BY <1>4
<1>5. CASE StepFails(t) \/ AnswerLost(t) \/ CloseTab(t)
  BY <1>2, <1>5 DEF StepFails, AnswerLost, CloseTab
<1>6. CASE IdentitySaved(t) \/ Finished(t)
  BY <1>3, <1>6 DEF IdentitySaved, Finished
<1>7. CASE UNCHANGED hist
  BY <1>7 DEF hist
<1>8. CASE Opening(t) /\ (Cached(t) \/ Unreadable(t) \/ Asks(t))
  BY <1>4, <1>8 DEF Opening, Cached, Unreadable, Asks
<1>9. CASE Enable(t) \/ ConfirmReset(t) \/ Restores(t) \/ RefreshBackup(t)
  BY <1>4, <1>9 DEF Enable, ConfirmReset, Start, Restores, SubmitRestore, RefreshBackup
<1> QED
  BY <1>1, <1>5, <1>6, <1>7, <1>8, <1>9
     DEF Effect, Asked, Told, Republished, Turns, Turn, Wiped, Refreshed, ReadsKey, KeyStored,
        Published, Loaded, Uploaded,
         BackupOpened, LeavePage, hist

LEMMA AccountTypedKept ==
  ASSUME AccountTyped, Bounded, Fitting, NEW t \in Tab, Effect(t)
  PROVE  AccountTyped'
<1>1. HomeTyped'
  BY DEF AccountTyped, HomeTyped, Effect, Opening, Asked, Told, Republished, Turns, Turn, Enable,
     ConfirmReset, Restores, SubmitRestore,
         AcknowledgeSaved, Wiped, Refreshed, ReadsKey, KeyStored, IdentitySaved, Published, Loaded,
         Uploaded,
         BackupOpened, Finished, StepFails, AnswerLost, LeavePage, CloseTab, RefreshBackup
<1> QED
  BY <1>1, StoreTypedKept, ServerTypedKept, ServiceTypedKept, UiTypedKept, GateTypedKept,
     JobTypedKept,
     HistTypedKept DEF AccountTyped
-----------------------------------------------------------------------------
\* As much of the types as the invariants below need.
Typed ==
  /\ home \in [Tab -> Browser]
  /\ store \in [Browser -> [wk : Nat, id : Nat, under : Nat, code : Nat]]
  /\ published \in 0..made /\ made \in Nat /\ keys \in Nat
  /\ blob \in [id : 0..made, code : 0..made]
  /\ svc \in [Tab -> [state : Status \cup {"unset"}, id : Nat]]
  /\ \A t \in Tab : svc[t].state = "ready" <=> svc[t].id # 0
  /\ ui \in [Tab -> Status \cup {"away", "loading"}]
  /\ gate \in [Tab -> [view : Views, code : Nat, ack : BOOLEAN]]
  /\ \A t \in Tab : gate[t].view = "show-code" => gate[t].code # 0
  /\ job \in [Tab -> [at : Step, kind : Kinds, id : Nat, key : Nat, code : Nat, seen : BOOLEAN]]
  /\ kept \subseteq Id /\ torn \subseteq Id /\ halved \subseteq Browser
  /\ overlap \in BOOLEAN /\ stale \in BOOLEAN

LEMMA TypesGive == AccountTyped => Typed
<1> USE IdentityKeysAssumption DEF AccountTyped, MaybeId
<1> SUFFICES ASSUME AccountTyped PROVE Typed
  OBVIOUS
<1>1. store \in [Browser -> [wk : Nat, id : Nat, under : Nat, code : Nat]]
  BY DEF StoreTyped, Stores
<1>2. svc \in [Tab -> [state : Status \cup {"unset"}, id : Nat]]
  <2>1. \A s \in Services : s \in [state : Status \cup {"unset"}, id : Nat]
    BY DEF Services
  <2> QED
    BY <2>1 DEF ServiceTyped
<1>3. gate \in [Tab -> [view : Views, code : Nat, ack : BOOLEAN]]
  <2>1. \A g \in Gates : g \in [view : Views, code : Nat, ack : BOOLEAN]
    BY DEF Gates
  <2> QED
    BY <2>1 DEF GateTyped
<1>4. job \in [Tab -> [at : Step, kind : Kinds, id : Nat, key : Nat, code : Nat, seen : BOOLEAN]]
  <2>1. \A j \in Jobs : j \in [at : Step, kind : Kinds, id : Nat, key : Nat, code : Nat,
  seen : BOOLEAN]
    BY DEF Jobs
  <2> QED
    BY <2>1 DEF JobTyped
<1>5. ui \in [Tab -> Status \cup {"away", "loading"}]
  BY DEF UiTyped
<1> QED
  BY <1>1, <1>2, <1>3, <1>4, <1>5 DEF HomeTyped, ServerTyped, ServiceTyped, GateTyped, HistTyped,
     Typed

-----------------------------------------------------------------------------
(* One step for every effect. *)

LEMMA BoundedKept ==
  ASSUME Typed, Bounded, Fitting, NEW t \in Tab, Effect(t)
  PROVE  Bounded'
<1> USE DEF server, tabs, hist, peer
<1>1. CASE Opening(t) /\ Cached(t)
  BY <1>1 DEF Making, Here, Id, MaybeId, Kinds, Typed, Bounded, Fitting, Opening, Cached, Idle,
     Intro
<1>2. CASE Opening(t) /\ Unreadable(t)
  BY <1>2 DEF Making, Here, Id, MaybeId, Kinds, Typed, Bounded, Fitting, Opening, Unreadable, Idle,
     Intro
<1>3. CASE Opening(t) /\ Asks(t)
  BY <1>3 DEF Making, Here, Id, MaybeId, Kinds, Typed, Bounded, Fitting, Opening, Asks, Crossed,
     Idle, Intro
<1>4. CASE Asked(t)
  BY <1>4 DEF Making, Here, Id, MaybeId, Kinds, Typed, Bounded, Fitting, Asked
<1>5. CASE Told(t) /\ Unlisted(t)
  BY <1>5 DEF Making, Here, Id, MaybeId, Kinds, Typed, Bounded, Fitting, Told, Unlisted
<1>6. CASE Told(t) /\ Confirmed(t)
  BY <1>6 DEF Making, Here, Id, MaybeId, Kinds, Typed, Bounded, Fitting, Told, Confirmed, Idle
<1>7. CASE Told(t) /\ Refused(t)
  BY <1>7 DEF Making, Here, Id, MaybeId, Kinds, Typed, Bounded, Fitting, Told, Refused, Idle
<1>8. CASE Republished(t)
  BY <1>8 DEF Making, Here, Id, MaybeId, Kinds, Typed, Bounded, Fitting, Republished, Settle, Show,
     Idle
<1>9. CASE Turns(t)
  BY <1>9 DEF Making, Here, Id, MaybeId, Kinds, Typed, Bounded, Fitting, Turns, Turn, Gated
<1>10. CASE Enable(t)
  BY <1>10 DEF Making, Here, Id, MaybeId, Kinds, Typed, Bounded, Fitting, Enable, Start, Idle, Gated
<1>11. CASE ConfirmReset(t)
  BY <1>11 DEF Making, Here, Id, MaybeId, Kinds, Typed, Bounded, Fitting, ConfirmReset, Start,
     Idle, Gated
<1>12. CASE Restores(t)
  BY <1>12 DEF Making, Here, Id, MaybeId, Kinds, Typed, Bounded, Fitting, Restores, SubmitRestore,
     Crossed, Idle, Gated
<1>13. CASE AcknowledgeSaved(t)
  BY <1>13 DEF Making, Here, Id, MaybeId, Kinds, Typed, Bounded, Fitting, AcknowledgeSaved
<1>14. CASE Wiped(t)
  BY <1>14 DEF Making, Here, Id, MaybeId, Kinds, Typed, Bounded, Fitting, Wiped, Go, EmptyStore
<1>15. CASE Refreshed(t)
  BY <1>15 DEF Making, Here, Id, MaybeId, Kinds, Typed, Bounded, Fitting, Refreshed, Go, NoService
<1>16. CASE ReadsKey(t) /\ NewKey(t)
  BY <1>16 DEF Making, Here, Id, MaybeId, Kinds, Typed, Bounded, Fitting, ReadsKey, NewKey
<1>17. CASE ReadsKey(t) /\ OldKey(t)
  BY <1>17 DEF Making, Here, Id, MaybeId, Kinds, Typed, Bounded, Fitting, ReadsKey, OldKey
<1>18. CASE KeyStored(t)
  BY <1>18 DEF Making, Here, Id, MaybeId, Kinds, Typed, Bounded, Fitting, KeyStored, Go
<1>19. CASE IdentitySaved(t) /\ Making(t)
  BY <1>19 DEF Making, Here, Id, MaybeId, Kinds, Typed, Bounded, Fitting, IdentitySaved, Go
<1>20. CASE IdentitySaved(t) /\ ~Making(t)
  BY <1>20 DEF Making, Here, Id, MaybeId, Kinds, Typed, Bounded, Fitting, IdentitySaved, Go
<1>21. CASE Published(t)
  BY <1>21 DEF Making, Here, Id, MaybeId, Kinds, Typed, Bounded, Fitting, Published, Go
<1>22. CASE Loaded(t)
  BY <1>22 DEF Making, Here, Id, MaybeId, Kinds, Typed, Bounded, Fitting, Loaded
<1>23. CASE Uploaded(t)
  BY <1>23 DEF Making, Here, Id, MaybeId, Kinds, Typed, Bounded, Fitting, Uploaded, Go, CodeOf
<1>24. CASE BackupOpened(t)
  BY <1>24 DEF Making, Here, Id, MaybeId, Kinds, Typed, Bounded, Fitting, BackupOpened, UnlockedBy
<1>25. CASE Finished(t) /\ Making(t)
  BY <1>25 DEF Making, Here, Id, MaybeId, Kinds, Typed, Bounded, Fitting, Finished, Settle, Show,
     Material, CodeOf, Idle
<1>26. CASE Finished(t) /\ ~Making(t)
  BY <1>26 DEF Making, Here, Id, MaybeId, Kinds, Typed, Bounded, Fitting, Finished, Settle, Show,
     Material, CodeOf, Idle
<1>27. CASE StepFails(t) /\ job[t].kind = "check"
  <2>0. Idle.id <= made /\ Idle.code <= made /\ Intro.code <= made
    BY DEF Typed, Idle, Intro
  <2>1. Making(t) => job[t].id \in 1..made
    BY DEF Typed, Bounded, Fitting
  <2>2. torn' \subseteq 1..made
    BY <1>27, <2>1 DEF Bounded, StepFails, Interrupted
  <2>3. \A u \in Tab : job'[u] = job[u] \/ job'[u] = Idle
    BY <1>27 DEF Typed, StepFails
  <2>4. \A u \in Tab : gate'[u] = gate[u] \/ gate'[u] = Intro
    BY <1>27 DEF Typed, StepFails
  <2>5. UNCHANGED <<kept, store, made>>
    BY <1>27 DEF StepFails
  <2>6. \A u \in Tab : job'[u].id <= made /\ job'[u].code <= made
    BY <2>0, <2>3 DEF Bounded
  <2>7. \A u \in Tab : gate'[u].code <= made
    BY <2>0, <2>4 DEF Bounded
  <2> QED
    BY <2>2, <2>5, <2>6, <2>7 DEF Bounded
<1>28. CASE StepFails(t) /\ job[t].kind # "check"
  <2>0. Idle.id <= made /\ Idle.code <= made /\ Intro.code <= made
    BY DEF Typed, Idle, Intro
  <2>1. Making(t) => job[t].id \in 1..made
    BY DEF Typed, Bounded, Fitting
  <2>2. torn' \subseteq 1..made
    BY <1>28, <2>1 DEF Bounded, StepFails, Interrupted
  <2>3. \A u \in Tab : job'[u] = job[u] \/ job'[u] = Idle
    BY <1>28 DEF Typed, StepFails
  <2>4. \A u \in Tab : gate'[u] = gate[u] \/ gate'[u] = Intro
    BY <1>28 DEF Typed, StepFails
  <2>5. UNCHANGED <<kept, store, made>>
    BY <1>28 DEF StepFails
  <2>6. \A u \in Tab : job'[u].id <= made /\ job'[u].code <= made
    BY <2>0, <2>3 DEF Bounded
  <2>7. \A u \in Tab : gate'[u].code <= made
    BY <2>0, <2>4 DEF Bounded
  <2> QED
    BY <2>2, <2>5, <2>6, <2>7 DEF Bounded
<1>29. CASE AnswerLost(t)
  <2>0. Idle.id <= made /\ Idle.code <= made /\ Intro.code <= made
    BY DEF Typed, Idle, Intro
  <2>1. Making(t) => job[t].id \in 1..made
    BY DEF Typed, Bounded, Fitting
  <2>2. torn' \subseteq 1..made
    BY <1>29, <2>1 DEF Bounded, AnswerLost, Interrupted
  <2>3. \A u \in Tab : job'[u] = job[u] \/ job'[u] = Idle
    BY <1>29 DEF Typed, AnswerLost
  <2>4. \A u \in Tab : gate'[u] = gate[u] \/ gate'[u] = Intro
    BY <1>29 DEF Typed, AnswerLost
  <2>5. UNCHANGED <<kept, store, made>>
    BY <1>29 DEF AnswerLost
  <2>6. \A u \in Tab : job'[u].id <= made /\ job'[u].code <= made
    BY <2>0, <2>3 DEF Bounded
  <2>7. \A u \in Tab : gate'[u].code <= made
    BY <2>0, <2>4 DEF Bounded
  <2> QED
    BY <2>2, <2>5, <2>6, <2>7 DEF Bounded
<1>30. CASE LeavePage(t)
  BY <1>30 DEF Making, Here, Id, MaybeId, Kinds, Typed, Bounded, Fitting, LeavePage, Intro
<1>31. CASE CloseTab(t)
  <2>0. Idle.id <= made /\ Idle.code <= made /\ Intro.code <= made
    BY DEF Typed, Idle, Intro
  <2>1. Making(t) => job[t].id \in 1..made
    BY DEF Typed, Bounded, Fitting
  <2>2. torn' \subseteq 1..made
    BY <1>31, <2>1 DEF Bounded, CloseTab, Interrupted
  <2>3. \A u \in Tab : job'[u] = job[u] \/ job'[u] = Idle
    BY <1>31 DEF Typed, CloseTab
  <2>4. \A u \in Tab : gate'[u] = gate[u] \/ gate'[u] = Intro
    BY <1>31 DEF Typed, CloseTab
  <2>5. UNCHANGED <<kept, store, made>>
    BY <1>31 DEF CloseTab
  <2>6. \A u \in Tab : job'[u].id <= made /\ job'[u].code <= made
    BY <2>0, <2>3 DEF Bounded
  <2>7. \A u \in Tab : gate'[u].code <= made
    BY <2>0, <2>4 DEF Bounded
  <2> QED
    BY <2>2, <2>5, <2>6, <2>7 DEF Bounded
<1>32. CASE RefreshBackup(t)
  BY <1>32 DEF Making, Here, Id, MaybeId, Kinds, Typed, Bounded, Fitting, RefreshBackup
<1> QED
  BY <1>1, <1>2, <1>3, <1>4, <1>5, <1>6, <1>7, <1>8, <1>9, <1>10, <1>11, <1>12, <1>13, <1>14,
     <1>15, <1>16, <1>17, <1>18, <1>19, <1>20, <1>21, <1>22, <1>23, <1>24, <1>25, <1>26, <1>27,
     <1>28, <1>29, <1>30, <1>31, <1>32 DEF Effect

LEMMA FittingKept ==
  ASSUME Typed, Bounded, Fitting, NEW t \in Tab, Effect(t)
  PROVE  Fitting'
<1> USE DEF server, tabs, hist, peer
<1>1. CASE Opening(t) /\ Cached(t)
  BY <1>1 DEF Making, Here, Id, MaybeId, Kinds, Typed, Bounded, Fitting, Ready, Opening, Cached,
     Idle, Intro
<1>2. CASE Opening(t) /\ Unreadable(t)
  BY <1>2 DEF Making, Here, Id, MaybeId, Kinds, Typed, Bounded, Fitting, Ready, Opening,
     Unreadable, Idle, Intro
<1>3. CASE Opening(t) /\ Asks(t)
  BY <1>3 DEF Making, Here, Id, MaybeId, Kinds, Typed, Bounded, Fitting, Ready, Opening, Asks,
     Crossed, Idle, Intro
<1>4. CASE Asked(t)
  BY <1>4 DEF Making, Here, Id, MaybeId, Kinds, Typed, Bounded, Fitting, Ready, Asked
<1>5. CASE Told(t) /\ Unlisted(t)
  BY <1>5 DEF Making, Here, Id, MaybeId, Kinds, Typed, Bounded, Fitting, Ready, Told, Unlisted
<1>6. CASE Told(t) /\ Confirmed(t)
  BY <1>6 DEF Making, Here, Id, MaybeId, Kinds, Typed, Bounded, Fitting, Ready, Told, Confirmed,
     Idle
<1>7. CASE Told(t) /\ Refused(t)
  BY <1>7 DEF Making, Here, Id, MaybeId, Kinds, Typed, Bounded, Fitting, Ready, Told, Refused, Idle
<1>8. CASE Republished(t)
  BY <1>8 DEF Making, Here, Id, MaybeId, Kinds, Typed, Bounded, Fitting, Ready, Republished,
     Settle, Show, Idle
<1>9. CASE Turns(t)
  BY <1>9 DEF Making, Here, Id, MaybeId, Kinds, Typed, Bounded, Fitting, Ready, Turns, Turn, Gated
<1>10. CASE Enable(t)
  BY <1>10 DEF Making, Here, Id, MaybeId, Kinds, Typed, Bounded, Fitting, Ready, Enable, Start,
     Idle, Gated
<1>11. CASE ConfirmReset(t)
  BY <1>11 DEF Making, Here, Id, MaybeId, Kinds, Typed, Bounded, Fitting, Ready, ConfirmReset,
     Start, Idle, Gated
<1>12. CASE Restores(t)
  BY <1>12 DEF Making, Here, Id, MaybeId, Kinds, Typed, Bounded, Fitting, Ready, Restores,
     SubmitRestore, Crossed, Idle, Gated
<1>13. CASE AcknowledgeSaved(t)
  BY <1>13 DEF Making, Here, Id, MaybeId, Kinds, Typed, Bounded, Fitting, Ready, AcknowledgeSaved
<1>14. CASE Wiped(t)
  BY <1>14 DEF Making, Here, Id, MaybeId, Kinds, Typed, Bounded, Fitting, Ready, Wiped, Go,
     EmptyStore
<1>15. CASE Refreshed(t)
  BY <1>15 DEF Making, Here, Id, MaybeId, Kinds, Typed, Bounded, Fitting, Ready, Refreshed, Go,
     NoService
<1>16. CASE ReadsKey(t) /\ NewKey(t)
  BY <1>16 DEF Making, Here, Id, MaybeId, Kinds, Typed, Bounded, Fitting, Ready, ReadsKey, NewKey
<1>17. CASE ReadsKey(t) /\ OldKey(t)
  BY <1>17 DEF Making, Here, Id, MaybeId, Kinds, Typed, Bounded, Fitting, Ready, ReadsKey, OldKey
<1>18. CASE KeyStored(t)
  BY <1>18 DEF Making, Here, Id, MaybeId, Kinds, Typed, Bounded, Fitting, Ready, KeyStored, Go
<1>19. CASE IdentitySaved(t) /\ Making(t)
  BY <1>19 DEF Making, Here, Id, MaybeId, Kinds, Typed, Bounded, Fitting, Ready, IdentitySaved, Go
<1>20. CASE IdentitySaved(t) /\ ~Making(t)
  BY <1>20 DEF Making, Here, Id, MaybeId, Kinds, Typed, Bounded, Fitting, Ready, IdentitySaved, Go
<1>21. CASE Published(t)
  BY <1>21 DEF Making, Here, Id, MaybeId, Kinds, Typed, Bounded, Fitting, Ready, Published, Go
<1>22. CASE Loaded(t)
  BY <1>22 DEF Making, Here, Id, MaybeId, Kinds, Typed, Bounded, Fitting, Ready, Loaded
<1>23. CASE Uploaded(t)
  BY <1>23 DEF Making, Here, Id, MaybeId, Kinds, Typed, Bounded, Fitting, Ready, Uploaded, Go,
     CodeOf
<1>24. CASE BackupOpened(t)
  BY <1>24 DEF Making, Here, Id, MaybeId, Kinds, Typed, Bounded, Fitting, Ready, BackupOpened,
     UnlockedBy
<1>25. CASE Finished(t) /\ Making(t)
  BY <1>25 DEF Making, Here, Id, MaybeId, Kinds, Typed, Bounded, Fitting, Ready, Finished, Settle,
     Show, Material, CodeOf, Idle
<1>26. CASE Finished(t) /\ ~Making(t)
  BY <1>26 DEF Making, Here, Id, MaybeId, Kinds, Typed, Bounded, Fitting, Ready, Finished, Settle,
     Show, Material, CodeOf, Idle
<1>27. CASE StepFails(t) /\ job[t].kind = "check"
  BY <1>27 DEF Making, Here, Id, MaybeId, Kinds, Typed, Bounded, Fitting, Ready, StepFails,
     Interrupted, Settle, Show, Idle
<1>28. CASE StepFails(t) /\ job[t].kind # "check"
  BY <1>28 DEF Making, Here, Id, MaybeId, Kinds, Typed, Bounded, Fitting, Ready, StepFails,
     Interrupted, Settle, Show, Idle
<1>29. CASE AnswerLost(t)
  BY <1>29 DEF Making, Here, Id, MaybeId, Kinds, Typed, Bounded, Fitting, Ready, AnswerLost,
     Interrupted, CodeOf, Idle
<1>30. CASE LeavePage(t)
  BY <1>30 DEF Making, Here, Id, MaybeId, Kinds, Typed, Bounded, Fitting, Ready, LeavePage, Intro
<1>31. CASE CloseTab(t)
  BY <1>31 DEF Making, Here, Id, MaybeId, Kinds, Typed, Bounded, Fitting, Ready, CloseTab,
     Interrupted, NoService, Intro, Idle
<1>32. CASE RefreshBackup(t)
  BY <1>32 DEF Making, Here, Id, MaybeId, Kinds, Typed, Bounded, Fitting, Ready, RefreshBackup
<1> QED
  BY <1>1, <1>2, <1>3, <1>4, <1>5, <1>6, <1>7, <1>8, <1>9, <1>10, <1>11, <1>12, <1>13, <1>14,
     <1>15, <1>16, <1>17, <1>18, <1>19, <1>20, <1>21, <1>22, <1>23, <1>24, <1>25, <1>26, <1>27,
     <1>28, <1>29, <1>30, <1>31, <1>32 DEF Effect

LEMMA AloneKept ==
  ASSUME Typed, Fitting, Alone, NEW t \in Tab, Effect(t)
  PROVE  Alone'
<1> USE DEF server, tabs, hist, peer
<1>1. CASE Opening(t) /\ Cached(t)
  BY <1>1 DEF Making, Here, Id, MaybeId, Kinds, Typed, Fitting, Alone, Active, Ready, Opening,
     Cached, Idle, Intro
<1>2. CASE Opening(t) /\ Unreadable(t)
  BY <1>2 DEF Making, Here, Id, MaybeId, Kinds, Typed, Fitting, Alone, Active, Ready, Opening,
     Unreadable, Idle, Intro
<1>3. CASE Opening(t) /\ Asks(t)
  <2>1. CASE overlap'
    BY <2>1 DEF Alone
  <2>2. CASE ~overlap'
    <3>1. ~overlap /\ \A u \in Tab \ {t} : ~Making(u)
      BY <1>3, <2>2 DEF Asks, Crossed
    <3>2. \A u \in Tab : ~Making(u)'
      BY <1>3, <3>1 DEF Typed, Making, Asks, Idle
    <3> QED
      BY <3>2 DEF Alone
  <2> QED
    BY <2>1, <2>2
<1>4. CASE Asked(t)
  BY <1>4 DEF Making, Here, Id, MaybeId, Kinds, Typed, Fitting, Alone, Active, Ready, Asked
<1>5. CASE Told(t) /\ Unlisted(t)
  BY <1>5 DEF Making, Here, Id, MaybeId, Kinds, Typed, Fitting, Alone, Active, Ready, Told, Unlisted
<1>6. CASE Told(t) /\ Confirmed(t)
  BY <1>6 DEF Making, Here, Id, MaybeId, Kinds, Typed, Fitting, Alone, Active, Ready, Told,
     Confirmed, Idle
<1>7. CASE Told(t) /\ Refused(t)
  BY <1>7 DEF Making, Here, Id, MaybeId, Kinds, Typed, Fitting, Alone, Active, Ready, Told,
     Refused, Idle
<1>8. CASE Republished(t)
  BY <1>8 DEF Making, Here, Id, MaybeId, Kinds, Typed, Fitting, Alone, Active, Ready, Republished,
     Settle, Show, Idle
<1>9. CASE Turns(t)
  BY <1>9 DEF Making, Here, Id, MaybeId, Kinds, Typed, Fitting, Alone, Active, Ready, Turns, Turn,
     Gated
<1>10. CASE Enable(t)
  <2>1. CASE overlap'
    BY <2>1 DEF Alone
  <2>2. CASE ~overlap'
    <3>1. ~overlap /\ \A u \in Tab \ {t} : ~Active(u)
      BY <1>10, <2>2 DEF Enable, Start
    <3>2. \A u \in Tab \ {t} : (~Active(u))' /\ ~Making(u)'
      BY <1>10, <3>1 DEF Typed, Fitting, Active, Making, Enable, Start
    <3> QED
      BY <3>2 DEF Alone
  <2> QED
    BY <2>1, <2>2
<1>11. CASE ConfirmReset(t)
  <2>1. CASE overlap'
    BY <2>1 DEF Alone
  <2>2. CASE ~overlap'
    <3>1. ~overlap /\ \A u \in Tab \ {t} : ~Active(u)
      BY <1>11, <2>2 DEF ConfirmReset, Start
    <3>2. \A u \in Tab \ {t} : (~Active(u))' /\ ~Making(u)'
      BY <1>11, <3>1 DEF Typed, Fitting, Active, Making, ConfirmReset, Start
    <3> QED
      BY <3>2 DEF Alone
  <2> QED
    BY <2>1, <2>2
<1>12. CASE Restores(t)
  <2>1. PICK c \in Id : SubmitRestore(t, c)
    BY <1>12 DEF Restores
  <2>2. CASE overlap'
    BY <2>2 DEF Alone
  <2>3. CASE ~overlap'
    <3>1. ~overlap /\ \A u \in Tab \ {t} : ~Making(u)
      BY <2>1, <2>3 DEF SubmitRestore, Crossed
    <3>2. \A u \in Tab : ~Making(u)'
      BY <2>1, <3>1 DEF Typed, Making, SubmitRestore, Idle
    <3> QED
      BY <3>2 DEF Alone
  <2> QED
    BY <2>2, <2>3
<1>13. CASE AcknowledgeSaved(t)
  BY <1>13 DEF Making, Here, Id, MaybeId, Kinds, Typed, Fitting, Alone, Active, Ready,
     AcknowledgeSaved
<1>14. CASE Wiped(t)
  BY <1>14 DEF Making, Here, Id, MaybeId, Kinds, Typed, Fitting, Alone, Active, Ready, Wiped, Go,
     EmptyStore
<1>15. CASE Refreshed(t)
  BY <1>15 DEF Making, Here, Id, MaybeId, Kinds, Typed, Fitting, Alone, Active, Ready, Refreshed,
     Go, NoService
<1>16. CASE ReadsKey(t) /\ NewKey(t)
  BY <1>16 DEF Making, Here, Id, MaybeId, Kinds, Typed, Fitting, Alone, Active, Ready, ReadsKey,
     NewKey
<1>17. CASE ReadsKey(t) /\ OldKey(t)
  BY <1>17 DEF Making, Here, Id, MaybeId, Kinds, Typed, Fitting, Alone, Active, Ready, ReadsKey,
     OldKey
<1>18. CASE KeyStored(t)
  BY <1>18 DEF Making, Here, Id, MaybeId, Kinds, Typed, Fitting, Alone, Active, Ready, KeyStored, Go
<1>19. CASE IdentitySaved(t) /\ Making(t)
  BY <1>19 DEF Making, Here, Id, MaybeId, Kinds, Typed, Fitting, Alone, Active, Ready,
     IdentitySaved, Go
<1>20. CASE IdentitySaved(t) /\ ~Making(t)
  BY <1>20 DEF Making, Here, Id, MaybeId, Kinds, Typed, Fitting, Alone, Active, Ready,
     IdentitySaved, Go
<1>21. CASE Published(t)
  BY <1>21 DEF Making, Here, Id, MaybeId, Kinds, Typed, Fitting, Alone, Active, Ready, Published, Go
<1>22. CASE Loaded(t)
  BY <1>22 DEF Making, Here, Id, MaybeId, Kinds, Typed, Fitting, Alone, Active, Ready, Loaded
<1>23. CASE Uploaded(t)
  BY <1>23 DEF Making, Here, Id, MaybeId, Kinds, Typed, Fitting, Alone, Active, Ready, Uploaded,
     Go, CodeOf
<1>24. CASE BackupOpened(t)
  BY <1>24 DEF Making, Here, Id, MaybeId, Kinds, Typed, Fitting, Alone, Active, Ready,
     BackupOpened, UnlockedBy
<1>25. CASE Finished(t) /\ Making(t)
  BY <1>25 DEF Making, Here, Id, MaybeId, Kinds, Typed, Fitting, Alone, Active, Ready, Finished,
     Settle, Show, Material, CodeOf, Idle
<1>26. CASE Finished(t) /\ ~Making(t)
  BY <1>26 DEF Making, Here, Id, MaybeId, Kinds, Typed, Fitting, Alone, Active, Ready, Finished,
     Settle, Show, Material, CodeOf, Idle
<1>27. CASE StepFails(t) /\ job[t].kind = "check"
  BY <1>27 DEF Making, Here, Id, MaybeId, Kinds, Typed, Fitting, Alone, Active, Ready, StepFails,
     Interrupted, Settle, Show, Idle
<1>28. CASE StepFails(t) /\ job[t].kind # "check"
  BY <1>28 DEF Making, Here, Id, MaybeId, Kinds, Typed, Fitting, Alone, Active, Ready, StepFails,
     Interrupted, Settle, Show, Idle
<1>29. CASE AnswerLost(t)
  BY <1>29 DEF Making, Here, Id, MaybeId, Kinds, Typed, Fitting, Alone, Active, Ready, AnswerLost,
     Interrupted, CodeOf, Idle
<1>30. CASE LeavePage(t)
  BY <1>30 DEF Making, Here, Id, MaybeId, Kinds, Typed, Fitting, Alone, Active, Ready, LeavePage,
     Intro
<1>31. CASE CloseTab(t)
  BY <1>31 DEF Making, Here, Id, MaybeId, Kinds, Typed, Fitting, Alone, Active, Ready, CloseTab,
     Interrupted, NoService, Intro, Idle
<1>32. CASE RefreshBackup(t)
  BY <1>32 DEF Making, Here, Id, MaybeId, Kinds, Typed, Fitting, Alone, Active, Ready, RefreshBackup
<1> QED
  BY <1>1, <1>2, <1>3, <1>4, <1>5, <1>6, <1>7, <1>8, <1>9, <1>10, <1>11, <1>12, <1>13, <1>14,
     <1>15, <1>16, <1>17, <1>18, <1>19, <1>20, <1>21, <1>22, <1>23, <1>24, <1>25, <1>26, <1>27,
     <1>28, <1>29, <1>30, <1>31, <1>32 DEF Effect

LEMMA OnceKept ==
  ASSUME Typed, Bounded, Fitting, Once, NEW t \in Tab, Effect(t)
  PROVE  Once'
<1> USE DEF server, tabs, hist, peer
<1>1. CASE Opening(t) /\ Cached(t)
  BY <1>1 DEF Making, Here, Id, MaybeId, Kinds, Typed, Bounded, Fitting, Once, Finite, Makes,
     Opening, Cached, Idle, Intro
<1>2. CASE Opening(t) /\ Unreadable(t)
  BY <1>2 DEF Making, Here, Id, MaybeId, Kinds, Typed, Bounded, Fitting, Once, Finite, Makes,
     Opening, Unreadable, Idle, Intro
<1>3. CASE Opening(t) /\ Asks(t)
  BY <1>3 DEF Making, Here, Id, MaybeId, Kinds, Typed, Bounded, Fitting, Once, Finite, Makes,
     Opening, Asks, Crossed, Idle, Intro
<1>4. CASE Asked(t)
  BY <1>4 DEF Making, Here, Id, MaybeId, Kinds, Typed, Bounded, Fitting, Once, Finite, Makes, Asked
<1>5. CASE Told(t) /\ Unlisted(t)
  BY <1>5 DEF Making, Here, Id, MaybeId, Kinds, Typed, Bounded, Fitting, Once, Finite, Makes, Told,
     Unlisted
<1>6. CASE Told(t) /\ Confirmed(t)
  BY <1>6 DEF Making, Here, Id, MaybeId, Kinds, Typed, Bounded, Fitting, Once, Finite, Makes, Told,
     Confirmed, Idle
<1>7. CASE Told(t) /\ Refused(t)
  BY <1>7 DEF Making, Here, Id, MaybeId, Kinds, Typed, Bounded, Fitting, Once, Finite, Makes, Told,
     Refused, Idle
<1>8. CASE Republished(t)
  BY <1>8 DEF Making, Here, Id, MaybeId, Kinds, Typed, Bounded, Fitting, Once, Finite, Makes,
     Republished, Settle, Show, Idle
<1>9. CASE Turns(t)
  BY <1>9 DEF Making, Here, Id, MaybeId, Kinds, Typed, Bounded, Fitting, Once, Finite, Makes,
     Turns, Turn, Gated
<1>10. CASE Enable(t)
  BY <1>10 DEF Making, Here, Id, MaybeId, Kinds, Typed, Bounded, Fitting, Once, Finite, Makes,
     Enable, Start, Idle, Gated
<1>11. CASE ConfirmReset(t)
  BY <1>11 DEF Making, Here, Id, MaybeId, Kinds, Typed, Bounded, Fitting, Once, Finite, Makes,
     ConfirmReset, Start, Idle, Gated
<1>12. CASE Restores(t)
  BY <1>12 DEF Making, Here, Id, MaybeId, Kinds, Typed, Bounded, Fitting, Once, Finite, Makes,
     Restores, SubmitRestore, Crossed, Idle, Gated
<1>13. CASE AcknowledgeSaved(t)
  BY <1>13 DEF Making, Here, Id, MaybeId, Kinds, Typed, Bounded, Fitting, Once, Finite, Makes,
     AcknowledgeSaved
<1>14. CASE Wiped(t)
  BY <1>14 DEF Making, Here, Id, MaybeId, Kinds, Typed, Bounded, Fitting, Once, Finite, Makes,
     Wiped, Go, EmptyStore
<1>15. CASE Refreshed(t)
  BY <1>15 DEF Making, Here, Id, MaybeId, Kinds, Typed, Bounded, Fitting, Once, Finite, Makes,
     Refreshed, Go, NoService
<1>16. CASE ReadsKey(t) /\ NewKey(t)
  BY <1>16 DEF Making, Here, Id, MaybeId, Kinds, Typed, Bounded, Fitting, Once, Finite, Makes,
     ReadsKey, NewKey
<1>17. CASE ReadsKey(t) /\ OldKey(t)
  BY <1>17 DEF Making, Here, Id, MaybeId, Kinds, Typed, Bounded, Fitting, Once, Finite, Makes,
     ReadsKey, OldKey
<1>18. CASE KeyStored(t)
  BY <1>18 DEF Making, Here, Id, MaybeId, Kinds, Typed, Bounded, Fitting, Once, Finite, Makes,
     KeyStored, Go
<1>19. CASE IdentitySaved(t) /\ Making(t)
  BY <1>19 DEF Making, Here, Id, MaybeId, Kinds, Typed, Bounded, Fitting, Once, Finite, Makes,
     IdentitySaved, Go
<1>20. CASE IdentitySaved(t) /\ ~Making(t)
  BY <1>20 DEF Making, Here, Id, MaybeId, Kinds, Typed, Bounded, Fitting, Once, Finite, Makes,
     IdentitySaved, Go
<1>21. CASE Published(t)
  BY <1>21 DEF Making, Here, Id, MaybeId, Kinds, Typed, Bounded, Fitting, Once, Finite, Makes,
     Published, Go
<1>22. CASE Loaded(t)
  BY <1>22 DEF Making, Here, Id, MaybeId, Kinds, Typed, Bounded, Fitting, Once, Finite, Makes,
     Loaded
<1>23. CASE Uploaded(t)
  BY <1>23 DEF Making, Here, Id, MaybeId, Kinds, Typed, Bounded, Fitting, Once, Finite, Makes,
     Uploaded, Go, CodeOf
<1>24. CASE BackupOpened(t)
  BY <1>24 DEF Making, Here, Id, MaybeId, Kinds, Typed, Bounded, Fitting, Once, Finite, Makes,
     BackupOpened, UnlockedBy
<1>25. CASE Finished(t) /\ Making(t)
  <2>1. PICK n \in Nat : n = job[t].id
    BY DEF Typed
  <2>2. \A u \in Tab : (Making(u)' <=> Making(u) /\ u # t) /\ (u # t => job'[u] = job[u])
    BY <1>25 DEF Finished, Typed, Making, Idle
  <2>3. Finite(n)'
    BY <1>25, <2>1, <2>2 DEF Finished, Once, Finite, Makes
  <2>4. \A m : Finite(m) => (Finite(m))'
    BY <1>25, <2>2 DEF Finished, Finite, Makes
  <2>5. \A u \in Tab : gate'[u] = gate[u] \/ gate'[u].code = n
    BY <1>25, <2>1 DEF Finished, Typed, CodeOf
  <2>6. \A u \in Tab : (gate[u].view = "show-code" => Finite(gate[u].code))'
    BY <2>3, <2>4, <2>5 DEF Once
  <2>7. /\ \A u, v \in Tab : (Making(u) /\ Making(v) /\ u # v => job[u].id # job[v].id)'
        /\ \A u \in Tab : (Making(u) => job[u].id \notin torn)'
    BY <1>25, <2>2 DEF Finished, Once
  <2>8. (\A m \in kept : Finite(m))'
    BY <1>25, <2>4 DEF Finished, Once
  <2> QED
    BY <2>6, <2>7, <2>8 DEF Once
<1>26. CASE Finished(t) /\ ~Making(t)
  BY <1>26 DEF Making, Here, Id, MaybeId, Kinds, Typed, Bounded, Fitting, Once, Finite, Makes,
     Finished, Settle, Show, Material, CodeOf, Idle
<1>27. CASE StepFails(t) /\ job[t].kind = "check"
  BY <1>27 DEF Making, Here, Id, MaybeId, Kinds, Typed, Bounded, Fitting, Once, Finite, Makes,
     StepFails, Interrupted, Settle, Show, Idle
<1>28. CASE StepFails(t) /\ job[t].kind # "check"
  BY <1>28 DEF Making, Here, Id, MaybeId, Kinds, Typed, Bounded, Fitting, Once, Finite, Makes,
     StepFails, Interrupted, Settle, Show, Idle
<1>29. CASE AnswerLost(t)
  BY <1>29 DEF Making, Here, Id, MaybeId, Kinds, Typed, Bounded, Fitting, Once, Finite, Makes,
     AnswerLost, Interrupted, CodeOf, Idle
<1>30. CASE LeavePage(t)
  BY <1>30 DEF Making, Here, Id, MaybeId, Kinds, Typed, Bounded, Fitting, Once, Finite, Makes,
     LeavePage, Intro
<1>31. CASE CloseTab(t)
  BY <1>31 DEF Making, Here, Id, MaybeId, Kinds, Typed, Bounded, Fitting, Once, Finite, Makes,
     CloseTab, Interrupted, NoService, Intro, Idle
<1>32. CASE RefreshBackup(t)
  BY <1>32 DEF Making, Here, Id, MaybeId, Kinds, Typed, Bounded, Fitting, Once, Finite, Makes,
     RefreshBackup
<1> QED
  BY <1>1, <1>2, <1>3, <1>4, <1>5, <1>6, <1>7, <1>8, <1>9, <1>10, <1>11, <1>12, <1>13, <1>14,
     <1>15, <1>16, <1>17, <1>18, <1>19, <1>20, <1>21, <1>22, <1>23, <1>24, <1>25, <1>26, <1>27,
     <1>28, <1>29, <1>30, <1>31, <1>32 DEF Effect

LEMMA RenewableKept ==
  ASSUME Typed, Fitting, Renewable, NEW t \in Tab, Effect(t)
  PROVE  Renewable'
<1> USE DEF server, tabs, hist, peer
<1>1. CASE Opening(t) /\ Cached(t)
  BY <1>1 DEF Making, Here, Id, MaybeId, Kinds, Typed, Fitting, Renewable, Opening, Cached, Idle,
     Intro
<1>2. CASE Opening(t) /\ Unreadable(t)
  BY <1>2 DEF Making, Here, Id, MaybeId, Kinds, Typed, Fitting, Renewable, Opening, Unreadable,
     Idle, Intro
<1>3. CASE Opening(t) /\ Asks(t)
  BY <1>3 DEF Making, Here, Id, MaybeId, Kinds, Typed, Fitting, Renewable, Opening, Asks, Crossed,
     Idle, Intro
<1>4. CASE Asked(t)
  BY <1>4 DEF Making, Here, Id, MaybeId, Kinds, Typed, Fitting, Renewable, Asked
<1>5. CASE Told(t) /\ Unlisted(t)
  BY <1>5 DEF Making, Here, Id, MaybeId, Kinds, Typed, Fitting, Renewable, Told, Unlisted
<1>6. CASE Told(t) /\ Confirmed(t)
  BY <1>6 DEF Making, Here, Id, MaybeId, Kinds, Typed, Fitting, Renewable, Told, Confirmed, Idle
<1>7. CASE Told(t) /\ Refused(t)
  BY <1>7 DEF Making, Here, Id, MaybeId, Kinds, Typed, Fitting, Renewable, Told, Refused, Idle
<1>8. CASE Republished(t)
  BY <1>8 DEF Making, Here, Id, MaybeId, Kinds, Typed, Fitting, Renewable, Republished, Settle,
     Show, Idle
<1>9. CASE Turns(t)
  BY <1>9 DEF Making, Here, Id, MaybeId, Kinds, Typed, Fitting, Renewable, Turns, Turn, Gated
<1>10. CASE Enable(t)
  BY <1>10 DEF Making, Here, Id, MaybeId, Kinds, Typed, Fitting, Renewable, Enable, Start, Idle,
     Gated
<1>11. CASE ConfirmReset(t)
  BY <1>11 DEF Making, Here, Id, MaybeId, Kinds, Typed, Fitting, Renewable, ConfirmReset, Start,
     Idle, Gated
<1>12. CASE Restores(t)
  BY <1>12 DEF Making, Here, Id, MaybeId, Kinds, Typed, Fitting, Renewable, Restores,
     SubmitRestore, Crossed, Idle, Gated
<1>13. CASE AcknowledgeSaved(t)
  BY <1>13 DEF Making, Here, Id, MaybeId, Kinds, Typed, Fitting, Renewable, AcknowledgeSaved
<1>14. CASE Wiped(t)
  BY <1>14 DEF Making, Here, Id, MaybeId, Kinds, Typed, Fitting, Renewable, Wiped, Go, EmptyStore
<1>15. CASE Refreshed(t)
  BY <1>15 DEF Making, Here, Id, MaybeId, Kinds, Typed, Fitting, Renewable, Refreshed, Go, NoService
<1>16. CASE ReadsKey(t) /\ NewKey(t)
  BY <1>16 DEF Making, Here, Id, MaybeId, Kinds, Typed, Fitting, Renewable, ReadsKey, NewKey
<1>17. CASE ReadsKey(t) /\ OldKey(t)
  BY <1>17 DEF Making, Here, Id, MaybeId, Kinds, Typed, Fitting, Renewable, ReadsKey, OldKey
<1>18. CASE KeyStored(t)
  BY <1>18 DEF Making, Here, Id, MaybeId, Kinds, Typed, Fitting, Renewable, KeyStored, Go
<1>19. CASE IdentitySaved(t) /\ Making(t)
  BY <1>19 DEF Making, Here, Id, MaybeId, Kinds, Typed, Fitting, Renewable, IdentitySaved, Go
<1>20. CASE IdentitySaved(t) /\ ~Making(t)
  BY <1>20 DEF Making, Here, Id, MaybeId, Kinds, Typed, Fitting, Renewable, IdentitySaved, Go
<1>21. CASE Published(t)
  BY <1>21 DEF Making, Here, Id, MaybeId, Kinds, Typed, Fitting, Renewable, Published, Go
<1>22. CASE Loaded(t)
  BY <1>22 DEF Making, Here, Id, MaybeId, Kinds, Typed, Fitting, Renewable, Loaded
<1>23. CASE Uploaded(t)
  BY <1>23 DEF Making, Here, Id, MaybeId, Kinds, Typed, Fitting, Renewable, Uploaded, Go, CodeOf
<1>24. CASE BackupOpened(t)
  BY <1>24 DEF Making, Here, Id, MaybeId, Kinds, Typed, Fitting, Renewable, BackupOpened, UnlockedBy
<1>25. CASE Finished(t) /\ Making(t)
  BY <1>25 DEF Making, Here, Id, MaybeId, Kinds, Typed, Fitting, Renewable, Finished, Settle, Show,
     Material, CodeOf, Idle
<1>26. CASE Finished(t) /\ ~Making(t)
  BY <1>26 DEF Making, Here, Id, MaybeId, Kinds, Typed, Fitting, Renewable, Finished, Settle, Show,
     Material, CodeOf, Idle
<1>27. CASE StepFails(t) /\ job[t].kind = "check"
  BY <1>27 DEF Making, Here, Id, MaybeId, Kinds, Typed, Fitting, Renewable, StepFails, Interrupted,
     Settle, Show, Idle
<1>28. CASE StepFails(t) /\ job[t].kind # "check"
  BY <1>28 DEF Making, Here, Id, MaybeId, Kinds, Typed, Fitting, Renewable, StepFails, Interrupted,
     Settle, Show, Idle
<1>29. CASE AnswerLost(t)
  BY <1>29 DEF Making, Here, Id, MaybeId, Kinds, Typed, Fitting, Renewable, AnswerLost,
     Interrupted, CodeOf, Idle
<1>30. CASE LeavePage(t)
  BY <1>30 DEF Making, Here, Id, MaybeId, Kinds, Typed, Fitting, Renewable, LeavePage, Intro
<1>31. CASE CloseTab(t)
  BY <1>31 DEF Making, Here, Id, MaybeId, Kinds, Typed, Fitting, Renewable, CloseTab, Interrupted,
     NoService, Intro, Idle
<1>32. CASE RefreshBackup(t)
  BY <1>32 DEF Making, Here, Id, MaybeId, Kinds, Typed, Fitting, Renewable, RefreshBackup
<1> QED
  BY <1>1, <1>2, <1>3, <1>4, <1>5, <1>6, <1>7, <1>8, <1>9, <1>10, <1>11, <1>12, <1>13, <1>14,
     <1>15, <1>16, <1>17, <1>18, <1>19, <1>20, <1>21, <1>22, <1>23, <1>24, <1>25, <1>26, <1>27,
     <1>28, <1>29, <1>30, <1>31, <1>32 DEF Effect

LEMMA MakingGoesOnKept ==
  ASSUME Typed, Bounded, Fitting, Alone, MakingGoesOn, NEW t \in Tab, Effect(t)
  PROVE  MakingGoesOn'
<1> USE DEF server, tabs, hist, peer
<1>1. CASE Opening(t) /\ Cached(t)
  BY <1>1 DEF Making, Here, Id, MaybeId, Kinds, Typed, Bounded, Fitting, Alone, MakingGoesOn,
     Active, Ready, Opening, Cached, Idle, Intro
<1>2. CASE Opening(t) /\ Unreadable(t)
  BY <1>2 DEF Making, Here, Id, MaybeId, Kinds, Typed, Bounded, Fitting, Alone, MakingGoesOn,
     Active, Ready, Opening, Unreadable, Idle, Intro
<1>3. CASE Opening(t) /\ Asks(t)
  BY <1>3 DEF Making, Here, Id, MaybeId, Kinds, Typed, Bounded, Fitting, Alone, MakingGoesOn,
     Active, Ready, Opening, Asks, Crossed, Idle, Intro
<1>4. CASE Asked(t)
  BY <1>4 DEF Making, Here, Id, MaybeId, Kinds, Typed, Bounded, Fitting, Alone, MakingGoesOn,
     Active, Ready, Asked
<1>5. CASE Told(t) /\ Unlisted(t)
  BY <1>5 DEF Making, Here, Id, MaybeId, Kinds, Typed, Bounded, Fitting, Alone, MakingGoesOn,
     Active, Ready, Told, Unlisted
<1>6. CASE Told(t) /\ Confirmed(t)
  BY <1>6 DEF Making, Here, Id, MaybeId, Kinds, Typed, Bounded, Fitting, Alone, MakingGoesOn,
     Active, Ready, Told, Confirmed, Idle
<1>7. CASE Told(t) /\ Refused(t)
  BY <1>7 DEF Making, Here, Id, MaybeId, Kinds, Typed, Bounded, Fitting, Alone, MakingGoesOn,
     Active, Ready, Told, Refused, Idle
<1>8. CASE Republished(t)
  BY <1>8 DEF Making, Here, Id, MaybeId, Kinds, Typed, Bounded, Fitting, Alone, MakingGoesOn,
     Active, Ready, Republished, Settle, Show, Idle
<1>9. CASE Turns(t)
  BY <1>9 DEF Making, Here, Id, MaybeId, Kinds, Typed, Bounded, Fitting, Alone, MakingGoesOn,
     Active, Ready, Turns, Turn, Gated
<1>10. CASE Enable(t)
  BY <1>10 DEF Making, Here, Id, MaybeId, Kinds, Typed, Bounded, Fitting, Alone, MakingGoesOn,
     Active, Ready, Enable, Start, Idle, Gated
<1>11. CASE ConfirmReset(t)
  BY <1>11 DEF Making, Here, Id, MaybeId, Kinds, Typed, Bounded, Fitting, Alone, MakingGoesOn,
     Active, Ready, ConfirmReset, Start, Idle, Gated
<1>12. CASE Restores(t)
  BY <1>12 DEF Making, Here, Id, MaybeId, Kinds, Typed, Bounded, Fitting, Alone, MakingGoesOn,
     Active, Ready, Restores, SubmitRestore, Crossed, Idle, Gated
<1>13. CASE AcknowledgeSaved(t)
  BY <1>13 DEF Making, Here, Id, MaybeId, Kinds, Typed, Bounded, Fitting, Alone, MakingGoesOn,
     Active, Ready, AcknowledgeSaved
<1>14. CASE Wiped(t)
  BY <1>14 DEF Making, Here, Id, MaybeId, Kinds, Typed, Bounded, Fitting, Alone, MakingGoesOn,
     Active, Ready, Wiped, Go, EmptyStore
<1>15. CASE Refreshed(t)
  BY <1>15 DEF Making, Here, Id, MaybeId, Kinds, Typed, Bounded, Fitting, Alone, MakingGoesOn,
     Active, Ready, Refreshed, Go, NoService
<1>16. CASE ReadsKey(t) /\ NewKey(t)
  BY <1>16 DEF Making, Here, Id, MaybeId, Kinds, Typed, Bounded, Fitting, Alone, MakingGoesOn,
     Active, Ready, ReadsKey, NewKey
<1>17. CASE ReadsKey(t) /\ OldKey(t)
  BY <1>17 DEF Making, Here, Id, MaybeId, Kinds, Typed, Bounded, Fitting, Alone, MakingGoesOn,
     Active, Ready, ReadsKey, OldKey
<1>18. CASE KeyStored(t)
  BY <1>18 DEF Making, Here, Id, MaybeId, Kinds, Typed, Bounded, Fitting, Alone, MakingGoesOn,
     Active, Ready, KeyStored, Go
<1>19. CASE IdentitySaved(t) /\ Making(t)
  BY <1>19 DEF Making, Here, Id, MaybeId, Kinds, Typed, Bounded, Fitting, Alone, MakingGoesOn,
     Active, Ready, IdentitySaved, Go
<1>20. CASE IdentitySaved(t) /\ ~Making(t)
  BY <1>20 DEF Making, Here, Id, MaybeId, Kinds, Typed, Bounded, Fitting, Alone, MakingGoesOn,
     Active, Ready, IdentitySaved, Go
<1>21. CASE Published(t)
  BY <1>21 DEF Making, Here, Id, MaybeId, Kinds, Typed, Bounded, Fitting, Alone, MakingGoesOn,
     Active, Ready, Published, Go
<1>22. CASE Loaded(t)
  BY <1>22 DEF Making, Here, Id, MaybeId, Kinds, Typed, Bounded, Fitting, Alone, MakingGoesOn,
     Active, Ready, Loaded
<1>23. CASE Uploaded(t)
  BY <1>23 DEF Making, Here, Id, MaybeId, Kinds, Typed, Bounded, Fitting, Alone, MakingGoesOn,
     Active, Ready, Uploaded, Go, CodeOf
<1>24. CASE BackupOpened(t)
  BY <1>24 DEF Making, Here, Id, MaybeId, Kinds, Typed, Bounded, Fitting, Alone, MakingGoesOn,
     Active, Ready, BackupOpened, UnlockedBy
<1>25. CASE Finished(t) /\ Making(t)
  BY <1>25 DEF Making, Here, Id, MaybeId, Kinds, Typed, Bounded, Fitting, Alone, MakingGoesOn,
     Active, Ready, Finished, Settle, Show, Material, CodeOf, Idle
<1>26. CASE Finished(t) /\ ~Making(t)
  BY <1>26 DEF Making, Here, Id, MaybeId, Kinds, Typed, Bounded, Fitting, Alone, MakingGoesOn,
     Active, Ready, Finished, Settle, Show, Material, CodeOf, Idle
<1>27. CASE StepFails(t) /\ job[t].kind = "check"
  BY <1>27 DEF Making, Here, Id, MaybeId, Kinds, Typed, Bounded, Fitting, Alone, MakingGoesOn,
     Active, Ready, StepFails, Interrupted, Settle, Show, Idle
<1>28. CASE StepFails(t) /\ job[t].kind # "check"
  BY <1>28 DEF Making, Here, Id, MaybeId, Kinds, Typed, Bounded, Fitting, Alone, MakingGoesOn,
     Active, Ready, StepFails, Interrupted, Settle, Show, Idle
<1>29. CASE AnswerLost(t)
  BY <1>29 DEF Making, Here, Id, MaybeId, Kinds, Typed, Bounded, Fitting, Alone, MakingGoesOn,
     Active, Ready, AnswerLost, Interrupted, CodeOf, Idle
<1>30. CASE LeavePage(t)
  BY <1>30 DEF Making, Here, Id, MaybeId, Kinds, Typed, Bounded, Fitting, Alone, MakingGoesOn,
     Active, Ready, LeavePage, Intro
<1>31. CASE CloseTab(t)
  BY <1>31 DEF Making, Here, Id, MaybeId, Kinds, Typed, Bounded, Fitting, Alone, MakingGoesOn,
     Active, Ready, CloseTab, Interrupted, NoService, Intro, Idle
<1>32. CASE RefreshBackup(t)
  BY <1>32 DEF Making, Here, Id, MaybeId, Kinds, Typed, Bounded, Fitting, Alone, MakingGoesOn,
     Active, Ready, RefreshBackup
<1> QED
  BY <1>1, <1>2, <1>3, <1>4, <1>5, <1>6, <1>7, <1>8, <1>9, <1>10, <1>11, <1>12, <1>13, <1>14,
     <1>15, <1>16, <1>17, <1>18, <1>19, <1>20, <1>21, <1>22, <1>23, <1>24, <1>25, <1>26, <1>27,
     <1>28, <1>29, <1>30, <1>31, <1>32 DEF Effect

LEMMA NoBackupYetKept ==
  ASSUME Typed, Fitting, Alone, MakingGoesOn, NoBackupYet, NoneToFind, ReadyCurrent, NEW t \in Tab,
  Effect(t)
  PROVE  NoBackupYet'
<1> USE DEF server, tabs, hist, peer
<1>1. CASE Opening(t) /\ Cached(t)
  BY <1>1 DEF Making, Here, Id, MaybeId, Kinds, Typed, Fitting, Alone, Active, Ready, MakingGoesOn,
     NoBackupYet, ReadyCurrent, Clean, Bounded, Opening, Cached, Idle, Intro
<1>2. CASE Opening(t) /\ Unreadable(t)
  BY <1>2 DEF Making, Here, Id, MaybeId, Kinds, Typed, Fitting, Alone, Active, Ready, MakingGoesOn,
     NoBackupYet, ReadyCurrent, Clean, Bounded, Opening, Unreadable, Idle, Intro
<1>3. CASE Opening(t) /\ Asks(t)
  BY <1>3 DEF Making, Here, Id, MaybeId, Kinds, Typed, Fitting, Alone, Active, Ready, MakingGoesOn,
     NoBackupYet, ReadyCurrent, Clean, Bounded, Opening, Asks, Crossed, Idle, Intro
<1>4. CASE Asked(t)
  BY <1>4 DEF Making, Here, Id, MaybeId, Kinds, Typed, Fitting, Alone, Active, Ready, MakingGoesOn,
     NoBackupYet, ReadyCurrent, Clean, Bounded, Asked
<1>5. CASE Told(t) /\ Unlisted(t)
  BY <1>5 DEF Making, Here, Id, MaybeId, Kinds, Typed, Fitting, Alone, Active, Ready, MakingGoesOn,
     NoBackupYet, ReadyCurrent, Clean, Bounded, Told, Unlisted
<1>6. CASE Told(t) /\ Confirmed(t)
  BY <1>6 DEF Making, Here, Id, MaybeId, Kinds, Typed, Fitting, Alone, Active, Ready, MakingGoesOn,
     NoBackupYet, ReadyCurrent, Clean, Bounded, Told, Confirmed, Idle
<1>7. CASE Told(t) /\ Refused(t)
  BY <1>7 DEF Making, Here, Id, MaybeId, Kinds, Typed, Fitting, Alone, Active, Ready, MakingGoesOn,
     NoBackupYet, ReadyCurrent, Clean, Bounded, Told, Refused, Idle
<1>8. CASE Republished(t)
  BY <1>8 DEF Making, Here, Id, MaybeId, Kinds, Typed, Fitting, Alone, Active, Ready, MakingGoesOn,
     NoBackupYet, ReadyCurrent, Clean, Bounded, Republished, Settle, Show, Idle
<1>9. CASE Turns(t)
  BY <1>9 DEF Making, Here, Id, MaybeId, Kinds, Typed, Fitting, Alone, Active, Ready, MakingGoesOn,
     NoBackupYet, ReadyCurrent, Clean, Bounded, Turns, Turn, Gated
<1>10. CASE Enable(t)
  BY <1>10 DEF Making, Here, Id, MaybeId, Kinds, Typed, Fitting, Alone, Active, Ready,
     MakingGoesOn, NoBackupYet, ReadyCurrent, Clean, Bounded, Enable, Start, Idle, Gated
<1>11. CASE ConfirmReset(t)
  BY <1>11 DEF Making, Here, Id, MaybeId, Kinds, Typed, Fitting, Alone, Active, Ready,
     MakingGoesOn, NoBackupYet, ReadyCurrent, Clean, Bounded, ConfirmReset, Start, Idle, Gated
<1>12. CASE Restores(t)
  BY <1>12 DEF Making, Here, Id, MaybeId, Kinds, Typed, Fitting, Alone, Active, Ready,
     MakingGoesOn, NoBackupYet, ReadyCurrent, Clean, Bounded, Restores, SubmitRestore, Crossed,
     Idle, Gated
<1>13. CASE AcknowledgeSaved(t)
  BY <1>13 DEF Making, Here, Id, MaybeId, Kinds, Typed, Fitting, Alone, Active, Ready,
     MakingGoesOn, NoBackupYet, ReadyCurrent, Clean, Bounded, AcknowledgeSaved
<1>14. CASE Wiped(t)
  BY <1>14 DEF Making, Here, Id, MaybeId, Kinds, Typed, Fitting, Alone, Active, Ready,
     MakingGoesOn, NoBackupYet, ReadyCurrent, Clean, Bounded, Wiped, Go, EmptyStore
<1>15. CASE Refreshed(t)
  BY <1>15 DEF Making, Here, Id, MaybeId, Kinds, Typed, Fitting, Alone, Active, Ready,
     MakingGoesOn, NoBackupYet, ReadyCurrent, Clean, Bounded, Refreshed, Go, NoService
<1>16. CASE ReadsKey(t) /\ NewKey(t)
  BY <1>16 DEF Making, Here, Id, MaybeId, Kinds, Typed, Fitting, Alone, Active, Ready,
     MakingGoesOn, NoBackupYet, ReadyCurrent, Clean, Bounded, ReadsKey, NewKey
<1>17. CASE ReadsKey(t) /\ OldKey(t)
  BY <1>17 DEF Making, Here, Id, MaybeId, Kinds, Typed, Fitting, Alone, Active, Ready,
     MakingGoesOn, NoBackupYet, ReadyCurrent, Clean, Bounded, ReadsKey, OldKey
<1>18. CASE KeyStored(t)
  BY <1>18 DEF Making, Here, Id, MaybeId, Kinds, Typed, Fitting, Alone, Active, Ready,
     MakingGoesOn, NoBackupYet, ReadyCurrent, Clean, Bounded, KeyStored, Go
<1>19. CASE IdentitySaved(t) /\ Making(t)
  BY <1>19 DEF Making, Here, Id, MaybeId, Kinds, Typed, Fitting, Alone, Active, Ready,
     MakingGoesOn, NoBackupYet, ReadyCurrent, Clean, Bounded, IdentitySaved, Go
<1>20. CASE IdentitySaved(t) /\ ~Making(t)
  BY <1>20 DEF Making, Here, Id, MaybeId, Kinds, Typed, Fitting, Alone, Active, Ready,
     MakingGoesOn, NoBackupYet, ReadyCurrent, Clean, Bounded, IdentitySaved, Go
<1>21. CASE Published(t)
  BY <1>21 DEF Making, Here, Id, MaybeId, Kinds, Typed, Fitting, Alone, Active, Ready,
     MakingGoesOn, NoBackupYet, ReadyCurrent, Clean, Bounded, Published, Go
<1>22. CASE Loaded(t)
  BY <1>22 DEF Making, Here, Id, MaybeId, Kinds, Typed, Fitting, Alone, Active, Ready,
     MakingGoesOn, NoBackupYet, ReadyCurrent, Clean, Bounded, Loaded
<1>23. CASE Uploaded(t)
  BY <1>23 DEF Making, Here, Id, MaybeId, Kinds, Typed, Fitting, Alone, Active, Ready,
     MakingGoesOn, NoBackupYet, ReadyCurrent, Clean, Bounded, Uploaded, Go, CodeOf
<1>24. CASE BackupOpened(t)
  BY <1>24 DEF Making, Here, Id, MaybeId, Kinds, Typed, Fitting, Alone, Active, Ready,
     MakingGoesOn, NoBackupYet, ReadyCurrent, Clean, Bounded, BackupOpened, UnlockedBy
<1>25. CASE Finished(t) /\ Making(t)
  BY <1>25 DEF Making, Here, Id, MaybeId, Kinds, Typed, Fitting, Alone, Active, Ready,
     MakingGoesOn, NoBackupYet, ReadyCurrent, Clean, Bounded, Finished, Settle, Show, Material,
     CodeOf, Idle
<1>26. CASE Finished(t) /\ ~Making(t)
  BY <1>26 DEF Making, Here, Id, MaybeId, Kinds, Typed, Fitting, Alone, Active, Ready,
     MakingGoesOn, NoBackupYet, ReadyCurrent, Clean, Bounded, Finished, Settle, Show, Material,
     CodeOf, Idle
<1>27. CASE StepFails(t) /\ job[t].kind = "check"
  BY <1>27 DEF Making, Here, Id, MaybeId, Kinds, Typed, Fitting, Alone, Active, Ready,
     MakingGoesOn, NoBackupYet, ReadyCurrent, Clean, Bounded, StepFails, Interrupted, Settle, Show,
     Idle
<1>28. CASE StepFails(t) /\ job[t].kind # "check"
  BY <1>28 DEF Making, Here, Id, MaybeId, Kinds, Typed, Fitting, Alone, Active, Ready,
     MakingGoesOn, NoBackupYet, ReadyCurrent, Clean, Bounded, StepFails, Interrupted, Settle, Show,
     Idle
<1>29. CASE AnswerLost(t)
  BY <1>29 DEF Making, Here, Id, MaybeId, Kinds, Typed, Fitting, Alone, Active, Ready,
     MakingGoesOn, NoBackupYet, ReadyCurrent, Clean, Bounded, AnswerLost, Interrupted, CodeOf, Idle
<1>30. CASE LeavePage(t)
  BY <1>30 DEF Making, Here, Id, MaybeId, Kinds, Typed, Fitting, Alone, Active, Ready,
     MakingGoesOn, NoBackupYet, ReadyCurrent, Clean, Bounded, LeavePage, Intro
<1>31. CASE CloseTab(t)
  BY <1>31 DEF Making, Here, Id, MaybeId, Kinds, Typed, Fitting, Alone, Active, Ready,
     MakingGoesOn, NoBackupYet, ReadyCurrent, Clean, Bounded, CloseTab, Interrupted, NoService,
     Intro, Idle
<1>32. CASE RefreshBackup(t)
  BY <1>32 DEF Making, Here, Id, MaybeId, Kinds, Typed, Fitting, Alone, Active, Ready,
     MakingGoesOn, NoBackupYet, ReadyCurrent, Clean, Bounded, RefreshBackup
<1> QED
  BY <1>1, <1>2, <1>3, <1>4, <1>5, <1>6, <1>7, <1>8, <1>9, <1>10, <1>11, <1>12, <1>13, <1>14,
     <1>15, <1>16, <1>17, <1>18, <1>19, <1>20, <1>21, <1>22, <1>23, <1>24, <1>25, <1>26, <1>27,
     <1>28, <1>29, <1>30, <1>31, <1>32 DEF Effect

LEMMA OnlyUnfinishedKept ==
  ASSUME Typed, Fitting, Alone, MakingGoesOn, OnlyUnfinished, NoneToFind, NEW t \in Tab, Effect(t)
  PROVE  OnlyUnfinished'
<1> USE DEF server, tabs, hist, peer
<1>1. CASE Opening(t) /\ Cached(t)
  BY <1>1 DEF Making, Here, Id, MaybeId, Kinds, Typed, Fitting, Alone, Active, Ready, MakingGoesOn,
     OnlyUnfinished, NoneToFind, Makes, Opening, Cached, Idle, Intro
<1>2. CASE Opening(t) /\ Unreadable(t)
  BY <1>2 DEF Making, Here, Id, MaybeId, Kinds, Typed, Fitting, Alone, Active, Ready, MakingGoesOn,
     OnlyUnfinished, NoneToFind, Makes, Opening, Unreadable, Idle, Intro
<1>3. CASE Opening(t) /\ Asks(t)
  BY <1>3 DEF Making, Here, Id, MaybeId, Kinds, Typed, Fitting, Alone, Active, Ready, MakingGoesOn,
     OnlyUnfinished, NoneToFind, Makes, Opening, Asks, Crossed, Idle, Intro
<1>4. CASE Asked(t)
  BY <1>4 DEF Making, Here, Id, MaybeId, Kinds, Typed, Fitting, Alone, Active, Ready, MakingGoesOn,
     OnlyUnfinished, NoneToFind, Makes, Asked
<1>5. CASE Told(t) /\ Unlisted(t)
  BY <1>5 DEF Making, Here, Id, MaybeId, Kinds, Typed, Fitting, Alone, Active, Ready, MakingGoesOn,
     OnlyUnfinished, NoneToFind, Makes, Told, Unlisted
<1>6. CASE Told(t) /\ Confirmed(t)
  BY <1>6 DEF Making, Here, Id, MaybeId, Kinds, Typed, Fitting, Alone, Active, Ready, MakingGoesOn,
     OnlyUnfinished, NoneToFind, Makes, Told, Confirmed, Idle
<1>7. CASE Told(t) /\ Refused(t)
  BY <1>7 DEF Making, Here, Id, MaybeId, Kinds, Typed, Fitting, Alone, Active, Ready, MakingGoesOn,
     OnlyUnfinished, NoneToFind, Makes, Told, Refused, Idle
<1>8. CASE Republished(t)
  BY <1>8 DEF Making, Here, Id, MaybeId, Kinds, Typed, Fitting, Alone, Active, Ready, MakingGoesOn,
     OnlyUnfinished, NoneToFind, Makes, Republished, Settle, Show, Idle
<1>9. CASE Turns(t)
  BY <1>9 DEF Making, Here, Id, MaybeId, Kinds, Typed, Fitting, Alone, Active, Ready, MakingGoesOn,
     OnlyUnfinished, NoneToFind, Makes, Turns, Turn, Gated
<1>10. CASE Enable(t)
  BY <1>10 DEF Making, Here, Id, MaybeId, Kinds, Typed, Fitting, Alone, Active, Ready,
     MakingGoesOn, OnlyUnfinished, NoneToFind, Makes, Enable, Start, Idle, Gated
<1>11. CASE ConfirmReset(t)
  BY <1>11 DEF Making, Here, Id, MaybeId, Kinds, Typed, Fitting, Alone, Active, Ready,
     MakingGoesOn, OnlyUnfinished, NoneToFind, Makes, ConfirmReset, Start, Idle, Gated
<1>12. CASE Restores(t)
  BY <1>12 DEF Making, Here, Id, MaybeId, Kinds, Typed, Fitting, Alone, Active, Ready,
     MakingGoesOn, OnlyUnfinished, NoneToFind, Makes, Restores, SubmitRestore, Crossed, Idle, Gated
<1>13. CASE AcknowledgeSaved(t)
  BY <1>13 DEF Making, Here, Id, MaybeId, Kinds, Typed, Fitting, Alone, Active, Ready,
     MakingGoesOn, OnlyUnfinished, NoneToFind, Makes, AcknowledgeSaved
<1>14. CASE Wiped(t)
  BY <1>14 DEF Making, Here, Id, MaybeId, Kinds, Typed, Fitting, Alone, Active, Ready,
     MakingGoesOn, OnlyUnfinished, NoneToFind, Makes, Wiped, Go, EmptyStore
<1>15. CASE Refreshed(t)
  BY <1>15 DEF Making, Here, Id, MaybeId, Kinds, Typed, Fitting, Alone, Active, Ready,
     MakingGoesOn, OnlyUnfinished, NoneToFind, Makes, Refreshed, Go, NoService
<1>16. CASE ReadsKey(t) /\ NewKey(t)
  <2>1. \A u \in Tab : job'[u].kind = job[u].kind /\ job'[u].id = job[u].id
    BY <1>16 DEF Typed, NewKey
  <2>2. \A u \in Tab, n \in Nat : (Makes(u, n))' <=> Makes(u, n)
    BY <1>16, <2>1 DEF Makes, Making
  <2> QED
    BY <1>16, <2>2 DEF OnlyUnfinished, Typed, ReadsKey
<1>17. CASE ReadsKey(t) /\ OldKey(t)
  <2>1. \A u \in Tab : job'[u].kind = job[u].kind /\ job'[u].id = job[u].id
    BY <1>17 DEF Typed, OldKey
  <2>2. \A u \in Tab, n \in Nat : (Makes(u, n))' <=> Makes(u, n)
    BY <1>17, <2>1 DEF Makes, Making
  <2> QED
    BY <1>17, <2>2 DEF OnlyUnfinished, Typed, ReadsKey
<1>18. CASE KeyStored(t)
  <2>1. \A u \in Tab, n \in Nat : (Makes(u, n))' <=> Makes(u, n)
    BY <1>18 DEF KeyStored, Go, Typed, Makes, Making
  <2>2. \A b \in Browser : store'[b].id = store[b].id
    BY <1>18 DEF KeyStored, Typed
  <2> QED
    BY <1>18, <2>1, <2>2 DEF OnlyUnfinished, Typed, KeyStored
<1>19. CASE IdentitySaved(t) /\ Making(t)
  BY <1>19 DEF Making, Here, Id, MaybeId, Kinds, Typed, Fitting, Alone, Active, Ready,
     MakingGoesOn, OnlyUnfinished, NoneToFind, Makes, IdentitySaved, Go
<1>20. CASE IdentitySaved(t) /\ ~Making(t)
  BY <1>20 DEF Making, Here, Id, MaybeId, Kinds, Typed, Fitting, Alone, Active, Ready,
     MakingGoesOn, OnlyUnfinished, NoneToFind, Makes, IdentitySaved, Go
<1>21. CASE Published(t)
  BY <1>21 DEF Making, Here, Id, MaybeId, Kinds, Typed, Fitting, Alone, Active, Ready,
     MakingGoesOn, OnlyUnfinished, NoneToFind, Makes, Published, Go
<1>22. CASE Loaded(t)
  BY <1>22 DEF Making, Here, Id, MaybeId, Kinds, Typed, Fitting, Alone, Active, Ready,
     MakingGoesOn, OnlyUnfinished, NoneToFind, Makes, Loaded
<1>23. CASE Uploaded(t)
  BY <1>23 DEF Making, Here, Id, MaybeId, Kinds, Typed, Fitting, Alone, Active, Ready,
     MakingGoesOn, OnlyUnfinished, NoneToFind, Makes, Uploaded, Go, CodeOf
<1>24. CASE BackupOpened(t)
  BY <1>24 DEF Making, Here, Id, MaybeId, Kinds, Typed, Fitting, Alone, Active, Ready,
     MakingGoesOn, OnlyUnfinished, NoneToFind, Makes, BackupOpened, UnlockedBy
<1>25. CASE Finished(t) /\ Making(t)
  BY <1>25 DEF Making, Here, Id, MaybeId, Kinds, Typed, Fitting, Alone, Active, Ready,
     MakingGoesOn, OnlyUnfinished, NoneToFind, Makes, Finished, Settle, Show, Material, CodeOf,
     Idle
<1>26. CASE Finished(t) /\ ~Making(t)
  BY <1>26 DEF Making, Here, Id, MaybeId, Kinds, Typed, Fitting, Alone, Active, Ready,
     MakingGoesOn, OnlyUnfinished, NoneToFind, Makes, Finished, Settle, Show, Material, CodeOf,
     Idle
<1>27. CASE StepFails(t) /\ job[t].kind = "check"
  BY <1>27 DEF Making, Here, Id, MaybeId, Kinds, Typed, Fitting, Alone, Active, Ready,
     MakingGoesOn, OnlyUnfinished, NoneToFind, Makes, StepFails, Interrupted, Settle, Show, Idle
<1>28. CASE StepFails(t) /\ job[t].kind # "check"
  BY <1>28 DEF Making, Here, Id, MaybeId, Kinds, Typed, Fitting, Alone, Active, Ready,
     MakingGoesOn, OnlyUnfinished, NoneToFind, Makes, StepFails, Interrupted, Settle, Show, Idle
<1>29. CASE AnswerLost(t)
  BY <1>29 DEF Making, Here, Id, MaybeId, Kinds, Typed, Fitting, Alone, Active, Ready,
     MakingGoesOn, OnlyUnfinished, NoneToFind, Makes, AnswerLost, Interrupted, CodeOf, Idle
<1>30. CASE LeavePage(t)
  BY <1>30 DEF Making, Here, Id, MaybeId, Kinds, Typed, Fitting, Alone, Active, Ready,
     MakingGoesOn, OnlyUnfinished, NoneToFind, Makes, LeavePage, Intro
<1>31. CASE CloseTab(t)
  BY <1>31 DEF Making, Here, Id, MaybeId, Kinds, Typed, Fitting, Alone, Active, Ready,
     MakingGoesOn, OnlyUnfinished, NoneToFind, Makes, CloseTab, Interrupted, NoService, Intro, Idle
<1>32. CASE RefreshBackup(t)
  BY <1>32 DEF Making, Here, Id, MaybeId, Kinds, Typed, Fitting, Alone, Active, Ready,
     MakingGoesOn, OnlyUnfinished, NoneToFind, Makes, RefreshBackup
<1> QED
  BY <1>1, <1>2, <1>3, <1>4, <1>5, <1>6, <1>7, <1>8, <1>9, <1>10, <1>11, <1>12, <1>13, <1>14,
     <1>15, <1>16, <1>17, <1>18, <1>19, <1>20, <1>21, <1>22, <1>23, <1>24, <1>25, <1>26, <1>27,
     <1>28, <1>29, <1>30, <1>31, <1>32 DEF Effect

LEMMA NoneToFindKept ==
  ASSUME Typed, Fitting, Alone, MakingGoesOn, NoBackupYet, OnlyUnfinished, NoneToFind,
  NEW t \in Tab, Effect(t)
  PROVE  NoneToFind'
<1> USE DEF server, tabs, hist, peer
<1>1. CASE Opening(t) /\ Cached(t)
  BY <1>1 DEF Making, Here, Id, MaybeId, Kinds, Typed, Fitting, Alone, Active, Ready, MakingGoesOn,
     NoBackupYet, OnlyUnfinished, NoneToFind, Makes, Crossed, Opening, Cached, Idle, Intro
<1>2. CASE Opening(t) /\ Unreadable(t)
  BY <1>2 DEF Making, Here, Id, MaybeId, Kinds, Typed, Fitting, Alone, Active, Ready, MakingGoesOn,
     NoBackupYet, OnlyUnfinished, NoneToFind, Makes, Crossed, Opening, Unreadable, Idle, Intro
<1>3. CASE Opening(t) /\ Asks(t)
  <2>1. CASE overlap'
    BY <2>1 DEF NoneToFind
  <2>2. CASE ~overlap'
    <3>1. ~overlap /\ \A u \in Tab \ {t} : ~Making(u)
      BY <1>3, <2>2 DEF Asks, Crossed
    <3>2. job'[t].at = "ask" /\ job'[t].kind = "check" /\ job'[t].id = Here(t).id
      BY <1>3 DEF Asks, Typed, Idle
    <3>3. \A u \in Tab \ {t} : job'[u] = job[u]
      BY <1>3 DEF Asks, Typed
    <3>4. job[t].kind = "none" /\ Here(t) = store[home[t]] /\ home[t] \in Browser
      BY <1>3 DEF Opening, Fitting, Here, Typed
    <3>5. published = 0 => Here(t).id = 0 \/ Here(t).id \in torn
      BY <3>1, <3>4 DEF OnlyUnfinished, Makes, Making
    <3> QED
      BY <1>3, <3>1, <3>2, <3>3, <3>5 DEF NoneToFind, Opening, server
  <2> QED
    BY <2>1, <2>2
<1>4. CASE Asked(t)
  BY <1>4 DEF Making, Here, Id, MaybeId, Kinds, Typed, Fitting, Alone, Active, Ready, MakingGoesOn,
     NoBackupYet, OnlyUnfinished, NoneToFind, Makes, Crossed, Asked
<1>5. CASE Told(t) /\ Unlisted(t)
  BY <1>5 DEF Making, Here, Id, MaybeId, Kinds, Typed, Fitting, Alone, Active, Ready, MakingGoesOn,
     NoBackupYet, OnlyUnfinished, NoneToFind, Makes, Crossed, Told, Unlisted
<1>6. CASE Told(t) /\ Confirmed(t)
  BY <1>6 DEF Making, Here, Id, MaybeId, Kinds, Typed, Fitting, Alone, Active, Ready, MakingGoesOn,
     NoBackupYet, OnlyUnfinished, NoneToFind, Makes, Crossed, Told, Confirmed, Idle
<1>7. CASE Told(t) /\ Refused(t)
  BY <1>7 DEF Making, Here, Id, MaybeId, Kinds, Typed, Fitting, Alone, Active, Ready, MakingGoesOn,
     NoBackupYet, OnlyUnfinished, NoneToFind, Makes, Crossed, Told, Refused, Idle
<1>8. CASE Republished(t)
  BY <1>8 DEF Making, Here, Id, MaybeId, Kinds, Typed, Fitting, Alone, Active, Ready, MakingGoesOn,
     NoBackupYet, OnlyUnfinished, NoneToFind, Makes, Crossed, Republished, Settle, Show, Idle
<1>9. CASE Turns(t)
  BY <1>9 DEF Making, Here, Id, MaybeId, Kinds, Typed, Fitting, Alone, Active, Ready, MakingGoesOn,
     NoBackupYet, OnlyUnfinished, NoneToFind, Makes, Crossed, Turns, Turn, Gated
<1>10. CASE Enable(t)
  BY <1>10 DEF Making, Here, Id, MaybeId, Kinds, Typed, Fitting, Alone, Active, Ready,
     MakingGoesOn, NoBackupYet, OnlyUnfinished, NoneToFind, Makes, Crossed, Enable, Start, Idle,
     Gated
<1>11. CASE ConfirmReset(t)
  BY <1>11 DEF Making, Here, Id, MaybeId, Kinds, Typed, Fitting, Alone, Active, Ready,
     MakingGoesOn, NoBackupYet, OnlyUnfinished, NoneToFind, Makes, Crossed, ConfirmReset, Start,
     Idle, Gated
<1>12. CASE Restores(t)
  BY <1>12 DEF Making, Here, Id, MaybeId, Kinds, Typed, Fitting, Alone, Active, Ready,
     MakingGoesOn, NoBackupYet, OnlyUnfinished, NoneToFind, Makes, Crossed, Restores,
     SubmitRestore, Crossed, Idle, Gated
<1>13. CASE AcknowledgeSaved(t)
  BY <1>13 DEF Making, Here, Id, MaybeId, Kinds, Typed, Fitting, Alone, Active, Ready,
     MakingGoesOn, NoBackupYet, OnlyUnfinished, NoneToFind, Makes, Crossed, AcknowledgeSaved
<1>14. CASE Wiped(t)
  BY <1>14 DEF Making, Here, Id, MaybeId, Kinds, Typed, Fitting, Alone, Active, Ready,
     MakingGoesOn, NoBackupYet, OnlyUnfinished, NoneToFind, Makes, Crossed, Wiped, Go, EmptyStore
<1>15. CASE Refreshed(t)
  BY <1>15 DEF Making, Here, Id, MaybeId, Kinds, Typed, Fitting, Alone, Active, Ready,
     MakingGoesOn, NoBackupYet, OnlyUnfinished, NoneToFind, Makes, Crossed, Refreshed, Go,
     NoService
<1>16. CASE ReadsKey(t) /\ NewKey(t)
  BY <1>16 DEF Making, Here, Id, MaybeId, Kinds, Typed, Fitting, Alone, Active, Ready,
     MakingGoesOn, NoBackupYet, OnlyUnfinished, NoneToFind, Makes, Crossed, ReadsKey, NewKey
<1>17. CASE ReadsKey(t) /\ OldKey(t)
  BY <1>17 DEF Making, Here, Id, MaybeId, Kinds, Typed, Fitting, Alone, Active, Ready,
     MakingGoesOn, NoBackupYet, OnlyUnfinished, NoneToFind, Makes, Crossed, ReadsKey, OldKey
<1>18. CASE KeyStored(t)
  BY <1>18 DEF Making, Here, Id, MaybeId, Kinds, Typed, Fitting, Alone, Active, Ready,
     MakingGoesOn, NoBackupYet, OnlyUnfinished, NoneToFind, Makes, Crossed, KeyStored, Go
<1>19. CASE IdentitySaved(t) /\ Making(t)
  BY <1>19 DEF Making, Here, Id, MaybeId, Kinds, Typed, Fitting, Alone, Active, Ready,
     MakingGoesOn, NoBackupYet, OnlyUnfinished, NoneToFind, Makes, Crossed, IdentitySaved, Go
<1>20. CASE IdentitySaved(t) /\ ~Making(t)
  BY <1>20 DEF Making, Here, Id, MaybeId, Kinds, Typed, Fitting, Alone, Active, Ready,
     MakingGoesOn, NoBackupYet, OnlyUnfinished, NoneToFind, Makes, Crossed, IdentitySaved, Go
<1>21. CASE Published(t)
  BY <1>21 DEF Making, Here, Id, MaybeId, Kinds, Typed, Fitting, Alone, Active, Ready,
     MakingGoesOn, NoBackupYet, OnlyUnfinished, NoneToFind, Makes, Crossed, Published, Go
<1>22. CASE Loaded(t)
  BY <1>22 DEF Making, Here, Id, MaybeId, Kinds, Typed, Fitting, Alone, Active, Ready,
     MakingGoesOn, NoBackupYet, OnlyUnfinished, NoneToFind, Makes, Crossed, Loaded
<1>23. CASE Uploaded(t)
  BY <1>23 DEF Making, Here, Id, MaybeId, Kinds, Typed, Fitting, Alone, Active, Ready,
     MakingGoesOn, NoBackupYet, OnlyUnfinished, NoneToFind, Makes, Crossed, Uploaded, Go, CodeOf
<1>24. CASE BackupOpened(t)
  BY <1>24 DEF Making, Here, Id, MaybeId, Kinds, Typed, Fitting, Alone, Active, Ready,
     MakingGoesOn, NoBackupYet, OnlyUnfinished, NoneToFind, Makes, Crossed, BackupOpened,
     UnlockedBy
<1>25. CASE Finished(t) /\ Making(t)
  BY <1>25 DEF Making, Here, Id, MaybeId, Kinds, Typed, Fitting, Alone, Active, Ready,
     MakingGoesOn, NoBackupYet, OnlyUnfinished, NoneToFind, Makes, Crossed, Finished, Settle, Show,
     Material, CodeOf, Idle
<1>26. CASE Finished(t) /\ ~Making(t)
  BY <1>26 DEF Making, Here, Id, MaybeId, Kinds, Typed, Fitting, Alone, Active, Ready,
     MakingGoesOn, NoBackupYet, OnlyUnfinished, NoneToFind, Makes, Crossed, Finished, Settle, Show,
     Material, CodeOf, Idle
<1>27. CASE StepFails(t) /\ job[t].kind = "check"
  BY <1>27 DEF Making, Here, Id, MaybeId, Kinds, Typed, Fitting, Alone, Active, Ready,
     MakingGoesOn, NoBackupYet, OnlyUnfinished, NoneToFind, Makes, Crossed, StepFails, Interrupted,
     Settle, Show, Idle
<1>28. CASE StepFails(t) /\ job[t].kind # "check"
  BY <1>28 DEF Making, Here, Id, MaybeId, Kinds, Typed, Fitting, Alone, Active, Ready,
     MakingGoesOn, NoBackupYet, OnlyUnfinished, NoneToFind, Makes, Crossed, StepFails, Interrupted,
     Settle, Show, Idle
<1>29. CASE AnswerLost(t)
  BY <1>29 DEF Making, Here, Id, MaybeId, Kinds, Typed, Fitting, Alone, Active, Ready,
     MakingGoesOn, NoBackupYet, OnlyUnfinished, NoneToFind, Makes, Crossed, AnswerLost,
     Interrupted, CodeOf, Idle
<1>30. CASE LeavePage(t)
  BY <1>30 DEF Making, Here, Id, MaybeId, Kinds, Typed, Fitting, Alone, Active, Ready,
     MakingGoesOn, NoBackupYet, OnlyUnfinished, NoneToFind, Makes, Crossed, LeavePage, Intro
<1>31. CASE CloseTab(t)
  BY <1>31 DEF Making, Here, Id, MaybeId, Kinds, Typed, Fitting, Alone, Active, Ready,
     MakingGoesOn, NoBackupYet, OnlyUnfinished, NoneToFind, Makes, Crossed, CloseTab, Interrupted,
     NoService, Intro, Idle
<1>32. CASE RefreshBackup(t)
  BY <1>32 DEF Making, Here, Id, MaybeId, Kinds, Typed, Fitting, Alone, Active, Ready,
     MakingGoesOn, NoBackupYet, OnlyUnfinished, NoneToFind, Makes, Crossed, RefreshBackup
<1> QED
  BY <1>1, <1>2, <1>3, <1>4, <1>5, <1>6, <1>7, <1>8, <1>9, <1>10, <1>11, <1>12, <1>13, <1>14,
     <1>15, <1>16, <1>17, <1>18, <1>19, <1>20, <1>21, <1>22, <1>23, <1>24, <1>25, <1>26, <1>27,
     <1>28, <1>29, <1>30, <1>31, <1>32 DEF Effect

LEMMA StillStoredKept ==
  ASSUME Typed, Fitting, Alone, MakingGoesOn, StillStored, NEW t \in Tab, Effect(t)
  PROVE  StillStored'
<1> USE DEF server, tabs, hist, peer
<1>1. CASE Opening(t) /\ Cached(t)
  BY <1>1 DEF Making, Here, Id, MaybeId, Kinds, Typed, Fitting, Alone, Active, Ready, MakingGoesOn,
     StillStored, Opening, Cached, Idle, Intro
<1>2. CASE Opening(t) /\ Unreadable(t)
  BY <1>2 DEF Making, Here, Id, MaybeId, Kinds, Typed, Fitting, Alone, Active, Ready, MakingGoesOn,
     StillStored, Opening, Unreadable, Idle, Intro
<1>3. CASE Opening(t) /\ Asks(t)
  BY <1>3 DEF Making, Here, Id, MaybeId, Kinds, Typed, Fitting, Alone, Active, Ready, MakingGoesOn,
     StillStored, Opening, Asks, Crossed, Idle, Intro
<1>4. CASE Asked(t)
  BY <1>4 DEF Making, Here, Id, MaybeId, Kinds, Typed, Fitting, Alone, Active, Ready, MakingGoesOn,
     StillStored, Asked
<1>5. CASE Told(t) /\ Unlisted(t)
  BY <1>5 DEF Making, Here, Id, MaybeId, Kinds, Typed, Fitting, Alone, Active, Ready, MakingGoesOn,
     StillStored, Told, Unlisted
<1>6. CASE Told(t) /\ Confirmed(t)
  BY <1>6 DEF Making, Here, Id, MaybeId, Kinds, Typed, Fitting, Alone, Active, Ready, MakingGoesOn,
     StillStored, Told, Confirmed, Idle
<1>7. CASE Told(t) /\ Refused(t)
  BY <1>7 DEF Making, Here, Id, MaybeId, Kinds, Typed, Fitting, Alone, Active, Ready, MakingGoesOn,
     StillStored, Told, Refused, Idle
<1>8. CASE Republished(t)
  BY <1>8 DEF Making, Here, Id, MaybeId, Kinds, Typed, Fitting, Alone, Active, Ready, MakingGoesOn,
     StillStored, Republished, Settle, Show, Idle
<1>9. CASE Turns(t)
  BY <1>9 DEF Making, Here, Id, MaybeId, Kinds, Typed, Fitting, Alone, Active, Ready, MakingGoesOn,
     StillStored, Turns, Turn, Gated
<1>10. CASE Enable(t)
  BY <1>10 DEF Making, Here, Id, MaybeId, Kinds, Typed, Fitting, Alone, Active, Ready,
     MakingGoesOn, StillStored, Enable, Start, Idle, Gated
<1>11. CASE ConfirmReset(t)
  BY <1>11 DEF Making, Here, Id, MaybeId, Kinds, Typed, Fitting, Alone, Active, Ready,
     MakingGoesOn, StillStored, ConfirmReset, Start, Idle, Gated
<1>12. CASE Restores(t)
  BY <1>12 DEF Making, Here, Id, MaybeId, Kinds, Typed, Fitting, Alone, Active, Ready,
     MakingGoesOn, StillStored, Restores, SubmitRestore, Crossed, Idle, Gated
<1>13. CASE AcknowledgeSaved(t)
  BY <1>13 DEF Making, Here, Id, MaybeId, Kinds, Typed, Fitting, Alone, Active, Ready,
     MakingGoesOn, StillStored, AcknowledgeSaved
<1>14. CASE Wiped(t)
  BY <1>14 DEF Making, Here, Id, MaybeId, Kinds, Typed, Fitting, Alone, Active, Ready,
     MakingGoesOn, StillStored, Wiped, Go, EmptyStore
<1>15. CASE Refreshed(t)
  BY <1>15 DEF Making, Here, Id, MaybeId, Kinds, Typed, Fitting, Alone, Active, Ready,
     MakingGoesOn, StillStored, Refreshed, Go, NoService
<1>16. CASE ReadsKey(t) /\ NewKey(t)
  BY <1>16 DEF Making, Here, Id, MaybeId, Kinds, Typed, Fitting, Alone, Active, Ready,
     MakingGoesOn, StillStored, ReadsKey, NewKey
<1>17. CASE ReadsKey(t) /\ OldKey(t)
  BY <1>17 DEF Making, Here, Id, MaybeId, Kinds, Typed, Fitting, Alone, Active, Ready,
     MakingGoesOn, StillStored, ReadsKey, OldKey
<1>18. CASE KeyStored(t)
  BY <1>18 DEF Making, Here, Id, MaybeId, Kinds, Typed, Fitting, Alone, Active, Ready,
     MakingGoesOn, StillStored, KeyStored, Go
<1>19. CASE IdentitySaved(t) /\ Making(t)
  BY <1>19 DEF Making, Here, Id, MaybeId, Kinds, Typed, Fitting, Alone, Active, Ready,
     MakingGoesOn, StillStored, IdentitySaved, Go
<1>20. CASE IdentitySaved(t) /\ ~Making(t)
  BY <1>20 DEF Making, Here, Id, MaybeId, Kinds, Typed, Fitting, Alone, Active, Ready,
     MakingGoesOn, StillStored, IdentitySaved, Go
<1>21. CASE Published(t)
  BY <1>21 DEF Making, Here, Id, MaybeId, Kinds, Typed, Fitting, Alone, Active, Ready,
     MakingGoesOn, StillStored, Published, Go
<1>22. CASE Loaded(t)
  BY <1>22 DEF Making, Here, Id, MaybeId, Kinds, Typed, Fitting, Alone, Active, Ready,
     MakingGoesOn, StillStored, Loaded
<1>23. CASE Uploaded(t)
  BY <1>23 DEF Making, Here, Id, MaybeId, Kinds, Typed, Fitting, Alone, Active, Ready,
     MakingGoesOn, StillStored, Uploaded, Go, CodeOf
<1>24. CASE BackupOpened(t)
  BY <1>24 DEF Making, Here, Id, MaybeId, Kinds, Typed, Fitting, Alone, Active, Ready,
     MakingGoesOn, StillStored, BackupOpened, UnlockedBy
<1>25. CASE Finished(t) /\ Making(t)
  BY <1>25 DEF Making, Here, Id, MaybeId, Kinds, Typed, Fitting, Alone, Active, Ready,
     MakingGoesOn, StillStored, Finished, Settle, Show, Material, CodeOf, Idle
<1>26. CASE Finished(t) /\ ~Making(t)
  BY <1>26 DEF Making, Here, Id, MaybeId, Kinds, Typed, Fitting, Alone, Active, Ready,
     MakingGoesOn, StillStored, Finished, Settle, Show, Material, CodeOf, Idle
<1>27. CASE StepFails(t) /\ job[t].kind = "check"
  BY <1>27 DEF Making, Here, Id, MaybeId, Kinds, Typed, Fitting, Alone, Active, Ready,
     MakingGoesOn, StillStored, StepFails, Interrupted, Settle, Show, Idle
<1>28. CASE StepFails(t) /\ job[t].kind # "check"
  BY <1>28 DEF Making, Here, Id, MaybeId, Kinds, Typed, Fitting, Alone, Active, Ready,
     MakingGoesOn, StillStored, StepFails, Interrupted, Settle, Show, Idle
<1>29. CASE AnswerLost(t)
  BY <1>29 DEF Making, Here, Id, MaybeId, Kinds, Typed, Fitting, Alone, Active, Ready,
     MakingGoesOn, StillStored, AnswerLost, Interrupted, CodeOf, Idle
<1>30. CASE LeavePage(t)
  BY <1>30 DEF Making, Here, Id, MaybeId, Kinds, Typed, Fitting, Alone, Active, Ready,
     MakingGoesOn, StillStored, LeavePage, Intro
<1>31. CASE CloseTab(t)
  BY <1>31 DEF Making, Here, Id, MaybeId, Kinds, Typed, Fitting, Alone, Active, Ready,
     MakingGoesOn, StillStored, CloseTab, Interrupted, NoService, Intro, Idle
<1>32. CASE RefreshBackup(t)
  BY <1>32 DEF Making, Here, Id, MaybeId, Kinds, Typed, Fitting, Alone, Active, Ready,
     MakingGoesOn, StillStored, RefreshBackup
<1> QED
  BY <1>1, <1>2, <1>3, <1>4, <1>5, <1>6, <1>7, <1>8, <1>9, <1>10, <1>11, <1>12, <1>13, <1>14,
     <1>15, <1>16, <1>17, <1>18, <1>19, <1>20, <1>21, <1>22, <1>23, <1>24, <1>25, <1>26, <1>27,
     <1>28, <1>29, <1>30, <1>31, <1>32 DEF Effect

LEMMA BackupCurrentKept ==
  ASSUME Typed, Bounded, Fitting, Alone, Once, MakingGoesOn, NoneToFind, BackupCurrent,
  CodeCurrent, ReadyCurrent, NEW t \in Tab, Effect(t)
  PROVE  BackupCurrent'
<1> USE DEF server, tabs, hist, peer
<1>1. CASE Opening(t) /\ Cached(t)
  BY <1>1 DEF Making, Here, Id, MaybeId, Kinds, Typed, Bounded, Fitting, Alone, Active, Ready,
     MakingGoesOn, NoneToFind, BackupCurrent, CodeCurrent, ReadyCurrent, Clean, Pending, Makes,
     Opening, Cached, Idle, Intro
<1>2. CASE Opening(t) /\ Unreadable(t)
  BY <1>2 DEF Making, Here, Id, MaybeId, Kinds, Typed, Bounded, Fitting, Alone, Active, Ready,
     MakingGoesOn, NoneToFind, BackupCurrent, CodeCurrent, ReadyCurrent, Clean, Pending, Makes,
     Opening, Unreadable, Idle, Intro
<1>3. CASE Opening(t) /\ Asks(t)
  BY <1>3 DEF Making, Here, Id, MaybeId, Kinds, Typed, Bounded, Fitting, Alone, Active, Ready,
     MakingGoesOn, NoneToFind, BackupCurrent, CodeCurrent, ReadyCurrent, Clean, Pending, Makes,
     Opening, Asks, Crossed, Idle, Intro
<1>4. CASE Asked(t)
  BY <1>4 DEF Making, Here, Id, MaybeId, Kinds, Typed, Bounded, Fitting, Alone, Active, Ready,
     MakingGoesOn, NoneToFind, BackupCurrent, CodeCurrent, ReadyCurrent, Clean, Pending, Makes,
     Asked
<1>5. CASE Told(t) /\ Unlisted(t)
  BY <1>5 DEF Making, Here, Id, MaybeId, Kinds, Typed, Bounded, Fitting, Alone, Active, Ready,
     MakingGoesOn, NoneToFind, BackupCurrent, CodeCurrent, ReadyCurrent, Clean, Pending, Makes,
     Told, Unlisted
<1>6. CASE Told(t) /\ Confirmed(t)
  BY <1>6 DEF Making, Here, Id, MaybeId, Kinds, Typed, Bounded, Fitting, Alone, Active, Ready,
     MakingGoesOn, NoneToFind, BackupCurrent, CodeCurrent, ReadyCurrent, Clean, Pending, Makes,
     Told, Confirmed, Idle
<1>7. CASE Told(t) /\ Refused(t)
  BY <1>7 DEF Making, Here, Id, MaybeId, Kinds, Typed, Bounded, Fitting, Alone, Active, Ready,
     MakingGoesOn, NoneToFind, BackupCurrent, CodeCurrent, ReadyCurrent, Clean, Pending, Makes,
     Told, Refused, Idle
<1>8. CASE Republished(t)
  BY <1>8 DEF Making, Here, Id, MaybeId, Kinds, Typed, Bounded, Fitting, Alone, Active, Ready,
     MakingGoesOn, NoneToFind, BackupCurrent, CodeCurrent, ReadyCurrent, Clean, Pending, Makes,
     Republished, Settle, Show, Idle
<1>9. CASE Turns(t)
  BY <1>9 DEF Making, Here, Id, MaybeId, Kinds, Typed, Bounded, Fitting, Alone, Active, Ready,
     MakingGoesOn, NoneToFind, BackupCurrent, CodeCurrent, ReadyCurrent, Clean, Pending, Makes,
     Turns, Turn, Gated
<1>10. CASE Enable(t)
  BY <1>10 DEF Making, Here, Id, MaybeId, Kinds, Typed, Bounded, Fitting, Alone, Active, Ready,
     MakingGoesOn, NoneToFind, BackupCurrent, CodeCurrent, ReadyCurrent, Clean, Pending, Makes,
     Enable, Start, Idle, Gated
<1>11. CASE ConfirmReset(t)
  BY <1>11 DEF Making, Here, Id, MaybeId, Kinds, Typed, Bounded, Fitting, Alone, Active, Ready,
     MakingGoesOn, NoneToFind, BackupCurrent, CodeCurrent, ReadyCurrent, Clean, Pending, Makes,
     ConfirmReset, Start, Idle, Gated
<1>12. CASE Restores(t)
  BY <1>12 DEF Making, Here, Id, MaybeId, Kinds, Typed, Bounded, Fitting, Alone, Active, Ready,
     MakingGoesOn, NoneToFind, BackupCurrent, CodeCurrent, ReadyCurrent, Clean, Pending, Makes,
     Restores, SubmitRestore, Crossed, Idle, Gated
<1>13. CASE AcknowledgeSaved(t)
  BY <1>13 DEF Making, Here, Id, MaybeId, Kinds, Typed, Bounded, Fitting, Alone, Active, Ready,
     MakingGoesOn, NoneToFind, BackupCurrent, CodeCurrent, ReadyCurrent, Clean, Pending, Makes,
     AcknowledgeSaved
<1>14. CASE Wiped(t)
  BY <1>14 DEF Making, Here, Id, MaybeId, Kinds, Typed, Bounded, Fitting, Alone, Active, Ready,
     MakingGoesOn, NoneToFind, BackupCurrent, CodeCurrent, ReadyCurrent, Clean, Pending, Makes,
     Wiped, Go, EmptyStore
<1>15. CASE Refreshed(t)
  BY <1>15 DEF Making, Here, Id, MaybeId, Kinds, Typed, Bounded, Fitting, Alone, Active, Ready,
     MakingGoesOn, NoneToFind, BackupCurrent, CodeCurrent, ReadyCurrent, Clean, Pending, Makes,
     Refreshed, Go, NoService
<1>16. CASE ReadsKey(t) /\ NewKey(t)
  <2>1. \A u \in Tab : job'[u].kind = job[u].kind /\ job'[u].id = job[u].id
    BY <1>16 DEF Typed, NewKey
  <2>2. Pending' <=> Pending
    BY <1>16, <2>1 DEF Pending, Makes, Making, ReadsKey
  <2> QED
    BY <1>16, <2>2 DEF BackupCurrent, Clean, ReadsKey
<1>17. CASE ReadsKey(t) /\ OldKey(t)
  <2>1. \A u \in Tab : job'[u].kind = job[u].kind /\ job'[u].id = job[u].id
    BY <1>17 DEF Typed, OldKey
  <2>2. Pending' <=> Pending
    BY <1>17, <2>1 DEF Pending, Makes, Making, ReadsKey
  <2> QED
    BY <1>17, <2>2 DEF BackupCurrent, Clean, ReadsKey
<1>18. CASE KeyStored(t)
  BY <1>18 DEF Making, Here, Id, MaybeId, Kinds, Typed, Bounded, Fitting, Alone, Active, Ready,
     MakingGoesOn, NoneToFind, BackupCurrent, CodeCurrent, ReadyCurrent, Clean, Pending, Makes,
     KeyStored, Go
<1>19. CASE IdentitySaved(t) /\ Making(t)
  BY <1>19 DEF Making, Here, Id, MaybeId, Kinds, Typed, Bounded, Fitting, Alone, Active, Ready,
     MakingGoesOn, NoneToFind, BackupCurrent, CodeCurrent, ReadyCurrent, Clean, Pending, Makes,
     IdentitySaved, Go
<1>20. CASE IdentitySaved(t) /\ ~Making(t)
  BY <1>20 DEF Making, Here, Id, MaybeId, Kinds, Typed, Bounded, Fitting, Alone, Active, Ready,
     MakingGoesOn, NoneToFind, BackupCurrent, CodeCurrent, ReadyCurrent, Clean, Pending, Makes,
     IdentitySaved, Go
<1>21. CASE Published(t)
  BY <1>21 DEF Making, Here, Id, MaybeId, Kinds, Typed, Bounded, Fitting, Alone, Active, Ready,
     MakingGoesOn, NoneToFind, BackupCurrent, CodeCurrent, ReadyCurrent, Clean, Pending, Makes,
     Published, Go
<1>22. CASE Loaded(t)
  BY <1>22 DEF Making, Here, Id, MaybeId, Kinds, Typed, Bounded, Fitting, Alone, Active, Ready,
     MakingGoesOn, NoneToFind, BackupCurrent, CodeCurrent, ReadyCurrent, Clean, Pending, Makes,
     Loaded
<1>23. CASE Uploaded(t)
  BY <1>23 DEF Making, Here, Id, MaybeId, Kinds, Typed, Bounded, Fitting, Alone, Active, Ready,
     MakingGoesOn, NoneToFind, BackupCurrent, CodeCurrent, ReadyCurrent, Clean, Pending, Makes,
     Uploaded, Go, CodeOf
<1>24. CASE BackupOpened(t)
  BY <1>24 DEF Making, Here, Id, MaybeId, Kinds, Typed, Bounded, Fitting, Alone, Active, Ready,
     MakingGoesOn, NoneToFind, BackupCurrent, CodeCurrent, ReadyCurrent, Clean, Pending, Makes,
     BackupOpened, UnlockedBy
<1>25. CASE Finished(t) /\ Making(t)
  BY <1>25 DEF Making, Here, Id, MaybeId, Kinds, Typed, Bounded, Fitting, Alone, Active, Ready,
     MakingGoesOn, NoneToFind, BackupCurrent, CodeCurrent, ReadyCurrent, Clean, Pending, Makes,
     Finished, Settle, Show, Material, CodeOf, Idle
<1>26. CASE Finished(t) /\ ~Making(t)
  BY <1>26 DEF Making, Here, Id, MaybeId, Kinds, Typed, Bounded, Fitting, Alone, Active, Ready,
     MakingGoesOn, NoneToFind, BackupCurrent, CodeCurrent, ReadyCurrent, Clean, Pending, Makes,
     Finished, Settle, Show, Material, CodeOf, Idle
<1>27. CASE StepFails(t) /\ job[t].kind = "check"
  BY <1>27 DEF Making, Here, Id, MaybeId, Kinds, Typed, Bounded, Fitting, Alone, Active, Ready,
     MakingGoesOn, NoneToFind, BackupCurrent, CodeCurrent, ReadyCurrent, Clean, Pending, Makes,
     StepFails, Interrupted, Settle, Show, Idle
<1>28. CASE StepFails(t) /\ job[t].kind # "check"
  BY <1>28 DEF Making, Here, Id, MaybeId, Kinds, Typed, Bounded, Fitting, Alone, Active, Ready,
     MakingGoesOn, NoneToFind, BackupCurrent, CodeCurrent, ReadyCurrent, Clean, Pending, Makes,
     StepFails, Interrupted, Settle, Show, Idle
<1>29. CASE AnswerLost(t)
  BY <1>29 DEF Making, Here, Id, MaybeId, Kinds, Typed, Bounded, Fitting, Alone, Active, Ready,
     MakingGoesOn, NoneToFind, BackupCurrent, CodeCurrent, ReadyCurrent, Clean, Pending, Makes,
     AnswerLost, Interrupted, CodeOf, Idle
<1>30. CASE LeavePage(t)
  BY <1>30 DEF Making, Here, Id, MaybeId, Kinds, Typed, Bounded, Fitting, Alone, Active, Ready,
     MakingGoesOn, NoneToFind, BackupCurrent, CodeCurrent, ReadyCurrent, Clean, Pending, Makes,
     LeavePage, Intro
<1>31. CASE CloseTab(t)
  BY <1>31 DEF Making, Here, Id, MaybeId, Kinds, Typed, Bounded, Fitting, Alone, Active, Ready,
     MakingGoesOn, NoneToFind, BackupCurrent, CodeCurrent, ReadyCurrent, Clean, Pending, Makes,
     CloseTab, Interrupted, NoService, Intro, Idle
<1>32. CASE RefreshBackup(t)
  BY <1>32 DEF Making, Here, Id, MaybeId, Kinds, Typed, Bounded, Fitting, Alone, Active, Ready,
     MakingGoesOn, NoneToFind, BackupCurrent, CodeCurrent, ReadyCurrent, Clean, Pending, Makes,
     RefreshBackup
<1> QED
  BY <1>1, <1>2, <1>3, <1>4, <1>5, <1>6, <1>7, <1>8, <1>9, <1>10, <1>11, <1>12, <1>13, <1>14,
     <1>15, <1>16, <1>17, <1>18, <1>19, <1>20, <1>21, <1>22, <1>23, <1>24, <1>25, <1>26, <1>27,
     <1>28, <1>29, <1>30, <1>31, <1>32 DEF Effect

LEMMA CodeCurrentKept ==
  ASSUME Typed, Bounded, Fitting, Alone, Once, MakingGoesOn, NoneToFind, CodeCurrent,
  RestoreCurrent, NEW t \in Tab, Effect(t)
  PROVE  CodeCurrent'
<1> USE DEF server, tabs, hist, peer
<1>1. CASE Opening(t) /\ Cached(t)
  BY <1>1 DEF Making, Here, Id, MaybeId, Kinds, Typed, Bounded, Fitting, Alone, Active, Ready,
     MakingGoesOn, NoneToFind, CodeCurrent, RestoreCurrent, Clean, Opening, Cached, Idle, Intro
<1>2. CASE Opening(t) /\ Unreadable(t)
  BY <1>2 DEF Making, Here, Id, MaybeId, Kinds, Typed, Bounded, Fitting, Alone, Active, Ready,
     MakingGoesOn, NoneToFind, CodeCurrent, RestoreCurrent, Clean, Opening, Unreadable, Idle, Intro
<1>3. CASE Opening(t) /\ Asks(t)
  BY <1>3 DEF Making, Here, Id, MaybeId, Kinds, Typed, Bounded, Fitting, Alone, Active, Ready,
     MakingGoesOn, NoneToFind, CodeCurrent, RestoreCurrent, Clean, Opening, Asks, Crossed, Idle,
     Intro
<1>4. CASE Asked(t)
  BY <1>4 DEF Making, Here, Id, MaybeId, Kinds, Typed, Bounded, Fitting, Alone, Active, Ready,
     MakingGoesOn, NoneToFind, CodeCurrent, RestoreCurrent, Clean, Asked
<1>5. CASE Told(t) /\ Unlisted(t)
  BY <1>5 DEF Making, Here, Id, MaybeId, Kinds, Typed, Bounded, Fitting, Alone, Active, Ready,
     MakingGoesOn, NoneToFind, CodeCurrent, RestoreCurrent, Clean, Told, Unlisted
<1>6. CASE Told(t) /\ Confirmed(t)
  BY <1>6 DEF Making, Here, Id, MaybeId, Kinds, Typed, Bounded, Fitting, Alone, Active, Ready,
     MakingGoesOn, NoneToFind, CodeCurrent, RestoreCurrent, Clean, Told, Confirmed, Idle
<1>7. CASE Told(t) /\ Refused(t)
  BY <1>7 DEF Making, Here, Id, MaybeId, Kinds, Typed, Bounded, Fitting, Alone, Active, Ready,
     MakingGoesOn, NoneToFind, CodeCurrent, RestoreCurrent, Clean, Told, Refused, Idle
<1>8. CASE Republished(t)
  BY <1>8 DEF Making, Here, Id, MaybeId, Kinds, Typed, Bounded, Fitting, Alone, Active, Ready,
     MakingGoesOn, NoneToFind, CodeCurrent, RestoreCurrent, Clean, Republished, Settle, Show, Idle
<1>9. CASE Turns(t)
  BY <1>9 DEF Making, Here, Id, MaybeId, Kinds, Typed, Bounded, Fitting, Alone, Active, Ready,
     MakingGoesOn, NoneToFind, CodeCurrent, RestoreCurrent, Clean, Turns, Turn, Gated
<1>10. CASE Enable(t)
  BY <1>10 DEF Making, Here, Id, MaybeId, Kinds, Typed, Bounded, Fitting, Alone, Active, Ready,
     MakingGoesOn, NoneToFind, CodeCurrent, RestoreCurrent, Clean, Enable, Start, Idle, Gated
<1>11. CASE ConfirmReset(t)
  BY <1>11 DEF Making, Here, Id, MaybeId, Kinds, Typed, Bounded, Fitting, Alone, Active, Ready,
     MakingGoesOn, NoneToFind, CodeCurrent, RestoreCurrent, Clean, ConfirmReset, Start, Idle, Gated
<1>12. CASE Restores(t)
  BY <1>12 DEF Making, Here, Id, MaybeId, Kinds, Typed, Bounded, Fitting, Alone, Active, Ready,
     MakingGoesOn, NoneToFind, CodeCurrent, RestoreCurrent, Clean, Restores, SubmitRestore,
     Crossed, Idle, Gated
<1>13. CASE AcknowledgeSaved(t)
  BY <1>13 DEF Making, Here, Id, MaybeId, Kinds, Typed, Bounded, Fitting, Alone, Active, Ready,
     MakingGoesOn, NoneToFind, CodeCurrent, RestoreCurrent, Clean, AcknowledgeSaved
<1>14. CASE Wiped(t)
  BY <1>14 DEF Making, Here, Id, MaybeId, Kinds, Typed, Bounded, Fitting, Alone, Active, Ready,
     MakingGoesOn, NoneToFind, CodeCurrent, RestoreCurrent, Clean, Wiped, Go, EmptyStore
<1>15. CASE Refreshed(t)
  BY <1>15 DEF Making, Here, Id, MaybeId, Kinds, Typed, Bounded, Fitting, Alone, Active, Ready,
     MakingGoesOn, NoneToFind, CodeCurrent, RestoreCurrent, Clean, Refreshed, Go, NoService
<1>16. CASE ReadsKey(t) /\ NewKey(t)
  BY <1>16 DEF Making, Here, Id, MaybeId, Kinds, Typed, Bounded, Fitting, Alone, Active, Ready,
     MakingGoesOn, NoneToFind, CodeCurrent, RestoreCurrent, Clean, ReadsKey, NewKey
<1>17. CASE ReadsKey(t) /\ OldKey(t)
  BY <1>17 DEF Making, Here, Id, MaybeId, Kinds, Typed, Bounded, Fitting, Alone, Active, Ready,
     MakingGoesOn, NoneToFind, CodeCurrent, RestoreCurrent, Clean, ReadsKey, OldKey
<1>18. CASE KeyStored(t)
  BY <1>18 DEF Making, Here, Id, MaybeId, Kinds, Typed, Bounded, Fitting, Alone, Active, Ready,
     MakingGoesOn, NoneToFind, CodeCurrent, RestoreCurrent, Clean, KeyStored, Go
<1>19. CASE IdentitySaved(t) /\ Making(t)
  BY <1>19 DEF Making, Here, Id, MaybeId, Kinds, Typed, Bounded, Fitting, Alone, Active, Ready,
     MakingGoesOn, NoneToFind, CodeCurrent, RestoreCurrent, Clean, IdentitySaved, Go
<1>20. CASE IdentitySaved(t) /\ ~Making(t)
  BY <1>20 DEF Making, Here, Id, MaybeId, Kinds, Typed, Bounded, Fitting, Alone, Active, Ready,
     MakingGoesOn, NoneToFind, CodeCurrent, RestoreCurrent, Clean, IdentitySaved, Go
<1>21. CASE Published(t)
  BY <1>21 DEF Making, Here, Id, MaybeId, Kinds, Typed, Bounded, Fitting, Alone, Active, Ready,
     MakingGoesOn, NoneToFind, CodeCurrent, RestoreCurrent, Clean, Published, Go
<1>22. CASE Loaded(t)
  BY <1>22 DEF Making, Here, Id, MaybeId, Kinds, Typed, Bounded, Fitting, Alone, Active, Ready,
     MakingGoesOn, NoneToFind, CodeCurrent, RestoreCurrent, Clean, Loaded
<1>23. CASE Uploaded(t)
  BY <1>23 DEF Making, Here, Id, MaybeId, Kinds, Typed, Bounded, Fitting, Alone, Active, Ready,
     MakingGoesOn, NoneToFind, CodeCurrent, RestoreCurrent, Clean, Uploaded, Go, CodeOf
<1>24. CASE BackupOpened(t)
  BY <1>24 DEF Making, Here, Id, MaybeId, Kinds, Typed, Bounded, Fitting, Alone, Active, Ready,
     MakingGoesOn, NoneToFind, CodeCurrent, RestoreCurrent, Clean, BackupOpened, UnlockedBy
<1>25. CASE Finished(t) /\ Making(t)
  BY <1>25 DEF Making, Here, Id, MaybeId, Kinds, Typed, Bounded, Fitting, Alone, Active, Ready,
     MakingGoesOn, NoneToFind, CodeCurrent, RestoreCurrent, Clean, Finished, Settle, Show,
     Material, CodeOf, Idle
<1>26. CASE Finished(t) /\ ~Making(t)
  BY <1>26 DEF Making, Here, Id, MaybeId, Kinds, Typed, Bounded, Fitting, Alone, Active, Ready,
     MakingGoesOn, NoneToFind, CodeCurrent, RestoreCurrent, Clean, Finished, Settle, Show,
     Material, CodeOf, Idle
<1>27. CASE StepFails(t) /\ job[t].kind = "check"
  BY <1>27 DEF Making, Here, Id, MaybeId, Kinds, Typed, Bounded, Fitting, Alone, Active, Ready,
     MakingGoesOn, NoneToFind, CodeCurrent, RestoreCurrent, Clean, StepFails, Interrupted, Settle,
     Show, Idle
<1>28. CASE StepFails(t) /\ job[t].kind # "check"
  BY <1>28 DEF Making, Here, Id, MaybeId, Kinds, Typed, Bounded, Fitting, Alone, Active, Ready,
     MakingGoesOn, NoneToFind, CodeCurrent, RestoreCurrent, Clean, StepFails, Interrupted, Settle,
     Show, Idle
<1>29. CASE AnswerLost(t)
  BY <1>29 DEF Making, Here, Id, MaybeId, Kinds, Typed, Bounded, Fitting, Alone, Active, Ready,
     MakingGoesOn, NoneToFind, CodeCurrent, RestoreCurrent, Clean, AnswerLost, Interrupted, CodeOf,
     Idle
<1>30. CASE LeavePage(t)
  BY <1>30 DEF Making, Here, Id, MaybeId, Kinds, Typed, Bounded, Fitting, Alone, Active, Ready,
     MakingGoesOn, NoneToFind, CodeCurrent, RestoreCurrent, Clean, LeavePage, Intro
<1>31. CASE CloseTab(t)
  BY <1>31 DEF Making, Here, Id, MaybeId, Kinds, Typed, Bounded, Fitting, Alone, Active, Ready,
     MakingGoesOn, NoneToFind, CodeCurrent, RestoreCurrent, Clean, CloseTab, Interrupted,
     NoService, Intro, Idle
<1>32. CASE RefreshBackup(t)
  BY <1>32 DEF Making, Here, Id, MaybeId, Kinds, Typed, Bounded, Fitting, Alone, Active, Ready,
     MakingGoesOn, NoneToFind, CodeCurrent, RestoreCurrent, Clean, RefreshBackup
<1> QED
  BY <1>1, <1>2, <1>3, <1>4, <1>5, <1>6, <1>7, <1>8, <1>9, <1>10, <1>11, <1>12, <1>13, <1>14,
     <1>15, <1>16, <1>17, <1>18, <1>19, <1>20, <1>21, <1>22, <1>23, <1>24, <1>25, <1>26, <1>27,
     <1>28, <1>29, <1>30, <1>31, <1>32 DEF Effect

LEMMA ReadyCurrentKept ==
  ASSUME Typed, Bounded, Fitting, Alone, Once, MakingGoesOn, NoneToFind, ReadyCurrent,
  CheckCurrent, RestoreCurrent, NEW t \in Tab, Effect(t)
  PROVE  ReadyCurrent'
<1> USE DEF server, tabs, hist, peer
<1>1. CASE Opening(t) /\ Cached(t)
  BY <1>1 DEF Making, Here, Id, MaybeId, Kinds, Typed, Bounded, Fitting, Alone, Active, Ready,
     MakingGoesOn, NoneToFind, ReadyCurrent, CheckCurrent, RestoreCurrent, Clean, Opening, Cached,
     Idle, Intro
<1>2. CASE Opening(t) /\ Unreadable(t)
  BY <1>2 DEF Making, Here, Id, MaybeId, Kinds, Typed, Bounded, Fitting, Alone, Active, Ready,
     MakingGoesOn, NoneToFind, ReadyCurrent, CheckCurrent, RestoreCurrent, Clean, Opening,
     Unreadable, Idle, Intro
<1>3. CASE Opening(t) /\ Asks(t)
  BY <1>3 DEF Making, Here, Id, MaybeId, Kinds, Typed, Bounded, Fitting, Alone, Active, Ready,
     MakingGoesOn, NoneToFind, ReadyCurrent, CheckCurrent, RestoreCurrent, Clean, Opening, Asks,
     Crossed, Idle, Intro
<1>4. CASE Asked(t)
  BY <1>4 DEF Making, Here, Id, MaybeId, Kinds, Typed, Bounded, Fitting, Alone, Active, Ready,
     MakingGoesOn, NoneToFind, ReadyCurrent, CheckCurrent, RestoreCurrent, Clean, Asked
<1>5. CASE Told(t) /\ Unlisted(t)
  BY <1>5 DEF Making, Here, Id, MaybeId, Kinds, Typed, Bounded, Fitting, Alone, Active, Ready,
     MakingGoesOn, NoneToFind, ReadyCurrent, CheckCurrent, RestoreCurrent, Clean, Told, Unlisted
<1>6. CASE Told(t) /\ Confirmed(t)
  BY <1>6 DEF Making, Here, Id, MaybeId, Kinds, Typed, Bounded, Fitting, Alone, Active, Ready,
     MakingGoesOn, NoneToFind, ReadyCurrent, CheckCurrent, RestoreCurrent, Clean, Told, Confirmed,
     Idle
<1>7. CASE Told(t) /\ Refused(t)
  BY <1>7 DEF Making, Here, Id, MaybeId, Kinds, Typed, Bounded, Fitting, Alone, Active, Ready,
     MakingGoesOn, NoneToFind, ReadyCurrent, CheckCurrent, RestoreCurrent, Clean, Told, Refused,
     Idle
<1>8. CASE Republished(t)
  BY <1>8 DEF Making, Here, Id, MaybeId, Kinds, Typed, Bounded, Fitting, Alone, Active, Ready,
     MakingGoesOn, NoneToFind, ReadyCurrent, CheckCurrent, RestoreCurrent, Clean, Republished,
     Settle, Show, Idle
<1>9. CASE Turns(t)
  BY <1>9 DEF Making, Here, Id, MaybeId, Kinds, Typed, Bounded, Fitting, Alone, Active, Ready,
     MakingGoesOn, NoneToFind, ReadyCurrent, CheckCurrent, RestoreCurrent, Clean, Turns, Turn,
     Gated
<1>10. CASE Enable(t)
  BY <1>10 DEF Making, Here, Id, MaybeId, Kinds, Typed, Bounded, Fitting, Alone, Active, Ready,
     MakingGoesOn, NoneToFind, ReadyCurrent, CheckCurrent, RestoreCurrent, Clean, Enable, Start,
     Idle, Gated
<1>11. CASE ConfirmReset(t)
  BY <1>11 DEF Making, Here, Id, MaybeId, Kinds, Typed, Bounded, Fitting, Alone, Active, Ready,
     MakingGoesOn, NoneToFind, ReadyCurrent, CheckCurrent, RestoreCurrent, Clean, ConfirmReset,
     Start, Idle, Gated
<1>12. CASE Restores(t)
  BY <1>12 DEF Making, Here, Id, MaybeId, Kinds, Typed, Bounded, Fitting, Alone, Active, Ready,
     MakingGoesOn, NoneToFind, ReadyCurrent, CheckCurrent, RestoreCurrent, Clean, Restores,
     SubmitRestore, Crossed, Idle, Gated
<1>13. CASE AcknowledgeSaved(t)
  BY <1>13 DEF Making, Here, Id, MaybeId, Kinds, Typed, Bounded, Fitting, Alone, Active, Ready,
     MakingGoesOn, NoneToFind, ReadyCurrent, CheckCurrent, RestoreCurrent, Clean, AcknowledgeSaved
<1>14. CASE Wiped(t)
  BY <1>14 DEF Making, Here, Id, MaybeId, Kinds, Typed, Bounded, Fitting, Alone, Active, Ready,
     MakingGoesOn, NoneToFind, ReadyCurrent, CheckCurrent, RestoreCurrent, Clean, Wiped, Go,
     EmptyStore
<1>15. CASE Refreshed(t)
  BY <1>15 DEF Making, Here, Id, MaybeId, Kinds, Typed, Bounded, Fitting, Alone, Active, Ready,
     MakingGoesOn, NoneToFind, ReadyCurrent, CheckCurrent, RestoreCurrent, Clean, Refreshed, Go,
     NoService
<1>16. CASE ReadsKey(t) /\ NewKey(t)
  BY <1>16 DEF Making, Here, Id, MaybeId, Kinds, Typed, Bounded, Fitting, Alone, Active, Ready,
     MakingGoesOn, NoneToFind, ReadyCurrent, CheckCurrent, RestoreCurrent, Clean, ReadsKey, NewKey
<1>17. CASE ReadsKey(t) /\ OldKey(t)
  BY <1>17 DEF Making, Here, Id, MaybeId, Kinds, Typed, Bounded, Fitting, Alone, Active, Ready,
     MakingGoesOn, NoneToFind, ReadyCurrent, CheckCurrent, RestoreCurrent, Clean, ReadsKey, OldKey
<1>18. CASE KeyStored(t)
  BY <1>18 DEF Making, Here, Id, MaybeId, Kinds, Typed, Bounded, Fitting, Alone, Active, Ready,
     MakingGoesOn, NoneToFind, ReadyCurrent, CheckCurrent, RestoreCurrent, Clean, KeyStored, Go
<1>19. CASE IdentitySaved(t) /\ Making(t)
  BY <1>19 DEF Making, Here, Id, MaybeId, Kinds, Typed, Bounded, Fitting, Alone, Active, Ready,
     MakingGoesOn, NoneToFind, ReadyCurrent, CheckCurrent, RestoreCurrent, Clean, IdentitySaved, Go
<1>20. CASE IdentitySaved(t) /\ ~Making(t)
  BY <1>20 DEF Making, Here, Id, MaybeId, Kinds, Typed, Bounded, Fitting, Alone, Active, Ready,
     MakingGoesOn, NoneToFind, ReadyCurrent, CheckCurrent, RestoreCurrent, Clean, IdentitySaved, Go
<1>21. CASE Published(t)
  BY <1>21 DEF Making, Here, Id, MaybeId, Kinds, Typed, Bounded, Fitting, Alone, Active, Ready,
     MakingGoesOn, NoneToFind, ReadyCurrent, CheckCurrent, RestoreCurrent, Clean, Published, Go
<1>22. CASE Loaded(t)
  BY <1>22 DEF Making, Here, Id, MaybeId, Kinds, Typed, Bounded, Fitting, Alone, Active, Ready,
     MakingGoesOn, NoneToFind, ReadyCurrent, CheckCurrent, RestoreCurrent, Clean, Loaded
<1>23. CASE Uploaded(t)
  BY <1>23 DEF Making, Here, Id, MaybeId, Kinds, Typed, Bounded, Fitting, Alone, Active, Ready,
     MakingGoesOn, NoneToFind, ReadyCurrent, CheckCurrent, RestoreCurrent, Clean, Uploaded, Go,
     CodeOf
<1>24. CASE BackupOpened(t)
  BY <1>24 DEF Making, Here, Id, MaybeId, Kinds, Typed, Bounded, Fitting, Alone, Active, Ready,
     MakingGoesOn, NoneToFind, ReadyCurrent, CheckCurrent, RestoreCurrent, Clean, BackupOpened,
     UnlockedBy
<1>25. CASE Finished(t) /\ Making(t)
  BY <1>25 DEF Making, Here, Id, MaybeId, Kinds, Typed, Bounded, Fitting, Alone, Active, Ready,
     MakingGoesOn, NoneToFind, ReadyCurrent, CheckCurrent, RestoreCurrent, Clean, Finished, Settle,
     Show, Material, CodeOf, Idle
<1>26. CASE Finished(t) /\ ~Making(t)
  BY <1>26 DEF Making, Here, Id, MaybeId, Kinds, Typed, Bounded, Fitting, Alone, Active, Ready,
     MakingGoesOn, NoneToFind, ReadyCurrent, CheckCurrent, RestoreCurrent, Clean, Finished, Settle,
     Show, Material, CodeOf, Idle
<1>27. CASE StepFails(t) /\ job[t].kind = "check"
  <2>1. \A u \in Tab \ {t} : svc'[u] = svc[u]
    BY <1>27 DEF StepFails, Settle, Typed
  <2>2. svc'[t].state # "ready"
    BY <1>27 DEF StepFails, Settle, Typed
  <2>3. UNCHANGED <<published, overlap, store, home, torn>>
    BY <1>27 DEF StepFails, Interrupted, Making, server
  <2> QED
    BY <2>1, <2>2, <2>3 DEF ReadyCurrent, Clean, Ready, Here
<1>28. CASE StepFails(t) /\ job[t].kind # "check"
  BY <1>28 DEF Making, Here, Id, MaybeId, Kinds, Typed, Bounded, Fitting, Alone, Active, Ready,
     MakingGoesOn, NoneToFind, ReadyCurrent, CheckCurrent, RestoreCurrent, Clean, StepFails,
     Interrupted, Settle, Show, Idle
<1>29. CASE AnswerLost(t)
  BY <1>29 DEF Making, Here, Id, MaybeId, Kinds, Typed, Bounded, Fitting, Alone, Active, Ready,
     MakingGoesOn, NoneToFind, ReadyCurrent, CheckCurrent, RestoreCurrent, Clean, AnswerLost,
     Interrupted, CodeOf, Idle
<1>30. CASE LeavePage(t)
  BY <1>30 DEF Making, Here, Id, MaybeId, Kinds, Typed, Bounded, Fitting, Alone, Active, Ready,
     MakingGoesOn, NoneToFind, ReadyCurrent, CheckCurrent, RestoreCurrent, Clean, LeavePage, Intro
<1>31. CASE CloseTab(t)
  BY <1>31 DEF Making, Here, Id, MaybeId, Kinds, Typed, Bounded, Fitting, Alone, Active, Ready,
     MakingGoesOn, NoneToFind, ReadyCurrent, CheckCurrent, RestoreCurrent, Clean, CloseTab,
     Interrupted, NoService, Intro, Idle
<1>32. CASE RefreshBackup(t)
  BY <1>32 DEF Making, Here, Id, MaybeId, Kinds, Typed, Bounded, Fitting, Alone, Active, Ready,
     MakingGoesOn, NoneToFind, ReadyCurrent, CheckCurrent, RestoreCurrent, Clean, RefreshBackup
<1> QED
  BY <1>1, <1>2, <1>3, <1>4, <1>5, <1>6, <1>7, <1>8, <1>9, <1>10, <1>11, <1>12, <1>13, <1>14,
     <1>15, <1>16, <1>17, <1>18, <1>19, <1>20, <1>21, <1>22, <1>23, <1>24, <1>25, <1>26, <1>27,
     <1>28, <1>29, <1>30, <1>31, <1>32 DEF Effect

LEMMA CheckCurrentKept ==
  ASSUME Typed, Bounded, Fitting, Alone, Once, MakingGoesOn, NoneToFind, CheckCurrent,
  RestoreCurrent, NEW t \in Tab, Effect(t)
  PROVE  CheckCurrent'
<1> USE DEF server, tabs, hist, peer
<1>1. CASE Opening(t) /\ Cached(t)
  BY <1>1 DEF Making, Here, Id, MaybeId, Kinds, Typed, Bounded, Fitting, Alone, Active, Ready,
     MakingGoesOn, NoneToFind, CheckCurrent, RestoreCurrent, Clean, Opening, Cached, Idle, Intro
<1>2. CASE Opening(t) /\ Unreadable(t)
  BY <1>2 DEF Making, Here, Id, MaybeId, Kinds, Typed, Bounded, Fitting, Alone, Active, Ready,
     MakingGoesOn, NoneToFind, CheckCurrent, RestoreCurrent, Clean, Opening, Unreadable, Idle,
     Intro
<1>3. CASE Opening(t) /\ Asks(t)
  BY <1>3 DEF Making, Here, Id, MaybeId, Kinds, Typed, Bounded, Fitting, Alone, Active, Ready,
     MakingGoesOn, NoneToFind, CheckCurrent, RestoreCurrent, Clean, Opening, Asks, Crossed, Idle,
     Intro
<1>4. CASE Asked(t)
  BY <1>4 DEF Making, Here, Id, MaybeId, Kinds, Typed, Bounded, Fitting, Alone, Active, Ready,
     MakingGoesOn, NoneToFind, CheckCurrent, RestoreCurrent, Clean, Asked
<1>5. CASE Told(t) /\ Unlisted(t)
  BY <1>5 DEF Making, Here, Id, MaybeId, Kinds, Typed, Bounded, Fitting, Alone, Active, Ready,
     MakingGoesOn, NoneToFind, CheckCurrent, RestoreCurrent, Clean, Told, Unlisted
<1>6. CASE Told(t) /\ Confirmed(t)
  BY <1>6 DEF Making, Here, Id, MaybeId, Kinds, Typed, Bounded, Fitting, Alone, Active, Ready,
     MakingGoesOn, NoneToFind, CheckCurrent, RestoreCurrent, Clean, Told, Confirmed, Idle
<1>7. CASE Told(t) /\ Refused(t)
  BY <1>7 DEF Making, Here, Id, MaybeId, Kinds, Typed, Bounded, Fitting, Alone, Active, Ready,
     MakingGoesOn, NoneToFind, CheckCurrent, RestoreCurrent, Clean, Told, Refused, Idle
<1>8. CASE Republished(t)
  BY <1>8 DEF Making, Here, Id, MaybeId, Kinds, Typed, Bounded, Fitting, Alone, Active, Ready,
     MakingGoesOn, NoneToFind, CheckCurrent, RestoreCurrent, Clean, Republished, Settle, Show, Idle
<1>9. CASE Turns(t)
  BY <1>9 DEF Making, Here, Id, MaybeId, Kinds, Typed, Bounded, Fitting, Alone, Active, Ready,
     MakingGoesOn, NoneToFind, CheckCurrent, RestoreCurrent, Clean, Turns, Turn, Gated
<1>10. CASE Enable(t)
  BY <1>10 DEF Making, Here, Id, MaybeId, Kinds, Typed, Bounded, Fitting, Alone, Active, Ready,
     MakingGoesOn, NoneToFind, CheckCurrent, RestoreCurrent, Clean, Enable, Start, Idle, Gated
<1>11. CASE ConfirmReset(t)
  BY <1>11 DEF Making, Here, Id, MaybeId, Kinds, Typed, Bounded, Fitting, Alone, Active, Ready,
     MakingGoesOn, NoneToFind, CheckCurrent, RestoreCurrent, Clean, ConfirmReset, Start, Idle,
     Gated
<1>12. CASE Restores(t)
  BY <1>12 DEF Making, Here, Id, MaybeId, Kinds, Typed, Bounded, Fitting, Alone, Active, Ready,
     MakingGoesOn, NoneToFind, CheckCurrent, RestoreCurrent, Clean, Restores, SubmitRestore,
     Crossed, Idle, Gated
<1>13. CASE AcknowledgeSaved(t)
  BY <1>13 DEF Making, Here, Id, MaybeId, Kinds, Typed, Bounded, Fitting, Alone, Active, Ready,
     MakingGoesOn, NoneToFind, CheckCurrent, RestoreCurrent, Clean, AcknowledgeSaved
<1>14. CASE Wiped(t)
  BY <1>14 DEF Making, Here, Id, MaybeId, Kinds, Typed, Bounded, Fitting, Alone, Active, Ready,
     MakingGoesOn, NoneToFind, CheckCurrent, RestoreCurrent, Clean, Wiped, Go, EmptyStore
<1>15. CASE Refreshed(t)
  BY <1>15 DEF Making, Here, Id, MaybeId, Kinds, Typed, Bounded, Fitting, Alone, Active, Ready,
     MakingGoesOn, NoneToFind, CheckCurrent, RestoreCurrent, Clean, Refreshed, Go, NoService
<1>16. CASE ReadsKey(t) /\ NewKey(t)
  BY <1>16 DEF Making, Here, Id, MaybeId, Kinds, Typed, Bounded, Fitting, Alone, Active, Ready,
     MakingGoesOn, NoneToFind, CheckCurrent, RestoreCurrent, Clean, ReadsKey, NewKey
<1>17. CASE ReadsKey(t) /\ OldKey(t)
  BY <1>17 DEF Making, Here, Id, MaybeId, Kinds, Typed, Bounded, Fitting, Alone, Active, Ready,
     MakingGoesOn, NoneToFind, CheckCurrent, RestoreCurrent, Clean, ReadsKey, OldKey
<1>18. CASE KeyStored(t)
  BY <1>18 DEF Making, Here, Id, MaybeId, Kinds, Typed, Bounded, Fitting, Alone, Active, Ready,
     MakingGoesOn, NoneToFind, CheckCurrent, RestoreCurrent, Clean, KeyStored, Go
<1>19. CASE IdentitySaved(t) /\ Making(t)
  BY <1>19 DEF Making, Here, Id, MaybeId, Kinds, Typed, Bounded, Fitting, Alone, Active, Ready,
     MakingGoesOn, NoneToFind, CheckCurrent, RestoreCurrent, Clean, IdentitySaved, Go
<1>20. CASE IdentitySaved(t) /\ ~Making(t)
  BY <1>20 DEF Making, Here, Id, MaybeId, Kinds, Typed, Bounded, Fitting, Alone, Active, Ready,
     MakingGoesOn, NoneToFind, CheckCurrent, RestoreCurrent, Clean, IdentitySaved, Go
<1>21. CASE Published(t)
  BY <1>21 DEF Making, Here, Id, MaybeId, Kinds, Typed, Bounded, Fitting, Alone, Active, Ready,
     MakingGoesOn, NoneToFind, CheckCurrent, RestoreCurrent, Clean, Published, Go
<1>22. CASE Loaded(t)
  BY <1>22 DEF Making, Here, Id, MaybeId, Kinds, Typed, Bounded, Fitting, Alone, Active, Ready,
     MakingGoesOn, NoneToFind, CheckCurrent, RestoreCurrent, Clean, Loaded
<1>23. CASE Uploaded(t)
  BY <1>23 DEF Making, Here, Id, MaybeId, Kinds, Typed, Bounded, Fitting, Alone, Active, Ready,
     MakingGoesOn, NoneToFind, CheckCurrent, RestoreCurrent, Clean, Uploaded, Go, CodeOf
<1>24. CASE BackupOpened(t)
  BY <1>24 DEF Making, Here, Id, MaybeId, Kinds, Typed, Bounded, Fitting, Alone, Active, Ready,
     MakingGoesOn, NoneToFind, CheckCurrent, RestoreCurrent, Clean, BackupOpened, UnlockedBy
<1>25. CASE Finished(t) /\ Making(t)
  BY <1>25 DEF Making, Here, Id, MaybeId, Kinds, Typed, Bounded, Fitting, Alone, Active, Ready,
     MakingGoesOn, NoneToFind, CheckCurrent, RestoreCurrent, Clean, Finished, Settle, Show,
     Material, CodeOf, Idle
<1>26. CASE Finished(t) /\ ~Making(t)
  BY <1>26 DEF Making, Here, Id, MaybeId, Kinds, Typed, Bounded, Fitting, Alone, Active, Ready,
     MakingGoesOn, NoneToFind, CheckCurrent, RestoreCurrent, Clean, Finished, Settle, Show,
     Material, CodeOf, Idle
<1>27. CASE StepFails(t) /\ job[t].kind = "check"
  BY <1>27 DEF Making, Here, Id, MaybeId, Kinds, Typed, Bounded, Fitting, Alone, Active, Ready,
     MakingGoesOn, NoneToFind, CheckCurrent, RestoreCurrent, Clean, StepFails, Interrupted, Settle,
     Show, Idle
<1>28. CASE StepFails(t) /\ job[t].kind # "check"
  BY <1>28 DEF Making, Here, Id, MaybeId, Kinds, Typed, Bounded, Fitting, Alone, Active, Ready,
     MakingGoesOn, NoneToFind, CheckCurrent, RestoreCurrent, Clean, StepFails, Interrupted, Settle,
     Show, Idle
<1>29. CASE AnswerLost(t)
  BY <1>29 DEF Making, Here, Id, MaybeId, Kinds, Typed, Bounded, Fitting, Alone, Active, Ready,
     MakingGoesOn, NoneToFind, CheckCurrent, RestoreCurrent, Clean, AnswerLost, Interrupted,
     CodeOf, Idle
<1>30. CASE LeavePage(t)
  BY <1>30 DEF Making, Here, Id, MaybeId, Kinds, Typed, Bounded, Fitting, Alone, Active, Ready,
     MakingGoesOn, NoneToFind, CheckCurrent, RestoreCurrent, Clean, LeavePage, Intro
<1>31. CASE CloseTab(t)
  BY <1>31 DEF Making, Here, Id, MaybeId, Kinds, Typed, Bounded, Fitting, Alone, Active, Ready,
     MakingGoesOn, NoneToFind, CheckCurrent, RestoreCurrent, Clean, CloseTab, Interrupted,
     NoService, Intro, Idle
<1>32. CASE RefreshBackup(t)
  BY <1>32 DEF Making, Here, Id, MaybeId, Kinds, Typed, Bounded, Fitting, Alone, Active, Ready,
     MakingGoesOn, NoneToFind, CheckCurrent, RestoreCurrent, Clean, RefreshBackup
<1> QED
  BY <1>1, <1>2, <1>3, <1>4, <1>5, <1>6, <1>7, <1>8, <1>9, <1>10, <1>11, <1>12, <1>13, <1>14,
     <1>15, <1>16, <1>17, <1>18, <1>19, <1>20, <1>21, <1>22, <1>23, <1>24, <1>25, <1>26, <1>27,
     <1>28, <1>29, <1>30, <1>31, <1>32 DEF Effect

LEMMA RestoreCurrentKept ==
  ASSUME Typed, Bounded, Fitting, Alone, Once, MakingGoesOn, NoneToFind, BackupCurrent,
  RestoreCurrent, NEW t \in Tab, Effect(t)
  PROVE  RestoreCurrent'
<1> USE DEF server, tabs, hist, peer
<1>1. CASE Opening(t) /\ Cached(t)
  BY <1>1 DEF Making, Here, Id, MaybeId, Kinds, Typed, Bounded, Fitting, Alone, Active, Ready,
     MakingGoesOn, NoneToFind, BackupCurrent, RestoreCurrent, Clean, Pending, Makes, Opening,
     Cached, Idle, Intro
<1>2. CASE Opening(t) /\ Unreadable(t)
  BY <1>2 DEF Making, Here, Id, MaybeId, Kinds, Typed, Bounded, Fitting, Alone, Active, Ready,
     MakingGoesOn, NoneToFind, BackupCurrent, RestoreCurrent, Clean, Pending, Makes, Opening,
     Unreadable, Idle, Intro
<1>3. CASE Opening(t) /\ Asks(t)
  BY <1>3 DEF Making, Here, Id, MaybeId, Kinds, Typed, Bounded, Fitting, Alone, Active, Ready,
     MakingGoesOn, NoneToFind, BackupCurrent, RestoreCurrent, Clean, Pending, Makes, Opening, Asks,
     Crossed, Idle, Intro
<1>4. CASE Asked(t)
  BY <1>4 DEF Making, Here, Id, MaybeId, Kinds, Typed, Bounded, Fitting, Alone, Active, Ready,
     MakingGoesOn, NoneToFind, BackupCurrent, RestoreCurrent, Clean, Pending, Makes, Asked
<1>5. CASE Told(t) /\ Unlisted(t)
  BY <1>5 DEF Making, Here, Id, MaybeId, Kinds, Typed, Bounded, Fitting, Alone, Active, Ready,
     MakingGoesOn, NoneToFind, BackupCurrent, RestoreCurrent, Clean, Pending, Makes, Told, Unlisted
<1>6. CASE Told(t) /\ Confirmed(t)
  BY <1>6 DEF Making, Here, Id, MaybeId, Kinds, Typed, Bounded, Fitting, Alone, Active, Ready,
     MakingGoesOn, NoneToFind, BackupCurrent, RestoreCurrent, Clean, Pending, Makes, Told,
     Confirmed, Idle
<1>7. CASE Told(t) /\ Refused(t)
  BY <1>7 DEF Making, Here, Id, MaybeId, Kinds, Typed, Bounded, Fitting, Alone, Active, Ready,
     MakingGoesOn, NoneToFind, BackupCurrent, RestoreCurrent, Clean, Pending, Makes, Told, Refused,
     Idle
<1>8. CASE Republished(t)
  BY <1>8 DEF Making, Here, Id, MaybeId, Kinds, Typed, Bounded, Fitting, Alone, Active, Ready,
     MakingGoesOn, NoneToFind, BackupCurrent, RestoreCurrent, Clean, Pending, Makes, Republished,
     Settle, Show, Idle
<1>9. CASE Turns(t)
  BY <1>9 DEF Making, Here, Id, MaybeId, Kinds, Typed, Bounded, Fitting, Alone, Active, Ready,
     MakingGoesOn, NoneToFind, BackupCurrent, RestoreCurrent, Clean, Pending, Makes, Turns, Turn,
     Gated
<1>10. CASE Enable(t)
  BY <1>10 DEF Making, Here, Id, MaybeId, Kinds, Typed, Bounded, Fitting, Alone, Active, Ready,
     MakingGoesOn, NoneToFind, BackupCurrent, RestoreCurrent, Clean, Pending, Makes, Enable, Start,
     Idle, Gated
<1>11. CASE ConfirmReset(t)
  BY <1>11 DEF Making, Here, Id, MaybeId, Kinds, Typed, Bounded, Fitting, Alone, Active, Ready,
     MakingGoesOn, NoneToFind, BackupCurrent, RestoreCurrent, Clean, Pending, Makes, ConfirmReset,
     Start, Idle, Gated
<1>12. CASE Restores(t)
  BY <1>12 DEF Making, Here, Id, MaybeId, Kinds, Typed, Bounded, Fitting, Alone, Active, Ready,
     MakingGoesOn, NoneToFind, BackupCurrent, RestoreCurrent, Clean, Pending, Makes, Restores,
     SubmitRestore, Crossed, Idle, Gated
<1>13. CASE AcknowledgeSaved(t)
  BY <1>13 DEF Making, Here, Id, MaybeId, Kinds, Typed, Bounded, Fitting, Alone, Active, Ready,
     MakingGoesOn, NoneToFind, BackupCurrent, RestoreCurrent, Clean, Pending, Makes,
     AcknowledgeSaved
<1>14. CASE Wiped(t)
  BY <1>14 DEF Making, Here, Id, MaybeId, Kinds, Typed, Bounded, Fitting, Alone, Active, Ready,
     MakingGoesOn, NoneToFind, BackupCurrent, RestoreCurrent, Clean, Pending, Makes, Wiped, Go,
     EmptyStore
<1>15. CASE Refreshed(t)
  BY <1>15 DEF Making, Here, Id, MaybeId, Kinds, Typed, Bounded, Fitting, Alone, Active, Ready,
     MakingGoesOn, NoneToFind, BackupCurrent, RestoreCurrent, Clean, Pending, Makes, Refreshed, Go,
     NoService
<1>16. CASE ReadsKey(t) /\ NewKey(t)
  BY <1>16 DEF Making, Here, Id, MaybeId, Kinds, Typed, Bounded, Fitting, Alone, Active, Ready,
     MakingGoesOn, NoneToFind, BackupCurrent, RestoreCurrent, Clean, Pending, Makes, ReadsKey,
     NewKey
<1>17. CASE ReadsKey(t) /\ OldKey(t)
  BY <1>17 DEF Making, Here, Id, MaybeId, Kinds, Typed, Bounded, Fitting, Alone, Active, Ready,
     MakingGoesOn, NoneToFind, BackupCurrent, RestoreCurrent, Clean, Pending, Makes, ReadsKey,
     OldKey
<1>18. CASE KeyStored(t)
  BY <1>18 DEF Making, Here, Id, MaybeId, Kinds, Typed, Bounded, Fitting, Alone, Active, Ready,
     MakingGoesOn, NoneToFind, BackupCurrent, RestoreCurrent, Clean, Pending, Makes, KeyStored, Go
<1>19. CASE IdentitySaved(t) /\ Making(t)
  BY <1>19 DEF Making, Here, Id, MaybeId, Kinds, Typed, Bounded, Fitting, Alone, Active, Ready,
     MakingGoesOn, NoneToFind, BackupCurrent, RestoreCurrent, Clean, Pending, Makes, IdentitySaved,
     Go
<1>20. CASE IdentitySaved(t) /\ ~Making(t)
  BY <1>20 DEF Making, Here, Id, MaybeId, Kinds, Typed, Bounded, Fitting, Alone, Active, Ready,
     MakingGoesOn, NoneToFind, BackupCurrent, RestoreCurrent, Clean, Pending, Makes, IdentitySaved,
     Go
<1>21. CASE Published(t)
  <2>1. CASE ~(Clean')
    BY <2>1 DEF RestoreCurrent
  <2>2. CASE Clean'
    <3>1. ~overlap /\ Making(t)
      BY <1>21, <2>2 DEF Clean, Published, Fitting
    <3>2. \A u \in Tab \ {t} : job[u].at = "idle"
      BY <3>1 DEF Alone, Active
    <3>3. \A u \in Tab : job'[u].kind # "restore"
      BY <1>21, <3>1, <3>2 DEF Published, Go, Typed, Fitting, Making
    <3> QED
      BY <3>3 DEF RestoreCurrent
  <2> QED
    BY <2>1, <2>2
<1>22. CASE Loaded(t)
  BY <1>22 DEF Making, Here, Id, MaybeId, Kinds, Typed, Bounded, Fitting, Alone, Active, Ready,
     MakingGoesOn, NoneToFind, BackupCurrent, RestoreCurrent, Clean, Pending, Makes, Loaded
<1>23. CASE Uploaded(t)
  BY <1>23 DEF Making, Here, Id, MaybeId, Kinds, Typed, Bounded, Fitting, Alone, Active, Ready,
     MakingGoesOn, NoneToFind, BackupCurrent, RestoreCurrent, Clean, Pending, Makes, Uploaded, Go,
     CodeOf
<1>24. CASE BackupOpened(t)
  <2>1. CASE ~(Clean')
    BY <2>1 DEF RestoreCurrent
  <2>2. CASE Clean'
    <3>1. Clean
      BY <1>24, <2>2 DEF Clean, BackupOpened
    <3>2. \A u \in Tab : ~Making(u)
      BY <1>24, <3>1 DEF Clean, BackupOpened, Alone, Active, Fitting, Making
    <3>3. blob.id = published /\ (blob.code = published \/ stale)
      BY <3>1, <3>2 DEF BackupCurrent, Pending, Makes
    <3>4. /\ \A u \in Tab \ {t} : job'[u] = job[u]
          /\ job'[t].at = "key" /\ job'[t].id = blob.id /\ job'[t].code = job[t].code
      BY <1>24 DEF BackupOpened, Typed
    <3>5. job[t].code = blob.code
      BY <1>24 DEF BackupOpened, UnlockedBy
    <3>6. UNCHANGED <<home, store, published, stale>>
      BY <1>24 DEF BackupOpened
    <3>7. \A u \in Tab :
            (job[u].kind = "restore" /\ job[u].at # "fetch"
               => job[u].id = published /\ (job[u].code = published \/ stale))'
      BY <3>1, <3>3, <3>4, <3>5, <3>6 DEF RestoreCurrent
    <3>8. \A u \in Tab :
            (job[u].kind = "restore" /\ job[u].at = "material" => Here(u).id = published)'
      BY <3>1, <3>4, <3>6 DEF RestoreCurrent, Here
    <3> QED
      BY <3>7, <3>8 DEF RestoreCurrent
  <2> QED
    BY <2>1, <2>2
<1>25. CASE Finished(t) /\ Making(t)
  BY <1>25 DEF Making, Here, Id, MaybeId, Kinds, Typed, Bounded, Fitting, Alone, Active, Ready,
     MakingGoesOn, NoneToFind, BackupCurrent, RestoreCurrent, Clean, Pending, Makes, Finished,
     Settle, Show, Material, CodeOf, Idle
<1>26. CASE Finished(t) /\ ~Making(t)
  BY <1>26 DEF Making, Here, Id, MaybeId, Kinds, Typed, Bounded, Fitting, Alone, Active, Ready,
     MakingGoesOn, NoneToFind, BackupCurrent, RestoreCurrent, Clean, Pending, Makes, Finished,
     Settle, Show, Material, CodeOf, Idle
<1>27. CASE StepFails(t) /\ job[t].kind = "check"
  BY <1>27 DEF Making, Here, Id, MaybeId, Kinds, Typed, Bounded, Fitting, Alone, Active, Ready,
     MakingGoesOn, NoneToFind, BackupCurrent, RestoreCurrent, Clean, Pending, Makes, StepFails,
     Interrupted, Settle, Show, Idle
<1>28. CASE StepFails(t) /\ job[t].kind # "check"
  BY <1>28 DEF Making, Here, Id, MaybeId, Kinds, Typed, Bounded, Fitting, Alone, Active, Ready,
     MakingGoesOn, NoneToFind, BackupCurrent, RestoreCurrent, Clean, Pending, Makes, StepFails,
     Interrupted, Settle, Show, Idle
<1>29. CASE AnswerLost(t)
  BY <1>29 DEF Making, Here, Id, MaybeId, Kinds, Typed, Bounded, Fitting, Alone, Active, Ready,
     MakingGoesOn, NoneToFind, BackupCurrent, RestoreCurrent, Clean, Pending, Makes, AnswerLost,
     Interrupted, CodeOf, Idle
<1>30. CASE LeavePage(t)
  BY <1>30 DEF Making, Here, Id, MaybeId, Kinds, Typed, Bounded, Fitting, Alone, Active, Ready,
     MakingGoesOn, NoneToFind, BackupCurrent, RestoreCurrent, Clean, Pending, Makes, LeavePage,
     Intro
<1>31. CASE CloseTab(t)
  BY <1>31 DEF Making, Here, Id, MaybeId, Kinds, Typed, Bounded, Fitting, Alone, Active, Ready,
     MakingGoesOn, NoneToFind, BackupCurrent, RestoreCurrent, Clean, Pending, Makes, CloseTab,
     Interrupted, NoService, Intro, Idle
<1>32. CASE RefreshBackup(t)
  BY <1>32 DEF Making, Here, Id, MaybeId, Kinds, Typed, Bounded, Fitting, Alone, Active, Ready,
     MakingGoesOn, NoneToFind, BackupCurrent, RestoreCurrent, Clean, Pending, Makes, RefreshBackup
<1> QED
  BY <1>1, <1>2, <1>3, <1>4, <1>5, <1>6, <1>7, <1>8, <1>9, <1>10, <1>11, <1>12, <1>13, <1>14,
     <1>15, <1>16, <1>17, <1>18, <1>19, <1>20, <1>21, <1>22, <1>23, <1>24, <1>25, <1>26, <1>27,
     <1>28, <1>29, <1>30, <1>31, <1>32 DEF Effect

LEMMA KeyedKept ==
  ASSUME Typed, Fitting, Keyed, NEW t \in Tab, Effect(t)
  PROVE  Keyed'
<1> USE DEF server, tabs, hist, peer
<1>1. CASE Opening(t) /\ Cached(t)
  BY <1>1 DEF Making, Here, Id, MaybeId, Kinds, Typed, Keyed, Fitting, Opening, Cached, Idle, Intro
<1>2. CASE Opening(t) /\ Unreadable(t)
  BY <1>2 DEF Making, Here, Id, MaybeId, Kinds, Typed, Keyed, Fitting, Opening, Unreadable, Idle,
     Intro
<1>3. CASE Opening(t) /\ Asks(t)
  BY <1>3 DEF Making, Here, Id, MaybeId, Kinds, Typed, Keyed, Fitting, Opening, Asks, Crossed,
     Idle, Intro
<1>4. CASE Asked(t)
  BY <1>4 DEF Making, Here, Id, MaybeId, Kinds, Typed, Keyed, Fitting, Asked
<1>5. CASE Told(t) /\ Unlisted(t)
  BY <1>5 DEF Making, Here, Id, MaybeId, Kinds, Typed, Keyed, Fitting, Told, Unlisted
<1>6. CASE Told(t) /\ Confirmed(t)
  BY <1>6 DEF Making, Here, Id, MaybeId, Kinds, Typed, Keyed, Fitting, Told, Confirmed, Idle
<1>7. CASE Told(t) /\ Refused(t)
  BY <1>7 DEF Making, Here, Id, MaybeId, Kinds, Typed, Keyed, Fitting, Told, Refused, Idle
<1>8. CASE Republished(t)
  BY <1>8 DEF Making, Here, Id, MaybeId, Kinds, Typed, Keyed, Fitting, Republished, Settle, Show,
     Idle
<1>9. CASE Turns(t)
  BY <1>9 DEF Making, Here, Id, MaybeId, Kinds, Typed, Keyed, Fitting, Turns, Turn, Gated
<1>10. CASE Enable(t)
  BY <1>10 DEF Making, Here, Id, MaybeId, Kinds, Typed, Keyed, Fitting, Enable, Start, Idle, Gated
<1>11. CASE ConfirmReset(t)
  BY <1>11 DEF Making, Here, Id, MaybeId, Kinds, Typed, Keyed, Fitting, ConfirmReset, Start, Idle,
     Gated
<1>12. CASE Restores(t)
  BY <1>12 DEF Making, Here, Id, MaybeId, Kinds, Typed, Keyed, Fitting, Restores, SubmitRestore,
     Crossed, Idle, Gated
<1>13. CASE AcknowledgeSaved(t)
  BY <1>13 DEF Making, Here, Id, MaybeId, Kinds, Typed, Keyed, Fitting, AcknowledgeSaved
<1>14. CASE Wiped(t)
  BY <1>14 DEF Making, Here, Id, MaybeId, Kinds, Typed, Keyed, Fitting, Wiped, Go, EmptyStore
<1>15. CASE Refreshed(t)
  BY <1>15 DEF Making, Here, Id, MaybeId, Kinds, Typed, Keyed, Fitting, Refreshed, Go, NoService
<1>16. CASE ReadsKey(t) /\ NewKey(t)
  BY <1>16 DEF Making, Here, Id, MaybeId, Kinds, Typed, Keyed, Fitting, ReadsKey, NewKey
<1>17. CASE ReadsKey(t) /\ OldKey(t)
  BY <1>17 DEF Making, Here, Id, MaybeId, Kinds, Typed, Keyed, Fitting, ReadsKey, OldKey
<1>18. CASE KeyStored(t)
  BY <1>18 DEF Making, Here, Id, MaybeId, Kinds, Typed, Keyed, Fitting, KeyStored, Go
<1>19. CASE IdentitySaved(t) /\ Making(t)
  BY <1>19 DEF Making, Here, Id, MaybeId, Kinds, Typed, Keyed, Fitting, IdentitySaved, Go
<1>20. CASE IdentitySaved(t) /\ ~Making(t)
  BY <1>20 DEF Making, Here, Id, MaybeId, Kinds, Typed, Keyed, Fitting, IdentitySaved, Go
<1>21. CASE Published(t)
  BY <1>21 DEF Making, Here, Id, MaybeId, Kinds, Typed, Keyed, Fitting, Published, Go
<1>22. CASE Loaded(t)
  BY <1>22 DEF Making, Here, Id, MaybeId, Kinds, Typed, Keyed, Fitting, Loaded
<1>23. CASE Uploaded(t)
  BY <1>23 DEF Making, Here, Id, MaybeId, Kinds, Typed, Keyed, Fitting, Uploaded, Go, CodeOf
<1>24. CASE BackupOpened(t)
  BY <1>24 DEF Making, Here, Id, MaybeId, Kinds, Typed, Keyed, Fitting, BackupOpened, UnlockedBy
<1>25. CASE Finished(t) /\ Making(t)
  BY <1>25 DEF Making, Here, Id, MaybeId, Kinds, Typed, Keyed, Fitting, Finished, Settle, Show,
     Material, CodeOf, Idle
<1>26. CASE Finished(t) /\ ~Making(t)
  BY <1>26 DEF Making, Here, Id, MaybeId, Kinds, Typed, Keyed, Fitting, Finished, Settle, Show,
     Material, CodeOf, Idle
<1>27. CASE StepFails(t) /\ job[t].kind = "check"
  BY <1>27 DEF Making, Here, Id, MaybeId, Kinds, Typed, Keyed, Fitting, StepFails, Interrupted,
     Settle, Show, Idle
<1>28. CASE StepFails(t) /\ job[t].kind # "check"
  BY <1>28 DEF Making, Here, Id, MaybeId, Kinds, Typed, Keyed, Fitting, StepFails, Interrupted,
     Settle, Show, Idle
<1>29. CASE AnswerLost(t)
  BY <1>29 DEF Making, Here, Id, MaybeId, Kinds, Typed, Keyed, Fitting, AnswerLost, Interrupted,
     CodeOf, Idle
<1>30. CASE LeavePage(t)
  BY <1>30 DEF Making, Here, Id, MaybeId, Kinds, Typed, Keyed, Fitting, LeavePage, Intro
<1>31. CASE CloseTab(t)
  BY <1>31 DEF Making, Here, Id, MaybeId, Kinds, Typed, Keyed, Fitting, CloseTab, Interrupted,
     NoService, Intro, Idle
<1>32. CASE RefreshBackup(t)
  BY <1>32 DEF Making, Here, Id, MaybeId, Kinds, Typed, Keyed, Fitting, RefreshBackup
<1> QED
  BY <1>1, <1>2, <1>3, <1>4, <1>5, <1>6, <1>7, <1>8, <1>9, <1>10, <1>11, <1>12, <1>13, <1>14,
     <1>15, <1>16, <1>17, <1>18, <1>19, <1>20, <1>21, <1>22, <1>23, <1>24, <1>25, <1>26, <1>27,
     <1>28, <1>29, <1>30, <1>31, <1>32 DEF Effect

-----------------------------------------------------------------------------
\* What the account's keys, backup and tabs always satisfy.
Sound ==
  /\ AccountTyped /\ Bounded /\ Fitting
  /\ Alone /\ Once /\ Renewable /\ MakingGoesOn
  /\ NoBackupYet /\ OnlyUnfinished /\ NoneToFind /\ StillStored
  /\ BackupCurrent /\ CodeCurrent /\ ReadyCurrent /\ CheckCurrent /\ RestoreCurrent
  /\ Keyed

LEMMA SoundAtFirst == Init => Sound
<1> SUFFICES ASSUME Init  PROVE Sound
  OBVIOUS
<1> USE IdentityKeysAssumption DEF Init
<1>1. Idle \in Jobs /\ Intro \in Gates /\ EmptyStore \in Stores /\ NoService \in Services
  BY IdleFits DEF Intro, Gates, Views, EmptyStore, Stores, NoService, Services, MaybeId
<1>2. AccountTyped
  <2>1. HomeTyped /\ StoreTyped /\ UiTyped /\ JobTyped /\ HistTyped
    BY <1>1 DEF HomeTyped, StoreTyped, UiTyped, JobTyped, HistTyped
  <2>2. ServerTyped
    BY DEF ServerTyped, MaybeId
  <2>3. ServiceTyped /\ GateTyped
    BY <1>1 DEF ServiceTyped, GateTyped, NoService, Intro
  <2> QED
    BY <2>1, <2>2, <2>3 DEF AccountTyped
<1>3. \A t \in Tab : ~Making(t) /\ ~Active(t) /\ ~Ready(t) /\ job[t] = Idle /\ gate[t] = Intro
  BY DEF Making, Active, Ready, Idle, NoService
<1>4. \A b \in Browser : store[b] = EmptyStore
  OBVIOUS
<1>5. Bounded /\ Fitting /\ Alone /\ Once /\ Renewable /\ MakingGoesOn
  BY <1>3, <1>4 DEF Bounded, Fitting, Alone, Once, Finite, Makes, Renewable, MakingGoesOn, Idle,
     Intro, EmptyStore
<1>6. NoBackupYet /\ OnlyUnfinished /\ NoneToFind /\ StillStored
  BY <1>3, <1>4 DEF NoBackupYet, OnlyUnfinished, NoneToFind, StillStored, Idle, EmptyStore
<1>7. BackupCurrent /\ CodeCurrent /\ ReadyCurrent /\ CheckCurrent /\ RestoreCurrent
  BY <1>3, <1>4 DEF BackupCurrent, CodeCurrent, ReadyCurrent, CheckCurrent, RestoreCurrent, Idle,
     EmptyStore
<1>8. Keyed
  BY <1>3, <1>4 DEF Keyed, Idle, EmptyStore
<1> QED
  BY <1>2, <1>5, <1>6, <1>7, <1>8 DEF Sound

LEMMA ActsKeepSound ==
  ASSUME Sound, NEW t \in Tab, Acts(t)
  PROVE  Sound'
<1> USE DEF Sound
<1>1. Typed /\ Effect(t)
  BY TypesGive, ActsHaveEffects
<1>2. AccountTyped'
  BY <1>1, AccountTypedKept
<1>3. Bounded' /\ Fitting' /\ Alone' /\ Once' /\ Renewable' /\ MakingGoesOn'
  BY <1>1, BoundedKept, FittingKept, AloneKept, OnceKept, RenewableKept, MakingGoesOnKept
<1>4. NoBackupYet' /\ OnlyUnfinished' /\ NoneToFind' /\ StillStored'
  BY <1>1, NoBackupYetKept, OnlyUnfinishedKept, NoneToFindKept, StillStoredKept
<1>5. BackupCurrent' /\ CodeCurrent' /\ ReadyCurrent' /\ CheckCurrent' /\ RestoreCurrent'
  BY <1>1, BackupCurrentKept, CodeCurrentKept, ReadyCurrentKept, CheckCurrentKept,
     RestoreCurrentKept
<1>6. Keyed'
  BY <1>1, KeyedKept
<1> QED
  BY <1>2, <1>3, <1>4, <1>5, <1>6

\* The contact touches none of it.
LEMMA ContactLeavesAccount ==
  ASSUME Contact
  PROVE  UNCHANGED <<home, store, server, fails, tabs, hist>>
BY DEF Contact, Fetch, Checked, OpenModal, Mark, Marked, CloseModal

LEMMA LeftSound ==
  ASSUME Sound, UNCHANGED <<home, store, server, fails, tabs, hist>>
  PROVE  Sound'
<1> USE DEF Sound, server, tabs, hist
<1>1. AccountTyped'
  BY DEF AccountTyped, HomeTyped, StoreTyped, ServerTyped, ServiceTyped, UiTyped, GateTyped,
     JobTyped, HistTyped
<1>2. Bounded' /\ Fitting' /\ Alone' /\ Once' /\ Renewable' /\ MakingGoesOn'
  <2>1. Bounded' /\ Fitting'
    BY DEF Bounded, Fitting, Making, Ready
  <2>2. Alone' /\ Once'
    BY DEF Alone, Once, Finite, Makes, Making, Active
  <2>3. Renewable' /\ MakingGoesOn'
    BY DEF Renewable, MakingGoesOn, Making, Here
  <2> QED
    BY <2>1, <2>2, <2>3
<1>3. NoBackupYet' /\ OnlyUnfinished' /\ NoneToFind' /\ StillStored'
  BY DEF NoBackupYet, OnlyUnfinished, NoneToFind, StillStored, Makes, Making, Ready, Here
<1>4. BackupCurrent' /\ CodeCurrent' /\ ReadyCurrent' /\ CheckCurrent' /\ RestoreCurrent'
  <2>1. BackupCurrent' /\ CodeCurrent' /\ ReadyCurrent'
    BY DEF BackupCurrent, CodeCurrent, ReadyCurrent, Clean, Pending, Makes, Making, Ready, Here
  <2>2. CheckCurrent' /\ RestoreCurrent'
    BY DEF CheckCurrent, RestoreCurrent, Clean, Here
  <2> QED
    BY <2>1, <2>2
<1>5. Keyed'
  BY DEF Keyed, Here
<1> QED
  BY <1>1, <1>2, <1>3, <1>4, <1>5

LEMMA SoundKept == Sound /\ [Next]_vars => Sound'
<1> SUFFICES ASSUME Sound, [Next]_vars  PROVE Sound'
  OBVIOUS
<1>1. CASE \E t \in Tab : Acts(t)
  BY <1>1, ActsKeepSound
<1>2. CASE Contact
  BY <1>2, ContactLeavesAccount, LeftSound
<1>3. CASE UNCHANGED vars
  BY <1>3, LeftSound DEF vars
<1> QED
  BY <1>1, <1>2, <1>3 DEF Next, Acts

LEMMA SoundIsUsable == Sound => ReadyMeansUsable
<1> SUFFICES ASSUME Sound  PROVE ReadyMeansUsable
  OBVIOUS
<1> USE DEF Sound
<1>0. Typed
  BY TypesGive
\* A ready tab is never out of date on a clean account.
<1>1. ReadyIsPublished
  BY DEF ReadyIsPublished, ReadyCurrent, Clean, Ready
\* A code that was acknowledged belongs to an identity whose set-up came to its end.
<1>2. CodeKeepsWorking \/ stale
  <2> SUFFICES ASSUME published \in kept, ~overlap, ~stale
               PROVE  blob = [id |-> published, code |-> published]
    BY DEF CodeKeepsWorking
  <2>1. Finite(published)
    BY DEF Once
  <2>2. Clean /\ ~Pending
    BY <2>1 DEF Finite, Clean, Pending
  <2>3. blob.id = published /\ blob.code = published
    BY <2>2 DEF BackupCurrent
  <2> QED
    BY <1>0, <2>3 DEF Typed
<1>3. ReadyCanRenew
  BY <1>0 DEF ReadyCanRenew, StillStored, Renewable, Ready, Here, Typed
<1> QED
  BY <1>1, <1>2, <1>3 DEF ReadyMeansUsable

\* A tab that is ready holds the identity that is published, the acknowledged code opens a
\* backup of it unless a browser renewed it with the key of an older code, and the backup
\* can be renewed (E2EEService.ts:82-112, identity.ts:145-184).
THEOREM ReadyMeansUsableAlways == Spec => []ReadyMeansUsable
BY SoundAtFirst, SoundKept, SoundIsUsable, PTL DEF Spec

-----------------------------------------------------------------------------
\* The contact's records, and what is asked for and shown is an identity.
PeerTyped ==
  /\ pin \in [id : MaybeId, verified : BOOLEAN]
  /\ check \in [why : {"none", "send", "receive", "modal"}, ed : MaybeId, claim : MaybeId]
  /\ modal \in [at : {"closed", "loading", "shown"}, id : MaybeId, verified : BOOLEAN, mark : MaybeId]
  /\ vetted \subseteq Id
  /\ Asking

LEMMA PeerTypedKept ==
  ASSUME PeerTyped, AccountTyped, Contact
  PROVE  PeerTyped'
<1> USE IdentityKeysAssumption DEF PeerTyped, Asking
<1>0. published \in MaybeId /\ sent \subseteq MaybeId
  BY DEF AccountTyped, ServerTyped, ServiceTyped, MaybeId, Id
<1>1. ASSUME NEW why \in {"send", "receive", "modal"}, NEW claim \in MaybeId, Fetch(why, claim)
      PROVE  PeerTyped'
  <2>1. check' \in [why : {"none", "send", "receive", "modal"}, ed : MaybeId,
  claim : MaybeId] /\ check'.ed # 0
    BY <1>0, <1>1 DEF Fetch
  <2>2. modal' = modal \/ modal' = [at |-> "loading", id |-> 0, verified |-> FALSE, mark |-> 0]
    BY <1>1 DEF Fetch, Closed
  <2>3. modal' \in [at : {"closed", "loading", "shown"}, id : MaybeId, verified : BOOLEAN,
  mark : MaybeId]
    <3>1. [at |-> "loading", id |-> 0, verified |-> FALSE, mark |-> 0]
            \in [at : {"closed", "loading", "shown"}, id : MaybeId, verified : BOOLEAN, mark : MaybeId]
      BY DEF MaybeId
    <3> QED
      BY <2>2, <3>1
  <2> QED
    BY <1>1, <2>1, <2>2, <2>3 DEF Fetch
<1>2. CASE Checked
  <2>1. check.ed \in Id /\ check.ed \in MaybeId
    BY <1>2 DEF Checked, MaybeId, Id
  <2>2. pin' \in [id : MaybeId, verified : BOOLEAN]
    BY <1>2, <2>1 DEF Checked, Pinned
  <2>3. vetted' \subseteq Id
    BY <1>2, <2>1 DEF Checked
  <2>4. modal' = modal \/ modal' = [at |-> "shown", id |-> check.ed, verified |-> pin'.verified,
  mark |-> 0]
    BY <1>2 DEF Checked, Closed
  <2>5. modal' \in [at : {"closed", "loading", "shown"}, id : MaybeId, verified : BOOLEAN,
  mark : MaybeId]
    BY <2>1, <2>2, <2>4 DEF MaybeId
  <2>6. modal'.at = "shown" => modal'.id # 0
    BY <2>1, <2>4 DEF Id
  <2>7. check' = NoCheck
    BY <1>2 DEF Checked
  <2>8. check' \in [why : {"none", "send", "receive", "modal"}, ed : MaybeId,
  claim : MaybeId] /\ check'.why = "none"
    BY <2>7 DEF NoCheck, MaybeId
  <2> QED
    BY <2>2, <2>3, <2>5, <2>6, <2>8
<1>3. CASE OpenModal
  <2>1. modal' = [at |-> "shown", id |-> pin.id, verified |-> pin.verified, mark |-> 0]
    BY <1>3 DEF OpenModal, Closed
  <2>2. modal' \in [at : {"closed", "loading", "shown"}, id : MaybeId, verified : BOOLEAN,
  mark : MaybeId]
    BY <2>1 DEF MaybeId
  <2> QED
    BY <1>3, <2>1, <2>2 DEF OpenModal
<1>4. CASE Mark
  <2>1. modal.id \in Id
    BY <1>4 DEF Mark, MaybeId, Id
  <2> QED
    BY <1>4, <2>1 DEF Mark
<1>5. CASE Marked
  <2>1. [id |-> modal.mark, verified |-> TRUE] \in [id : MaybeId, verified : BOOLEAN]
    OBVIOUS
  <2>2. modal' = [at |-> modal.at, id |-> modal.id, verified |-> TRUE, mark |-> 0]
    BY <1>5 DEF Marked
  <2>3. 0 \in MaybeId
    BY DEF MaybeId
  <2> QED
    BY <1>5, <2>1, <2>2, <2>3 DEF Marked
<1>6. CASE CloseModal
  <2>1. Closed \in [at : {"closed", "loading", "shown"}, id : MaybeId, verified : BOOLEAN,
  mark : MaybeId]
    BY DEF Closed, MaybeId
  <2> QED
    BY <1>6, <2>1 DEF CloseModal, Closed
<1> QED
  BY <1>1, <1>2, <1>3, <1>4, <1>5, <1>6 DEF Contact

LEMMA LeftPeerTyped ==
  ASSUME PeerTyped, UNCHANGED peer
  PROVE  PeerTyped'
<1>1. pin' = pin /\ check' = check /\ modal' = modal /\ vetted' = vetted
  BY DEF peer
<1> QED
  BY <1>1 DEF PeerTyped, Asking

\* A key store holds what it should, and with a tab per browser the identity in it can be
\* read with the wrapping key beside it (keyStore.ts:61-76).
THEOREM KeysSoundAlways == Spec => []KeysSound
<1>1. Init => Sound /\ PeerTyped
  BY SoundAtFirst, IdentityKeysAssumption
     DEF Init, PeerTyped, Asking, Unpinned, NoCheck, Closed, MaybeId
<1>2. Sound /\ PeerTyped /\ [Next]_vars => (Sound /\ PeerTyped)'
  <2> SUFFICES ASSUME Sound, PeerTyped, [Next]_vars  PROVE Sound' /\ PeerTyped'
    OBVIOUS
  <2>1. Sound'
    BY SoundKept
  <2>2. CASE UNCHANGED peer
    BY <2>1, <2>2, LeftPeerTyped
  <2>3. UNCHANGED peer \/ Contact
    BY AccountLeavesContact DEF Next, vars
  <2> QED
    BY <2>1, <2>2, <2>3, PeerTypedKept DEF Sound
<1>3. Sound /\ PeerTyped => KeysSound
  <2> SUFFICES ASSUME Sound, PeerTyped  PROVE TypeOK /\ Readable
    BY DEF KeysSound
  <2>1. TypeOK
    BY DEF Sound, AccountTyped, HomeTyped, StoreTyped, Stores, ServerTyped, ServiceTyped, Services,
       UiTyped, GateTyped,
           Gates, Views, JobTyped, Jobs, Kinds, HistTyped, PeerTyped, TypeOK
  <2>2. Readable
    BY DEF Sound, Keyed, Readable
  <2> QED
    BY <2>1, <2>2
<1> QED
  BY <1>1, <1>2, <1>3, PTL DEF Spec
-----------------------------------------------------------------------------
(* The search index, for every set of tabs and conversations and every     *)
(* bound: what was shredded or wiped comes back only where a batch, another*)
(* tab or a rejected request had it, and what the index answers with is    *)
(* never only in memory.                                                   *)

USE IndexBounds


Batches == [rest : SUBSET Conv, own : BOOLEAN, docs : SUBSET Index!Doc]
Seals == [conv : SUBSET Conv, docs : SUBSET Index!Doc, key : Nat]
Rows == [Conv -> [docs : SUBSET Index!Doc, key : Nat]]

\* Everything a worker or the store can bring a document back from.
Held(t) == core[t] \cup sealing[t].docs \cup batch[t].docs \cup Index!RowDocs(read[t])

\* A row, and a snapshot on its way to one, holds its own conversation.
SortedRows(r) == \A c \in Conv : r[c].docs \subseteq Index!In(Index!Doc, c)
SortedSeal(t) == \A c \in sealing[t].conv : sealing[t].docs \subseteq Index!In(Index!Doc, c)
Sorted == SortedRows(rows) /\ \A t \in Tab : SortedRows(read[t]) /\ SortedSeal(t)

\* What a worker is at fits its phase and what its tab awaits.
Fits(t) ==
  /\ phase[t] # "loading" => read[t] = Index!NoRows
  /\ phase[t] # "on" => /\ core[t] = {} /\ dirty[t] = {}
                        /\ batch[t] = Index!NoBatch /\ sealing[t] = Index!NoSeal
                        /\ held[t] = 0 /\ wiping[t] = "no"
  /\ wiping[t] # "no" => asked[t] = "wipe"
  /\ asked[t] = "wipe" => shown[t] = 0
  /\ sealing[t].conv \subseteq batch[t].rest
  /\ batch[t].rest = {} => batch[t] = Index!NoBatch
  /\ sealing[t] = Index!NoSeal \/ ((\E c \in Conv : sealing[t].conv = {c}) /\ sealing[t].docs # {})
Phased == \A t \in Tab : Fits(t)

\* A page of an earlier era renders what counts as late.
DatedPage(t) == shown[t] <= era /\ \A d \in Index!Doc : shown[t] = d.era /\ d.era < era
                  => d \in late
Dated == \A t \in Tab : DatedPage(t)

\* The documents that are gone are where they are late.
Gone == /\ Index!RowDocs(rows) \cap gone \subseteq late
        /\ \A t \in Tab : Held(t) \cap gone \subseteq late

\* Whatever holds documents is sealed under a key that was generated.
NumberedRows(r) == \A c \in Conv : r[c].key <= snapshotKeys /\ (r[c].docs # {} => r[c].key # 0)
Numbers(t) ==
  /\ held[t] <= snapshotKeys /\ NumberedRows(read[t])
  /\ sealing[t].key <= snapshotKeys /\ (sealing[t].docs # {} => sealing[t].key # 0)
Numbered == meta <= snapshotKeys /\ NumberedRows(rows) /\ \A t \in Tab : Numbers(t)

\* While one worker is on: its key is the stored one, ...
OneWorker == ~mixed => \A t, u \in Tab : phase[t] # "off" /\ phase[u] # "off" => t = u
KeyOf(t) == ~mixed /\ wiping[t] # "key" => held[t] \in {0, meta}
CurrentKey == \A t \in Tab : KeyOf(t)
\* ... what it hydrates from is what is stored, ...
ReadOf(t) == ~mixed /\ phase[t] = "loading" => read[t] = rows
ReadCurrent == \A t \in Tab : ReadOf(t)
\* ... a wiped index is empty until the wipe is answered, and a batch that was under way
\* keeps what it exports from, so that what comes next is dirty until it is over, ...
WipedOf(t) == wiping[t] # "no" => core[t] = {} /\ (batch[t].own => sealing[t] = Index!NoSeal)
WipedCore == \A t \in Tab : WipedOf(t)
OldOf(t) == ~batch[t].own => \A d \in core[t] : d.conv \in dirty[t]
OldBatch == \A t \in Tab : OldOf(t)
\* ... and a snapshot being sealed has all of its conversation, or that is dirty again.
SealOf(t) ==
  ~mixed /\ batch[t].own =>
    /\ sealing[t] # Index!NoSeal => sealing[t].key = meta
    /\ \A c \in sealing[t].conv : c \in dirty[t] \/ Index!In(core[t], c) \subseteq sealing[t].docs
SealCurrent == \A t \in Tab : SealOf(t)
SavedOf(t) ==
  ~mixed => \A d \in core[t] \ gone : d \in Index!Readable \/ d.conv \in dirty[t] \cup batch[t].rest

\* What a tab and its worker have.
Same(t) ==
  /\ shown'[t] = shown[t] /\ asked'[t] = asked[t] /\ wiping'[t] = wiping[t] /\ phase'[t] = phase[t]
  /\ core'[t] = core[t] /\ read'[t] = read[t] /\ dirty'[t] = dirty[t] /\ held'[t] = held[t]
  /\ batch'[t] = batch[t] /\ sealing'[t] = sealing[t]

\* One wipe at a time, and one that has not begun has an era to end.
OneWipe == /\ \A t, u \in Tab : asked[t] = "wipe" /\ asked[u] = "wipe" => t = u
           /\ \A t \in Tab : asked[t] = "wipe" /\ wiping[t] = "no" => era < MaxEra
RowsTyped == /\ rows \in Rows /\ meta \in Nat /\ snapshotKeys \in 0..MaxSnapshotKeys
CountTyped == /\ era \in 1..MaxEra /\ rejected \in 0..MaxRejected /\ closes \in 0..MaxCloses
                   /\ mixed \in BOOLEAN
TabTyped == /\ shown \in [Tab -> Nat] /\ asked \in [Tab -> {"no", "wipe"} \cup Conv]
            /\ wiping \in [Tab -> {"no", "snapshots", "key"}]
            /\ phase \in [Tab -> {"off", "loading", "on"}]
WorkerTyped == /\ core \in [Tab -> SUBSET Index!Doc] /\ read \in [Tab -> Rows]
               /\ dirty \in [Tab -> SUBSET Conv] /\ timer \in [Tab -> BOOLEAN]
               /\ held \in [Tab -> Nat]
BatchTyped == batch \in [Tab -> Batches] /\ sealing \in [Tab -> Seals]
GoneTyped == gone \subseteq Index!Doc /\ late \subseteq gone
IndexTyped == RowsTyped /\ CountTyped /\ TabTyped /\ WorkerTyped /\ BatchTyped /\ GoneTyped
\* A step of one tab leaves another's worker alone, and what that relies on.
WorkerOff(t) == phase[t] = "off"
Aside(t) == ~mixed' => WorkerOff(t) \/ (~mixed /\ UNCHANGED <<rows, meta, gone>>)

-----------------------------------------------------------------------------
(* What a step does, one value at a time.                                   *)

\* The steps of a tab and its worker.
IndexActs(t) == Index!Ask(t) \/ Index!Serve(t) \/ Index!Persist(t) \/ Index!CloseTab(t)

\* A batch goes through one conversation.
Went(t, c) ==
  /\ batch' \in [Tab -> Batches] /\ \A u \in Tab \ {t} : batch'[u] = batch[u]
  /\ batch'[t].rest = batch[t].rest \ {c}
  /\ \/ batch'[t] = Index!NoBatch
     \/ batch'[t].rest # {} /\ batch'[t].own = batch[t].own /\ batch'[t].docs = batch[t].docs
\* A worker has its key, an old one or a new one.
TookKey(t) ==
  /\ held' \in [Tab -> Nat] /\ held'[t] = Index!Key(t) /\ \A u \in Tab \ {t} : held'[u] = held[u]
  /\ Index!Key(t) \in 1..MaxSnapshotKeys
  /\ \/ Index!Key(t) <= snapshotKeys /\ UNCHANGED <<snapshotKeys, meta>>
     \/ Index!Key(t) = snapshotKeys + 1 /\ held[t] = 0 /\ meta = 0 /\ snapshotKeys' = Index!Key(t)
          /\ meta' = Index!Key(t)
\* A conversation's row, and it alone, is written or deleted.
RowBecame(c, r) == rows' \in Rows /\ rows'[c] = r /\ \A x \in Conv \ {c} : rows'[x] = rows[x]
SealBecame(t, s) == sealing' \in [Tab -> Seals] /\ sealing'[t] = s
                      /\ \A u \in Tab \ {t} : sealing'[u] = sealing[u]

Emptied(t, c) ==
  /\ c \in batch[t].rest /\ sealing[t] = Index!NoSeal /\ Index!Exported(t, c) = {}
  /\ RowBecame(c, Index!NoRow) /\ Went(t, c)
  /\ UNCHANGED <<meta, snapshotKeys, era, shown, phase, core, read, dirty, timer, sealing, held,
                 wiping, asked, rejected, closes, Index!hist>>
SealsNow(t, c) ==
  /\ c \in batch[t].rest /\ sealing[t] = Index!NoSeal /\ Index!Exported(t, c) # {}
  /\ SealBecame(t, [conv |-> {c}, docs |-> Index!Exported(t, c), key |-> Index!Key(t)])
       /\ TookKey(t)
  /\ UNCHANGED <<rows, batch, era, shown, phase, core, read, dirty, timer, wiping, asked, rejected,
                 closes, Index!hist>>
Puts(t, c) ==
  /\ c \in sealing[t].conv
  /\ RowBecame(c, [docs |-> sealing[t].docs, key |-> sealing[t].key])
  /\ SealBecame(t, Index!NoSeal) /\ Went(t, c)
  /\ UNCHANGED <<meta, snapshotKeys, era, shown, phase, core, read, dirty, timer, held, wiping,
                 asked, rejected, closes, Index!hist>>
PutsNot(t, c) ==
  /\ c \in sealing[t].conv /\ rejected < MaxRejected /\ rejected' = rejected + 1
  /\ dirty' \in [Tab -> SUBSET Conv] /\ dirty'[t] = dirty[t] \cup {c}
       /\ \A u \in Tab \ {t} : dirty'[u] = dirty[u]
  /\ SealBecame(t, Index!NoSeal) /\ Went(t, c)
  /\ UNCHANGED <<Index!store, era, shown, phase, core, read, timer, held, wiping, asked, closes,
                 Index!hist>>
Forgets(t, c) ==
  /\ asked[t] = c /\ phase[t] = "on"
  /\ core' \in [Tab -> SUBSET Index!Doc] /\ core'[t] = core[t] \ Index!In(core[t], c)
       /\ \A u \in Tab \ {t} : core'[u] = core[u]
  /\ dirty' \in [Tab -> SUBSET Conv] /\ dirty'[t] = dirty[t] \ {c}
       /\ \A u \in Tab \ {t} : dirty'[u] = dirty[u]
  /\ asked' = [asked EXCEPT ![t] = "no"]
  /\ LET of == {d \in Index!In(Index!Doc, c) : d.era = shown[t]} IN
     /\ gone' = gone \cup of
     /\ late \subseteq late' /\ late' \subseteq late \cup of
          /\ of \cap Index!Elsewhere(t) \subseteq late'
     /\ \/ RowBecame(c, Index!NoRow) /\ UNCHANGED rejected
        \/ UNCHANGED rows /\ of \cap rows[c].docs \subseteq late' /\ rejected < MaxRejected
             /\ rejected' = rejected + 1
  /\ UNCHANGED <<meta, snapshotKeys, era, shown, phase, read, timer, batch, sealing, held, wiping,
                 closes, mixed>>
Wipes(t) ==
  /\ asked[t] = "wipe" /\ wiping[t] = "no" /\ phase[t] = "on" /\ era' = era + 1
  /\ core' \in [Tab -> SUBSET Index!Doc] /\ core'[t] = {} /\ \A u \in Tab \ {t} : core'[u] = core[u]
  /\ dirty' \in [Tab -> SUBSET Conv] /\ dirty'[t] = {} /\ \A u \in Tab \ {t} : dirty'[u] = dirty[u]
  /\ batch' \in [Tab -> Batches] /\ \A u \in Tab \ {t} : batch'[u] = batch[u]
  /\ batch'[t].rest = batch[t].rest
  /\ \/ batch[t].rest # {} /\ batch[t].own /\ ~batch'[t].own /\ batch'[t].docs = core[t]
     \/ (batch[t].rest = {} \/ ~batch[t].own) /\ batch'[t] = batch[t]
  /\ LET of == {d \in Index!Doc : d.era <= era}
         left == Index!Elsewhere(t) \cup Index!Shown(t) \cup batch'[t].docs IN
     /\ gone' = gone \cup of
     /\ late \subseteq late' /\ late' \subseteq late \cup of /\ of \cap left \subseteq late'
     /\ \/ /\ rows' = Index!NoRows /\ wiping' = [wiping EXCEPT ![t] = "snapshots"]
           /\ UNCHANGED <<rejected, asked, shown>>
        \/ /\ UNCHANGED rows /\ of \cap Index!RowDocs(rows) \subseteq late'
           /\ rejected < MaxRejected /\ rejected' = rejected + 1 /\ Index!Answered(t, era + 1)
  /\ UNCHANGED <<meta, snapshotKeys, phase, read, timer, sealing, held, closes, mixed>>

LEMMA ThroughIs ==
  ASSUME BatchTyped, NEW t \in Tab, NEW c \in Conv, Index!Through(t, c)
  PROVE  Went(t, c)
<1> DEFINE left == batch[t].rest \ {c}
           b    == IF left = {} THEN Index!NoBatch ELSE [batch[t] EXCEPT !.rest = left]
<1>1. batch' = [batch EXCEPT ![t] = b]
  BY DEF Index!Through
<1>2. batch[t] \in Batches
  BY DEF BatchTyped
<1>3. b \in Batches /\ b.rest = left
  BY <1>2 DEF Batches, Index!NoBatch
<1>4. b = Index!NoBatch \/ (b.rest # {} /\ b.own = batch[t].own /\ b.docs = batch[t].docs)
  BY <1>2 DEF Batches
<1> HIDE DEF b
<1>5. batch' \in [Tab -> Batches] /\ batch'[t] = b /\ \A u \in Tab \ {t} : batch'[u] = batch[u]
  BY <1>1, <1>3 DEF BatchTyped
<1> QED
  BY <1>3, <1>4, <1>5 DEF Went

LEMMA KeyIsTaken ==
  ASSUME IndexTyped, Numbered, NEW t \in Tab, Index!TakeKey(t)
  PROVE  TookKey(t)
<1>1. held[t] \in Nat /\ held[t] <= snapshotKeys /\ meta \in Nat /\ meta <= snapshotKeys
        /\ snapshotKeys \in Nat /\ MaxSnapshotKeys \in Nat
  BY DEF IndexTyped, WorkerTyped, RowsTyped, Numbered, Numbers
<1>2. Index!Key(t) \in Nat /\ Index!Key(t) # 0
        /\ (Index!Key(t) <= snapshotKeys \/ (Index!Key(t) = snapshotKeys + 1 /\ held[t] = 0
             /\ meta = 0))
  BY <1>1 DEF Index!Key
<1>3. held' \in [Tab -> Nat] /\ held'[t] = Index!Key(t) /\ \A u \in Tab \ {t} : held'[u] = held[u]
  BY <1>2 DEF Index!TakeKey, IndexTyped, WorkerTyped
<1>4. Index!Key(t) <= MaxSnapshotKeys
  BY DEF Index!TakeKey
<1>5. CASE Index!Key(t) <= snapshotKeys
  BY <1>1, <1>2, <1>3, <1>4, <1>5 DEF Index!TakeKey, TookKey
<1>6. CASE Index!Key(t) = snapshotKeys + 1 /\ held[t] = 0 /\ meta = 0
  BY <1>1, <1>2, <1>3, <1>4, <1>6 DEF Index!TakeKey, TookKey
<1> QED
  BY <1>2, <1>5, <1>6

LEMMA RowIsDeleted ==
  ASSUME RowsTyped, NEW c \in Conv, rows' = [rows EXCEPT ![c] = Index!NoRow]
  PROVE  RowBecame(c, Index!NoRow)
BY DEF RowsTyped, Rows, Index!NoRow, RowBecame

LEMMA ExportSteps ==
  ASSUME IndexTyped, Numbered, NEW t \in Tab, NEW c \in Conv, Index!Export(t, c)
  PROVE  Emptied(t, c) \/ SealsNow(t, c)
<1> USE DEF IndexTyped
<1>1. CASE Index!Empty(t, c)
  BY <1>1, RowIsDeleted, ThroughIs DEF Index!Export, Index!Empty, Emptied
<1>2. CASE ~Index!Empty(t, c)
  <2> DEFINE s == [conv |-> {c}, docs |-> Index!Exported(t, c), key |-> Index!Key(t)]
  <2>1. sealing' = [sealing EXCEPT ![t] = s] /\ Index!TakeKey(t)
    BY <1>2 DEF Index!Export
  <2>2. TookKey(t)
    BY <2>1, KeyIsTaken
  <2>3. Index!Exported(t, c) \subseteq Index!Doc /\ Index!Key(t) \in Nat
    BY <2>2 DEF TookKey, Index!Exported, Index!In, WorkerTyped, BatchTyped, Batches
  <2>4. s \in Seals
    BY <2>3 DEF Seals
  <2> HIDE DEF s
  <2>5. SealBecame(t, s)
    BY <2>1, <2>4 DEF SealBecame, BatchTyped
  <2> QED
    BY <1>2, <2>2, <2>5 DEF Index!Export, Index!Empty, SealsNow, s
<1> QED
  BY <1>1, <1>2

LEMMA NoSealIs ==
  ASSUME BatchTyped, NEW t \in Tab, sealing' = [sealing EXCEPT ![t] = Index!NoSeal]
  PROVE  SealBecame(t, Index!NoSeal)
BY DEF BatchTyped, Seals, Index!NoSeal, SealBecame

LEMMA StoredSteps ==
  ASSUME IndexTyped, NEW t \in Tab, NEW c \in Conv, Index!Stored(t, c)
  PROVE  Puts(t, c)
<1> USE DEF IndexTyped
<1> DEFINE r == [docs |-> sealing[t].docs, key |-> sealing[t].key]
<1>1. rows' = [rows EXCEPT ![c] = r]
  BY DEF Index!Stored
<1>2. r \in [docs : SUBSET Index!Doc, key : Nat]
  BY DEF BatchTyped, Seals
<1> HIDE DEF r
<1>3. RowBecame(c, r)
  BY <1>1, <1>2 DEF RowBecame, RowsTyped, Rows
<1>4. SealBecame(t, Index!NoSeal) /\ Went(t, c)
  BY NoSealIs, ThroughIs DEF Index!Stored
<1> QED
  BY <1>3, <1>4 DEF Index!Stored, Puts, r

LEMMA StoreFailsSteps ==
  ASSUME IndexTyped, NEW t \in Tab, NEW c \in Conv, Index!StoreFails(t, c)
  PROVE  PutsNot(t, c)
<1> USE DEF IndexTyped
<1>1. SealBecame(t, Index!NoSeal) /\ Went(t, c)
  BY NoSealIs, ThroughIs DEF Index!StoreFails
<1>2. /\ dirty' \in [Tab -> SUBSET Conv] /\ dirty'[t] = dirty[t] \cup {c}
      /\ \A u \in Tab \ {t} : dirty'[u] = dirty[u]
  BY DEF Index!StoreFails, Index!DirtyAgain, WorkerTyped
<1> QED
  BY <1>1, <1>2 DEF Index!StoreFails, PutsNot

LEMMA ShredSteps ==
  ASSUME IndexTyped, NEW t \in Tab, NEW c \in Conv, Index!Shred(t, c)
  PROVE  Forgets(t, c)
<1> USE DEF IndexTyped
<1>1. /\ core' \in [Tab -> SUBSET Index!Doc] /\ core'[t] = core[t] \ Index!In(core[t], c)
      /\ \A u \in Tab \ {t} : core'[u] = core[u]
  BY DEF Index!Shred, Index!Unlisted, WorkerTyped
<1>2. /\ dirty' \in [Tab -> SUBSET Conv] /\ dirty'[t] = dirty[t] \ {c}
      /\ \A u \in Tab \ {t} : dirty'[u] = dirty[u]
  BY DEF Index!Shred, WorkerTyped
<1> DEFINE of == {d \in Index!In(Index!Doc, c) : d.era = shown[t]}
<1>3. /\ gone' = gone \cup of
      /\ \/ /\ rows' = [rows EXCEPT ![c] = Index!NoRow] /\ UNCHANGED rejected
            /\ late' = late \cup (of \cap Index!Elsewhere(t))
         \/ /\ rejected < MaxRejected /\ rejected' = rejected + 1 /\ UNCHANGED rows
            /\ late' = late \cup (of \cap (Index!Elsewhere(t) \cup rows[c].docs))
  BY DEF Index!Shred
<1>4. \/ RowBecame(c, Index!NoRow) /\ UNCHANGED rejected
      \/ UNCHANGED rows /\ of \cap rows[c].docs \subseteq late' /\ rejected < MaxRejected
           /\ rejected' = rejected + 1
  BY <1>3, RowIsDeleted
<1>5. late \subseteq late' /\ late' \subseteq late \cup of
        /\ of \cap Index!Elsewhere(t) \subseteq late'
  BY <1>3
<1> QED
  BY <1>1, <1>2, <1>3, <1>4, <1>5 DEF Index!Shred, Forgets

LEMMA WipeSteps ==
  ASSUME IndexTyped, NEW t \in Tab, Index!WipeStarts(t)
  PROVE  Wipes(t)
<1> USE DEF IndexTyped
<1>1. /\ core' \in [Tab -> SUBSET Index!Doc] /\ core'[t] = {}
           /\ \A u \in Tab \ {t} : core'[u] = core[u]
      /\ dirty' \in [Tab -> SUBSET Conv] /\ dirty'[t] = {}
           /\ \A u \in Tab \ {t} : dirty'[u] = dirty[u]
  BY DEF Index!WipeStarts, WorkerTyped
<1> DEFINE b == IF batch[t].rest # {} /\ batch[t].own
                THEN [batch[t] EXCEPT !.own = FALSE, !.docs = core[t]] ELSE batch[t]
<1>2. batch' = [batch EXCEPT ![t] = b]
  BY DEF Index!WipeStarts
<1>3. b \in Batches /\ b.rest = batch[t].rest
  BY DEF BatchTyped, Batches, WorkerTyped
<1>4. \/ batch[t].rest # {} /\ batch[t].own /\ ~b.own /\ b.docs = core[t]
      \/ (batch[t].rest = {} \/ ~batch[t].own) /\ b = batch[t]
  BY DEF BatchTyped, Batches
<1> HIDE DEF b
<1>5. batch' \in [Tab -> Batches] /\ batch'[t] = b /\ \A u \in Tab \ {t} : batch'[u] = batch[u]
  BY <1>2, <1>3 DEF BatchTyped
<1> DEFINE of   == {d \in Index!Doc : d.era <= era}
           left == Index!Elsewhere(t) \cup Index!Shown(t) \cup batch'[t].docs
<1>6. /\ gone' = gone \cup of
      /\ \/ /\ rows' = Index!NoRows /\ wiping' = [wiping EXCEPT ![t] = "snapshots"]
            /\ late' = late \cup (of \cap left) /\ UNCHANGED <<rejected, asked, shown>>
         \/ /\ rejected < MaxRejected /\ rejected' = rejected + 1 /\ UNCHANGED rows
            /\ late' = late \cup (of \cap (left \cup Index!RowDocs(rows)))
                 /\ Index!Answered(t, era + 1)
  BY DEF Index!WipeStarts
<1>7. late \subseteq late' /\ late' \subseteq late \cup of /\ of \cap left \subseteq late'
  BY <1>6
<1>8. \/ /\ rows' = Index!NoRows /\ wiping' = [wiping EXCEPT ![t] = "snapshots"]
         /\ UNCHANGED <<rejected, asked, shown>>
      \/ /\ UNCHANGED rows /\ of \cap Index!RowDocs(rows) \subseteq late'
         /\ rejected < MaxRejected /\ rejected' = rejected + 1 /\ Index!Answered(t, era + 1)
  BY <1>6
<1> QED
  BY <1>1, <1>3, <1>4, <1>5, <1>6, <1>7, <1>8 DEF Index!WipeStarts, Wipes


\* What a row that is written or deleted does to the store.
LEMMA RowDoes ==
  ASSUME NEW c \in Conv, NEW r, RowBecame(c, r)
  PROVE  /\ SortedRows(rows) /\ r.docs \subseteq Index!In(Index!Doc, c) => SortedRows(rows)'
         /\ Index!RowDocs(rows)' \subseteq Index!RowDocs(rows) \cup r.docs
         /\ NumberedRows(rows) /\ snapshotKeys' = snapshotKeys /\ r.key <= snapshotKeys
              /\ (r.docs # {} => r.key # 0)
              => NumberedRows(rows)'
<1>1. \A x \in Conv : rows'[x] = IF x = c THEN r ELSE rows[x]
  BY DEF RowBecame
<1>2. SortedRows(rows) /\ r.docs \subseteq Index!In(Index!Doc, c) => SortedRows(rows)'
  BY <1>1 DEF SortedRows
<1>3. Index!RowDocs(rows)' \subseteq Index!RowDocs(rows) \cup r.docs
  BY <1>1 DEF Index!RowDocs
<1>4. NumberedRows(rows) /\ snapshotKeys' = snapshotKeys /\ r.key <= snapshotKeys
        /\ (r.docs # {} => r.key # 0)
        => NumberedRows(rows)'
  BY <1>1 DEF NumberedRows
<1> QED
  BY <1>2, <1>3, <1>4

\* Documents of other conversations stay readable, and those under the stored key are.
LEMMA RowReads ==
  ASSUME Sorted, NEW c \in Conv, NEW r, RowBecame(c, r), meta' = meta
  PROVE  /\ \A d \in Index!Readable : d.conv # c => d \in Index!Readable'
         /\ r.key = meta => r.docs \subseteq Index!Readable'
<1>1. rows'[c] = r /\ \A x \in Conv \ {c} : rows'[x] = rows[x]
  BY DEF RowBecame
<1>2. ASSUME NEW d \in Index!Readable, d.conv # c  PROVE d \in Index!Readable'
  <2>1. PICK x \in Conv : rows[x].key = meta /\ d \in rows[x].docs
    BY DEF Index!Readable
  <2>2. d.conv = x
    BY <2>1 DEF Sorted, SortedRows, Index!In
  <2>3. rows'[x] = rows[x]
    BY <1>1, <1>2, <2>2
  <2> QED
    BY <2>1, <2>3 DEF Index!Readable
<1>3. r.key = meta => r.docs \subseteq Index!Readable'
  BY <1>1 DEF Index!Readable
<1> QED
  BY <1>2, <1>3

\* What a step of a tab and its worker does.
IndexEffect(t) ==
  \/ Index!OpenPage(t)
  \/ Index!StartWorker(t)
  \/ Index!Hydrated(t)
  \/ Index!HydrateFails(t)
  \/ (\E d \in Index!Doc : Index!Index(t, d))
  \/ Index!TimerFires(t)
  \/ (\E c \in Conv : Emptied(t, c))
  \/ (\E c \in Conv : SealsNow(t, c))
  \/ (\E c \in Conv : Puts(t, c))
  \/ (\E c \in Conv : PutsNot(t, c))
  \/ (\E c \in Conv : Index!AskShred(t, c))
  \/ (\E c \in Conv : Forgets(t, c))
  \/ Index!AskWipe(t)
  \/ Wipes(t)
  \/ Index!KeyCleared(t)
  \/ Index!WipeEnds(t)
  \/ Index!CloseTab(t)

\* Every step of a tab is one of these.
LEMMA ActsAreEffects ==
  ASSUME NEW t \in Tab, IndexTyped, Numbered, IndexActs(t)
  PROVE  IndexEffect(t)
<1>1. CASE Index!Ask(t)
  BY <1>1 DEF Index!Ask, IndexEffect
<1>2. CASE Index!Serve(t)
  BY <1>2, ShredSteps, WipeSteps DEF Index!Serve, IndexEffect
<1>3. CASE Index!Persist(t)
  BY <1>3, ExportSteps, StoredSteps, StoreFailsSteps DEF Index!Persist, IndexEffect
<1>4. CASE Index!CloseTab(t)
  BY <1>4 DEF IndexEffect
<1> QED
  BY <1>1, <1>2, <1>3, <1>4 DEF IndexActs

-----------------------------------------------------------------------------
(* Each part of the invariant, step by step: a step of tab t first, the     *)
(* other tabs in IInvKept below.                                           *)

\* A step of one tab leaves what another has alone; while one worker is on, the others are idle.
LEMMA OthersKept ==
  ASSUME NEW t \in Tab, IndexTyped, Phased, OneWorker, IndexEffect(t)
  PROVE  \A u \in Tab \ {t} : Same(u) /\ Aside(u)
<1> USE DEF Index!store, Index!worker, Index!hist
<1>1. CASE Index!OpenPage(t)
  BY <1>1 DEF IndexTyped, TabTyped, WorkerTyped, BatchTyped, Same, Aside, WorkerOff, OneWorker,
     Phased, Fits, Index!OpenPage
<1>2. CASE Index!StartWorker(t)
  BY <1>2 DEF IndexTyped, TabTyped, WorkerTyped, BatchTyped, Same, Aside, WorkerOff, OneWorker,
     Phased, Fits, Index!StartWorker
<1>3. CASE Index!Hydrated(t)
  BY <1>3 DEF IndexTyped, TabTyped, WorkerTyped, BatchTyped, Same, Aside, WorkerOff, OneWorker,
     Phased, Fits, Index!Hydrated, Index!TakeKey, Index!Key, Index!NoRow, Index!NoRows
<1>4. CASE Index!HydrateFails(t)
  BY <1>4 DEF IndexTyped, TabTyped, WorkerTyped, BatchTyped, Same, Aside, WorkerOff, OneWorker,
     Phased, Fits, Index!HydrateFails, Index!NoRows, Index!NoRow
<1>5. ASSUME NEW d \in Index!Doc, Index!Index(t, d)  PROVE \A u \in Tab \ {t} : Same(u) /\ Aside(u)
  BY <1>5 DEF IndexTyped, TabTyped, WorkerTyped, BatchTyped, Same, Aside, WorkerOff, OneWorker,
     Phased, Fits, Index!Index
<1>6. CASE Index!TimerFires(t)
  BY <1>6 DEF IndexTyped, TabTyped, WorkerTyped, BatchTyped, Same, Aside, WorkerOff, OneWorker,
     Phased, Fits, Index!TimerFires, Index!NoBatch
<1>7. ASSUME NEW c \in Conv, Emptied(t, c)  PROVE \A u \in Tab \ {t} : Same(u) /\ Aside(u)
  BY <1>7 DEF IndexTyped, TabTyped, WorkerTyped, BatchTyped, Same, Aside, WorkerOff, OneWorker,
     Phased, Fits, Emptied, Went, RowBecame, Index!Exported, Index!NoRow, Index!NoBatch,
     Index!NoSeal
<1>8. ASSUME NEW c \in Conv, SealsNow(t, c)  PROVE \A u \in Tab \ {t} : Same(u) /\ Aside(u)
  <2>1. phase[t] = "on"
    BY <1>8 DEF SealsNow, Phased, Fits, IndexTyped, BatchTyped, Index!NoBatch
  <2>2. \A u \in Tab \ {t} : Same(u)
    BY <1>8 DEF SealsNow, SealBecame, TookKey, Same
  <2>3. \A u \in Tab \ {t} : Aside(u)
    BY <1>8, <2>1 DEF SealsNow, Aside, WorkerOff, OneWorker
  <2> QED
    BY <2>2, <2>3
<1>9. ASSUME NEW c \in Conv, Puts(t, c)  PROVE \A u \in Tab \ {t} : Same(u) /\ Aside(u)
  BY <1>9 DEF IndexTyped, TabTyped, WorkerTyped, BatchTyped, Same, Aside, WorkerOff, OneWorker,
     Phased, Fits, Puts, SealBecame, RowBecame, Went, Index!NoSeal, Index!NoBatch
<1>10. ASSUME NEW c \in Conv, PutsNot(t, c)  PROVE \A u \in Tab \ {t} : Same(u) /\ Aside(u)
  BY <1>10 DEF IndexTyped, TabTyped, WorkerTyped, BatchTyped, Same, Aside, WorkerOff, OneWorker,
     Phased, Fits, PutsNot, SealBecame, Went, Index!NoSeal, Index!NoBatch
<1>11. ASSUME NEW c \in Conv, Index!AskShred(t, c)  PROVE \A u \in Tab \ {t} : Same(u) /\ Aside(u)
  BY <1>11 DEF IndexTyped, TabTyped, WorkerTyped, BatchTyped, Same, Aside, WorkerOff, OneWorker,
     Phased, Fits, Index!AskShred
<1>12. ASSUME NEW c \in Conv, Forgets(t, c)  PROVE \A u \in Tab \ {t} : Same(u) /\ Aside(u)
  BY <1>12 DEF IndexTyped, TabTyped, WorkerTyped, BatchTyped, Same, Aside, WorkerOff, OneWorker,
     Phased, Fits, Forgets, RowBecame, Index!NoRow
<1>13. CASE Index!AskWipe(t)
  BY <1>13 DEF IndexTyped, TabTyped, WorkerTyped, BatchTyped, Same, Aside, WorkerOff, OneWorker,
     Phased, Fits, Index!AskWipe
<1>14. CASE Wipes(t)
  BY <1>14 DEF IndexTyped, TabTyped, WorkerTyped, BatchTyped, Same, Aside, WorkerOff, OneWorker,
     Phased, Fits, Wipes, Index!Answered, Index!NoRows, Index!NoRow
<1>15. CASE Index!KeyCleared(t)
  BY <1>15 DEF IndexTyped, TabTyped, WorkerTyped, BatchTyped, Same, Aside, WorkerOff, OneWorker,
     Phased, Fits, Index!KeyCleared, Index!Answered
<1>16. CASE Index!WipeEnds(t)
  BY <1>16 DEF IndexTyped, TabTyped, WorkerTyped, BatchTyped, Same, Aside, WorkerOff, OneWorker,
     Phased, Fits, Index!WipeEnds, Index!Answered
<1>17. CASE Index!CloseTab(t)
  <2>1. \A u \in Tab \ {t} : Same(u)
    BY <1>17 DEF Index!CloseTab, Same, IndexTyped, TabTyped, WorkerTyped, BatchTyped
  <2>2. ASSUME NEW u \in Tab \ {t}  PROVE Aside(u)
    <3>1. UNCHANGED <<rows, meta, gone>>
            /\ mixed' = (mixed /\ \E v \in Tab \ {t} : phase[v] # "off")
      BY <1>17 DEF Index!CloseTab
    <3> QED
      BY <3>1, <2>2 DEF Aside, WorkerOff
  <2> QED
    BY <2>1, <2>2
<1> QED
  BY <1>1, <1>2, <1>3, <1>4, <1>5, <1>6, <1>7, <1>8, <1>9, <1>10, <1>11, <1>12, <1>13, <1>14,
     <1>15, <1>16, <1>17 DEF IndexEffect

\* One tab wipes at a time, and an era is left for it.
LEMMA OneWipeKept ==
  ASSUME NEW t \in Tab, IndexTyped, OneWipe, Phased, IndexEffect(t)
  PROVE  OneWipe'
<1> USE DEF Index!store, Index!worker, Index!hist
<1>1. ASSUME NEW c \in Conv, Index!AskShred(t, c)  PROVE OneWipe'
  BY <1>1 DEF IndexTyped, TabTyped, CountTyped, OneWipe, Phased, Fits, Index!AskShred
<1>2. ASSUME NEW c \in Conv, Forgets(t, c)  PROVE OneWipe'
  BY <1>2 DEF IndexTyped, TabTyped, CountTyped, OneWipe, Phased, Fits, Forgets
<1>3. CASE Index!AskWipe(t)
  BY <1>3 DEF IndexTyped, TabTyped, CountTyped, OneWipe, Phased, Fits, Index!AskWipe
<1>4. CASE Wipes(t)
  BY <1>4 DEF IndexTyped, TabTyped, CountTyped, OneWipe, Phased, Fits, Wipes, Index!Answered
<1>5. CASE Index!KeyCleared(t)
  BY <1>5 DEF IndexTyped, TabTyped, CountTyped, OneWipe, Phased, Fits, Index!KeyCleared,
     Index!Answered
<1>6. CASE Index!WipeEnds(t)
  BY <1>6 DEF IndexTyped, TabTyped, CountTyped, OneWipe, Phased, Fits, Index!WipeEnds,
     Index!Answered
<1>7. CASE Index!CloseTab(t)
  BY <1>7 DEF IndexTyped, TabTyped, CountTyped, OneWipe, Phased, Fits, Index!CloseTab
<1>8. CASE UNCHANGED <<asked, era, wiping>>
  BY <1>8 DEF IndexTyped, TabTyped, CountTyped, OneWipe
<1>9. \/ (\E c \in Conv : Index!AskShred(t, c)) \/ (\E c \in Conv : Forgets(t, c))
           \/ Index!AskWipe(t)
     \/ Wipes(t) \/ Index!KeyCleared(t) \/ Index!WipeEnds(t) \/ Index!CloseTab(t)
     \/ UNCHANGED <<asked, era, wiping>>
  BY DEF IndexEffect, Index!OpenPage, Index!StartWorker, Index!Hydrated, Index!HydrateFails,
     Index!Index, Index!TimerFires, Emptied, SealsNow, Puts, PutsNot
<1> QED
  BY <1>1, <1>2, <1>3, <1>4, <1>5, <1>6, <1>7, <1>8, <1>9

\* The store has its type.
LEMMA RowsTypedKept ==
  ASSUME NEW t \in Tab, IndexTyped, Numbered, IndexEffect(t)
  PROVE  RowsTyped'
<1> USE DEF Index!store, Index!worker, Index!hist
<1>1. CASE Index!Hydrated(t)
  BY <1>1 DEF IndexTyped, RowsTyped, WorkerTyped, BatchTyped, CountTyped, Numbered, Numbers,
     NumberedRows, Rows, Seals, Batches, Index!Hydrated, Index!TakeKey, Index!Key, Index!NoRow,
     Index!NoRows
<1>2. ASSUME NEW c \in Conv, Emptied(t, c)  PROVE RowsTyped'
  BY <1>2 DEF IndexTyped, RowsTyped, WorkerTyped, BatchTyped, CountTyped, Numbered, Numbers,
     NumberedRows, Rows, Seals, Batches, Emptied, RowBecame, Index!NoRow
<1>3. ASSUME NEW c \in Conv, SealsNow(t, c)  PROVE RowsTyped'
  BY <1>3 DEF IndexTyped, RowsTyped, WorkerTyped, BatchTyped, CountTyped, Numbered, Numbers,
     NumberedRows, Rows, Seals, Batches, SealsNow, TookKey
<1>4. ASSUME NEW c \in Conv, Puts(t, c)  PROVE RowsTyped'
  BY <1>4 DEF IndexTyped, RowsTyped, WorkerTyped, BatchTyped, CountTyped, Numbered, Numbers,
     NumberedRows, Rows, Seals, Batches, Puts, RowBecame
<1>5. ASSUME NEW c \in Conv, Forgets(t, c)  PROVE RowsTyped'
  BY <1>5 DEF IndexTyped, RowsTyped, WorkerTyped, BatchTyped, CountTyped, Numbered, Numbers,
     NumberedRows, Rows, Seals, Batches, Forgets, RowBecame, Index!NoRow
<1>6. CASE Wipes(t)
  BY <1>6 DEF IndexTyped, RowsTyped, WorkerTyped, BatchTyped, CountTyped, Numbered, Numbers,
     NumberedRows, Rows, Seals, Batches, Wipes, Index!NoRows, Index!NoRow
<1>7. CASE Index!KeyCleared(t)
  BY <1>7 DEF IndexTyped, RowsTyped, WorkerTyped, BatchTyped, CountTyped, Numbered, Numbers,
     NumberedRows, Rows, Seals, Batches, Index!KeyCleared
<1>8. CASE UNCHANGED <<rows, meta, snapshotKeys>>
  BY <1>8 DEF IndexTyped, RowsTyped, WorkerTyped, BatchTyped, CountTyped
<1>9. \/ Index!Hydrated(t) \/ (\E c \in Conv : Emptied(t, c)) \/ (\E c \in Conv : SealsNow(t, c))
     \/ (\E c \in Conv : Puts(t, c)) \/ (\E c \in Conv : Forgets(t, c)) \/ Wipes(t)
     \/ Index!KeyCleared(t) \/ UNCHANGED <<rows, meta, snapshotKeys>>
  BY DEF IndexEffect, Index!OpenPage, Index!StartWorker, Index!HydrateFails, Index!Index,
     Index!TimerFires, PutsNot, Index!AskShred, Index!AskWipe, Index!WipeEnds, Index!CloseTab
<1> QED
  BY <1>1, <1>2, <1>3, <1>4, <1>5, <1>6, <1>7, <1>8, <1>9

\* The counters stay within their bounds.
LEMMA CountTypedKept ==
  ASSUME NEW t \in Tab, IndexTyped, OneWipe, IndexEffect(t)
  PROVE  CountTyped'
<1> USE DEF Index!store, Index!worker, Index!hist
<1>1. CASE Index!StartWorker(t)
  BY <1>1 DEF IndexTyped, CountTyped, OneWipe, Index!StartWorker
<1>2. CASE Index!HydrateFails(t)
  BY <1>2 DEF IndexTyped, CountTyped, OneWipe, Index!HydrateFails
<1>3. ASSUME NEW c \in Conv, PutsNot(t, c)  PROVE CountTyped'
  BY <1>3 DEF IndexTyped, CountTyped, OneWipe, PutsNot
<1>4. ASSUME NEW c \in Conv, Forgets(t, c)  PROVE CountTyped'
  BY <1>4 DEF IndexTyped, CountTyped, OneWipe, Forgets
<1>5. CASE Wipes(t)
  BY <1>5 DEF IndexTyped, CountTyped, OneWipe, Wipes
<1>6. CASE Index!KeyCleared(t)
  BY <1>6 DEF IndexTyped, CountTyped, OneWipe, Index!KeyCleared
<1>7. CASE Index!CloseTab(t)
  BY <1>7 DEF IndexTyped, CountTyped, OneWipe, Index!CloseTab
<1>8. CASE UNCHANGED <<era, rejected, closes, mixed>>
  BY <1>8 DEF IndexTyped, CountTyped, OneWipe
<1>9. \/ Index!StartWorker(t) \/ Index!HydrateFails(t) \/ (\E c \in Conv : PutsNot(t, c))
     \/ (\E c \in Conv : Forgets(t, c)) \/ Wipes(t) \/ Index!KeyCleared(t) \/ Index!CloseTab(t)
     \/ UNCHANGED <<era, rejected, closes, mixed>>
  BY DEF IndexEffect, Index!OpenPage, Index!Hydrated, Index!Index, Index!TimerFires, Emptied,
     SealsNow, Puts, Index!AskShred, Index!AskWipe, Index!WipeEnds
<1> QED
  BY <1>1, <1>2, <1>3, <1>4, <1>5, <1>6, <1>7, <1>8, <1>9

\* What the tabs show and await has its type.
LEMMA TabTypedKept ==
  ASSUME NEW t \in Tab, IndexTyped, IndexEffect(t)
  PROVE  TabTyped'
<1> USE DEF Index!store, Index!worker, Index!hist
<1>1. CASE Index!OpenPage(t)
  BY <1>1 DEF IndexTyped, TabTyped, CountTyped, Index!OpenPage
<1>2. CASE Index!StartWorker(t)
  BY <1>2 DEF IndexTyped, TabTyped, CountTyped, Index!StartWorker
<1>3. CASE Index!Hydrated(t)
  BY <1>3 DEF IndexTyped, TabTyped, CountTyped, Index!Hydrated
<1>4. CASE Index!HydrateFails(t)
  BY <1>4 DEF IndexTyped, TabTyped, CountTyped, Index!HydrateFails
<1>5. ASSUME NEW c \in Conv, Index!AskShred(t, c)  PROVE TabTyped'
  BY <1>5 DEF IndexTyped, TabTyped, CountTyped, Index!AskShred
<1>6. ASSUME NEW c \in Conv, Forgets(t, c)  PROVE TabTyped'
  BY <1>6 DEF IndexTyped, TabTyped, CountTyped, Forgets
<1>7. CASE Index!AskWipe(t)
  BY <1>7 DEF IndexTyped, TabTyped, CountTyped, Index!AskWipe
<1>8. CASE Wipes(t)
  BY <1>8 DEF IndexTyped, TabTyped, CountTyped, Wipes, Index!Answered
<1>9. CASE Index!KeyCleared(t)
  BY <1>9 DEF IndexTyped, TabTyped, CountTyped, Index!KeyCleared, Index!Answered
<1>10. CASE Index!WipeEnds(t)
  BY <1>10 DEF IndexTyped, TabTyped, CountTyped, Index!WipeEnds, Index!Answered
<1>11. CASE Index!CloseTab(t)
  BY <1>11 DEF IndexTyped, TabTyped, CountTyped, Index!CloseTab
<1>12. CASE UNCHANGED <<shown, asked, wiping, phase>>
  BY <1>12 DEF IndexTyped, TabTyped, CountTyped
<1>13. \/ Index!OpenPage(t) \/ Index!StartWorker(t) \/ Index!Hydrated(t) \/ Index!HydrateFails(t)
     \/ (\E c \in Conv : Index!AskShred(t, c)) \/ (\E c \in Conv : Forgets(t, c))
          \/ Index!AskWipe(t)
     \/ Wipes(t) \/ Index!KeyCleared(t) \/ Index!WipeEnds(t) \/ Index!CloseTab(t)
     \/ UNCHANGED <<shown, asked, wiping, phase>>
  BY DEF IndexEffect, Index!Index, Index!TimerFires, Emptied, SealsNow, Puts, PutsNot
<1> QED
  BY <1>1, <1>2, <1>3, <1>4, <1>5, <1>6, <1>7, <1>8, <1>9, <1>10, <1>11, <1>12, <1>13

\* The workers' indexes, keys and timers have their type.
LEMMA WorkerTypedKept ==
  ASSUME NEW t \in Tab, IndexTyped, Sorted, IndexEffect(t)
  PROVE  WorkerTyped'
<1> USE DEF Index!store, Index!worker, Index!hist
<1>1. CASE Index!StartWorker(t)
  BY <1>1 DEF IndexTyped, WorkerTyped, RowsTyped, Rows, Sorted, SortedRows, Index!In, Index!Doc,
     Index!StartWorker
<1>2. CASE Index!Hydrated(t)
  BY <1>2 DEF IndexTyped, WorkerTyped, RowsTyped, Rows, Sorted, SortedRows, Index!In, Index!Doc,
     Index!Hydrated, Index!TakeKey, Index!Key, Index!NoRow, Index!NoRows
<1>3. CASE Index!HydrateFails(t)
  BY <1>3 DEF IndexTyped, WorkerTyped, RowsTyped, Rows, Sorted, SortedRows, Index!In, Index!Doc,
     Index!HydrateFails, Index!NoRows, Index!NoRow
<1>4. ASSUME NEW d \in Index!Doc, Index!Index(t, d)  PROVE WorkerTyped'
  BY <1>4 DEF IndexTyped, WorkerTyped, RowsTyped, Rows, Sorted, SortedRows, Index!In, Index!Doc,
     Index!Index
<1>5. CASE Index!TimerFires(t)
  BY <1>5 DEF IndexTyped, WorkerTyped, RowsTyped, Rows, Sorted, SortedRows, Index!In, Index!Doc,
     Index!TimerFires
<1>6. ASSUME NEW c \in Conv, SealsNow(t, c)  PROVE WorkerTyped'
  BY <1>6 DEF IndexTyped, WorkerTyped, RowsTyped, Rows, Sorted, SortedRows, Index!In, Index!Doc,
     SealsNow, TookKey
<1>7. ASSUME NEW c \in Conv, PutsNot(t, c)  PROVE WorkerTyped'
  BY <1>7 DEF IndexTyped, WorkerTyped, RowsTyped, Rows, Sorted, SortedRows, Index!In, Index!Doc,
     PutsNot
<1>8. ASSUME NEW c \in Conv, Forgets(t, c)  PROVE WorkerTyped'
  BY <1>8 DEF IndexTyped, WorkerTyped, RowsTyped, Rows, Sorted, SortedRows, Index!In, Index!Doc,
     Forgets, Index!NoRow
<1>9. CASE Wipes(t)
  BY <1>9 DEF IndexTyped, WorkerTyped, RowsTyped, Rows, Sorted, SortedRows, Index!In, Index!Doc,
     Wipes, Index!NoRows, Index!NoRow
<1>10. CASE Index!WipeEnds(t)
  BY <1>10 DEF IndexTyped, WorkerTyped, RowsTyped, Rows, Sorted, SortedRows, Index!In, Index!Doc,
     Index!WipeEnds
<1>11. CASE Index!CloseTab(t)
  BY <1>11 DEF IndexTyped, WorkerTyped, RowsTyped, Rows, Sorted, SortedRows, Index!In, Index!Doc,
     Index!CloseTab, Index!NoRows, Index!NoRow
<1>12. CASE UNCHANGED <<core, read, dirty, timer, held>>
  BY <1>12 DEF IndexTyped, WorkerTyped, RowsTyped, Index!Doc
<1>13. \/ Index!StartWorker(t) \/ Index!Hydrated(t) \/ Index!HydrateFails(t)
            \/ (\E d \in Index!Doc : Index!Index(t, d))
     \/ Index!TimerFires(t) \/ (\E c \in Conv : SealsNow(t, c)) \/ (\E c \in Conv : PutsNot(t, c))
     \/ (\E c \in Conv : Forgets(t, c)) \/ Wipes(t) \/ Index!WipeEnds(t) \/ Index!CloseTab(t)
     \/ UNCHANGED <<core, read, dirty, timer, held>>
  BY DEF IndexEffect, Index!OpenPage, Emptied, Puts, Index!AskShred, Index!AskWipe,
     Index!KeyCleared
<1> QED
  BY <1>1, <1>2, <1>3, <1>4, <1>5, <1>6, <1>7, <1>8, <1>9, <1>10, <1>11, <1>12, <1>13

\* Batches and snapshots on their way have their type.
LEMMA BatchTypedKept ==
  ASSUME NEW t \in Tab, IndexTyped, IndexEffect(t)
  PROVE  BatchTyped'
<1> USE DEF Index!store, Index!worker, Index!hist
<1>1. CASE Index!TimerFires(t)
  BY <1>1 DEF IndexTyped, WorkerTyped, BatchTyped, RowsTyped, Batches, Seals, Index!In,
     Index!TimerFires, Index!NoBatch
<1>2. ASSUME NEW c \in Conv, Emptied(t, c)  PROVE BatchTyped'
  BY <1>2 DEF IndexTyped, WorkerTyped, BatchTyped, RowsTyped, Batches, Seals, Index!In, Emptied,
     Went, Index!Exported, Index!NoBatch, Index!NoSeal
<1>3. ASSUME NEW c \in Conv, SealsNow(t, c)  PROVE BatchTyped'
  BY <1>3 DEF IndexTyped, WorkerTyped, BatchTyped, RowsTyped, Batches, Seals, Index!In, SealsNow,
     SealBecame, Index!Exported, Index!NoSeal
<1>4. ASSUME NEW c \in Conv, Puts(t, c)  PROVE BatchTyped'
  BY <1>4 DEF IndexTyped, WorkerTyped, BatchTyped, RowsTyped, Batches, Seals, Index!In, Puts,
     SealBecame, Went, Index!NoSeal, Index!NoBatch
<1>5. ASSUME NEW c \in Conv, PutsNot(t, c)  PROVE BatchTyped'
  BY <1>5 DEF IndexTyped, WorkerTyped, BatchTyped, RowsTyped, Batches, Seals, Index!In, PutsNot,
     SealBecame, Went, Index!NoSeal, Index!NoBatch
<1>6. CASE Wipes(t)
  BY <1>6 DEF IndexTyped, WorkerTyped, BatchTyped, RowsTyped, Batches, Seals, Index!In, Wipes
<1>7. CASE Index!CloseTab(t)
  BY <1>7 DEF IndexTyped, WorkerTyped, BatchTyped, RowsTyped, Batches, Seals, Index!In,
     Index!CloseTab, Index!NoBatch, Index!NoSeal
<1>8. CASE UNCHANGED <<batch, sealing>>
  BY <1>8 DEF IndexTyped, WorkerTyped, BatchTyped, RowsTyped
<1>9. \/ Index!TimerFires(t) \/ (\E c \in Conv : Emptied(t, c)) \/ (\E c \in Conv : SealsNow(t, c))
     \/ (\E c \in Conv : Puts(t, c)) \/ (\E c \in Conv : PutsNot(t, c)) \/ Wipes(t)
     \/ Index!CloseTab(t) \/ UNCHANGED <<batch, sealing>>
  BY DEF IndexEffect, Index!OpenPage, Index!StartWorker, Index!Hydrated, Index!HydrateFails,
     Index!Index, Index!AskShred, Forgets, Index!AskWipe, Index!KeyCleared, Index!WipeEnds
<1> QED
  BY <1>1, <1>2, <1>3, <1>4, <1>5, <1>6, <1>7, <1>8, <1>9

\* The history names documents.
LEMMA GoneTypedKept ==
  ASSUME NEW t \in Tab, IndexTyped, IndexEffect(t)
  PROVE  GoneTyped'
<1> USE DEF Index!store, Index!worker, Index!hist
<1>1. ASSUME NEW c \in Conv, Forgets(t, c)  PROVE GoneTyped'
  BY <1>1 DEF IndexTyped, GoneTyped, Index!In, Forgets, Index!Elsewhere, Index!RowDocs
<1>2. CASE Wipes(t)
  BY <1>2 DEF IndexTyped, GoneTyped, Index!In, Wipes, Index!Elsewhere, Index!Shown, Index!RowDocs
<1>3. CASE UNCHANGED <<gone, late>>
  BY <1>3 DEF IndexTyped, GoneTyped
<1>4. \/ (\E c \in Conv : Forgets(t, c)) \/ Wipes(t) \/ UNCHANGED <<gone, late>>
  BY DEF IndexEffect, Index!OpenPage, Index!StartWorker, Index!Hydrated, Index!HydrateFails,
     Index!Index, Index!TimerFires, Emptied, SealsNow, Puts, PutsNot, Index!AskShred,
     Index!AskWipe, Index!KeyCleared, Index!WipeEnds, Index!CloseTab
<1> QED
  BY <1>1, <1>2, <1>3, <1>4

\* A stored row holds its own conversation.
LEMMA RowsSortedKept ==
  ASSUME NEW t \in Tab, IndexTyped, Sorted, Phased, IndexEffect(t)
  PROVE  SortedRows(rows)'
<1> USE DEF Index!store, Index!worker, Index!hist
<1>1. CASE Index!Hydrated(t)
  BY <1>1 DEF IndexTyped, RowsTyped, WorkerTyped, BatchTyped, Sorted, SortedRows, SortedSeal, Rows,
     Index!In, Index!Hydrated, Index!TakeKey, Index!Key, Index!NoRow, Index!NoRows
<1>2. ASSUME NEW c \in Conv, Emptied(t, c)  PROVE SortedRows(rows)'
  <2>1. SortedRows(rows) /\ Index!NoRow.docs = {}
    BY DEF Sorted, Index!NoRow
  <2> QED
    BY <1>2, <2>1, RowDoes DEF Emptied
<1>3. ASSUME NEW c \in Conv, Puts(t, c)  PROVE SortedRows(rows)'
  <2> DEFINE r == [docs |-> sealing[t].docs, key |-> sealing[t].key]
  <2>1. SortedRows(rows) /\ r.docs \subseteq Index!In(Index!Doc, c)
    BY <1>3 DEF Sorted, SortedSeal, Puts
  <2>2. RowBecame(c, r)
    BY <1>3 DEF Puts
  <2> QED
    BY <2>1, <2>2, RowDoes
<1>4. ASSUME NEW c \in Conv, Forgets(t, c)  PROVE SortedRows(rows)'
  <2>1. SortedRows(rows) /\ Index!NoRow.docs = {}
    BY DEF Sorted, Index!NoRow
  <2>2. RowBecame(c, Index!NoRow) \/ UNCHANGED rows
    BY <1>4 DEF Forgets
  <2> QED
    BY <2>1, <2>2, RowDoes DEF SortedRows
<1>5. CASE Wipes(t)
  BY <1>5 DEF IndexTyped, RowsTyped, WorkerTyped, BatchTyped, Sorted, SortedRows, SortedSeal, Rows,
     Index!In, Wipes, Index!NoRows, Index!NoRow
<1>6. CASE UNCHANGED rows
  BY <1>6 DEF IndexTyped, RowsTyped, WorkerTyped, BatchTyped, Sorted, SortedRows, SortedSeal
<1>7. \/ Index!Hydrated(t) \/ (\E c \in Conv : Emptied(t, c)) \/ (\E c \in Conv : Puts(t, c))
     \/ (\E c \in Conv : Forgets(t, c)) \/ Wipes(t) \/ UNCHANGED rows
  BY DEF IndexEffect, Index!OpenPage, Index!StartWorker, Index!HydrateFails, Index!Index,
     Index!TimerFires, SealsNow, PutsNot, Index!AskShred, Index!AskWipe, Index!KeyCleared,
     Index!WipeEnds, Index!CloseTab
<1> QED
  BY <1>1, <1>2, <1>3, <1>4, <1>5, <1>6, <1>7

\* So do the rows a hydration has read and the snapshot being sealed.
LEMMA WorkerSortedKept ==
  ASSUME NEW t \in Tab, IndexTyped, Sorted, Phased, IndexEffect(t)
  PROVE  (SortedRows(read[t]) /\ SortedSeal(t))'
<1> USE DEF Index!store, Index!worker, Index!hist
<1>1. CASE Index!StartWorker(t)
  BY <1>1 DEF IndexTyped, RowsTyped, WorkerTyped, BatchTyped, Sorted, SortedRows, SortedSeal, Rows,
     Batches, Seals, Index!In, Index!StartWorker
<1>2. CASE Index!Hydrated(t)
  BY <1>2 DEF IndexTyped, RowsTyped, WorkerTyped, BatchTyped, Sorted, SortedRows, SortedSeal, Rows,
     Batches, Seals, Index!In, Index!Hydrated, Index!NoRow, Index!NoRows
<1>3. CASE Index!HydrateFails(t)
  BY <1>3 DEF IndexTyped, RowsTyped, WorkerTyped, BatchTyped, Sorted, SortedRows, SortedSeal, Rows,
     Batches, Seals, Index!In, Index!HydrateFails, Index!NoRows, Index!NoRow
<1>4. ASSUME NEW c \in Conv, SealsNow(t, c)  PROVE (SortedRows(read[t]) /\ SortedSeal(t))'
  BY <1>4 DEF IndexTyped, RowsTyped, WorkerTyped, BatchTyped, Sorted, SortedRows, SortedSeal, Rows,
     Batches, Seals, Index!In, SealsNow, SealBecame, Index!Exported, Index!NoSeal
<1>5. ASSUME NEW c \in Conv, Puts(t, c)  PROVE (SortedRows(read[t]) /\ SortedSeal(t))'
  BY <1>5 DEF IndexTyped, RowsTyped, WorkerTyped, BatchTyped, Sorted, SortedRows, SortedSeal, Rows,
     Batches, Seals, Index!In, Puts, SealBecame, Index!NoSeal
<1>6. ASSUME NEW c \in Conv, PutsNot(t, c)  PROVE (SortedRows(read[t]) /\ SortedSeal(t))'
  BY <1>6 DEF IndexTyped, RowsTyped, WorkerTyped, BatchTyped, Sorted, SortedRows, SortedSeal, Rows,
     Batches, Seals, Index!In, PutsNot, SealBecame, Index!NoSeal
<1>7. CASE Index!CloseTab(t)
  BY <1>7 DEF IndexTyped, RowsTyped, WorkerTyped, BatchTyped, Sorted, SortedRows, SortedSeal, Rows,
     Batches, Seals, Index!In, Index!CloseTab, Index!NoRows, Index!NoRow, Index!NoSeal
<1>8. CASE UNCHANGED <<read, sealing>>
  BY <1>8 DEF IndexTyped, RowsTyped, WorkerTyped, BatchTyped, Sorted, SortedRows, SortedSeal
<1>9. \/ Index!StartWorker(t) \/ Index!Hydrated(t) \/ Index!HydrateFails(t)
           \/ (\E c \in Conv : SealsNow(t, c))
     \/ (\E c \in Conv : Puts(t, c)) \/ (\E c \in Conv : PutsNot(t, c)) \/ Index!CloseTab(t)
     \/ UNCHANGED <<read, sealing>>
  BY DEF IndexEffect, Index!OpenPage, Index!Index, Index!TimerFires, Emptied, Index!AskShred,
     Forgets, Index!AskWipe, Wipes, Index!KeyCleared, Index!WipeEnds
<1> QED
  BY <1>1, <1>2, <1>3, <1>4, <1>5, <1>6, <1>7, <1>8, <1>9

\* What a worker is at fits its phase and what its tab awaits.
LEMMA FitsKept ==
  ASSUME NEW t \in Tab, IndexTyped, Fits(t), IndexEffect(t)
  PROVE  Fits(t)'
<1> USE DEF Index!store, Index!worker, Index!hist
<1>1. CASE Index!OpenPage(t)
  BY <1>1 DEF IndexTyped, TabTyped, WorkerTyped, BatchTyped, Fits, Index!NoRows, Index!NoBatch,
     Index!NoSeal, Index!NoRow, Batches, Seals, Index!In, Index!OpenPage
<1>2. CASE Index!StartWorker(t)
  BY <1>2 DEF IndexTyped, TabTyped, WorkerTyped, BatchTyped, Fits, Index!NoRows, Index!NoBatch,
     Index!NoSeal, Index!NoRow, Batches, Seals, Index!In, Index!StartWorker
<1>3. CASE Index!Hydrated(t)
  BY <1>3 DEF IndexTyped, TabTyped, WorkerTyped, BatchTyped, Fits, Index!NoRows, Index!NoBatch,
     Index!NoSeal, Index!NoRow, Batches, Seals, Index!In, Index!Hydrated, Index!TakeKey, Index!Key
<1>4. CASE Index!HydrateFails(t)
  BY <1>4 DEF IndexTyped, TabTyped, WorkerTyped, BatchTyped, Fits, Index!NoRows, Index!NoBatch,
     Index!NoSeal, Index!NoRow, Batches, Seals, Index!In, Index!HydrateFails
<1>5. ASSUME NEW d \in Index!Doc, Index!Index(t, d)  PROVE Fits(t)'
  BY <1>5 DEF IndexTyped, TabTyped, WorkerTyped, BatchTyped, Fits, Index!NoRows, Index!NoBatch,
     Index!NoSeal, Index!NoRow, Batches, Seals, Index!In, Index!Index
<1>6. CASE Index!TimerFires(t)
  BY <1>6 DEF IndexTyped, TabTyped, WorkerTyped, BatchTyped, Fits, Index!NoRows, Index!NoBatch,
     Index!NoSeal, Index!NoRow, Batches, Seals, Index!In, Index!TimerFires
<1>7. ASSUME NEW c \in Conv, Emptied(t, c)  PROVE Fits(t)'
  BY <1>7 DEF IndexTyped, TabTyped, WorkerTyped, BatchTyped, Fits, Index!NoRows, Index!NoBatch,
     Index!NoSeal, Index!NoRow, Batches, Seals, Index!In, Emptied, Went, Index!Exported
<1>8. ASSUME NEW c \in Conv, SealsNow(t, c)  PROVE Fits(t)'
  BY <1>8 DEF IndexTyped, TabTyped, WorkerTyped, BatchTyped, Fits, Index!NoRows, Index!NoBatch,
     Index!NoSeal, Index!NoRow, Batches, Seals, Index!In, SealsNow, SealBecame, TookKey,
     Index!Exported
<1>9. ASSUME NEW c \in Conv, Puts(t, c)  PROVE Fits(t)'
  BY <1>9 DEF IndexTyped, TabTyped, WorkerTyped, BatchTyped, Fits, Index!NoRows, Index!NoBatch,
     Index!NoSeal, Index!NoRow, Batches, Seals, Index!In, Puts, SealBecame, Went
<1>10. ASSUME NEW c \in Conv, PutsNot(t, c)  PROVE Fits(t)'
  BY <1>10 DEF IndexTyped, TabTyped, WorkerTyped, BatchTyped, Fits, Index!NoRows, Index!NoBatch,
     Index!NoSeal, Index!NoRow, Batches, Seals, Index!In, PutsNot, SealBecame, Went
<1>11. ASSUME NEW c \in Conv, Index!AskShred(t, c)  PROVE Fits(t)'
  BY <1>11 DEF IndexTyped, TabTyped, WorkerTyped, BatchTyped, Fits, Index!NoRows, Index!NoBatch,
     Index!NoSeal, Index!NoRow, Batches, Seals, Index!In, Index!AskShred
<1>12. ASSUME NEW c \in Conv, Forgets(t, c)  PROVE Fits(t)'
  BY <1>12 DEF IndexTyped, TabTyped, WorkerTyped, BatchTyped, Fits, Index!NoRows, Index!NoBatch,
     Index!NoSeal, Index!NoRow, Batches, Seals, Index!In, Forgets
<1>13. CASE Index!AskWipe(t)
  BY <1>13 DEF IndexTyped, TabTyped, WorkerTyped, BatchTyped, Fits, Index!NoRows, Index!NoBatch,
     Index!NoSeal, Index!NoRow, Batches, Seals, Index!In, Index!AskWipe
<1>14. CASE Wipes(t)
  BY <1>14 DEF IndexTyped, TabTyped, WorkerTyped, BatchTyped, Fits, Index!NoRows, Index!NoBatch,
     Index!NoSeal, Index!NoRow, Batches, Seals, Index!In, Wipes, Index!Answered
<1>15. CASE Index!KeyCleared(t)
  BY <1>15 DEF IndexTyped, TabTyped, WorkerTyped, BatchTyped, Fits, Index!NoRows, Index!NoBatch,
     Index!NoSeal, Index!NoRow, Batches, Seals, Index!In, Index!KeyCleared, Index!Answered
<1>16. CASE Index!WipeEnds(t)
  BY <1>16 DEF IndexTyped, TabTyped, WorkerTyped, BatchTyped, Fits, Index!NoRows, Index!NoBatch,
     Index!NoSeal, Index!NoRow, Batches, Seals, Index!In, Index!WipeEnds, Index!Answered
<1>17. CASE Index!CloseTab(t)
  BY <1>17 DEF IndexTyped, TabTyped, WorkerTyped, BatchTyped, Fits, Index!NoRows, Index!NoBatch,
     Index!NoSeal, Index!NoRow, Batches, Seals, Index!In, Index!CloseTab
<1> QED
  BY <1>1, <1>2, <1>3, <1>4, <1>5, <1>6, <1>7, <1>8, <1>9, <1>10, <1>11, <1>12, <1>13, <1>14,
     <1>15, <1>16, <1>17 DEF IndexEffect

\* Every page of an earlier era counts as late.
LEMMA DatedKept ==
  ASSUME NEW t \in Tab, IndexTyped, Phased, Dated, IndexEffect(t)
  PROVE  Dated'
<1> USE DEF Index!store, Index!worker, Index!hist
<1>1. CASE Index!OpenPage(t)
  BY <1>1 DEF IndexTyped, TabTyped, CountTyped, GoneTyped, Dated, DatedPage, Index!Doc, Phased,
     Fits, Index!In, Index!OpenPage
<1>2. ASSUME NEW c \in Conv, Forgets(t, c)  PROVE Dated'
  BY <1>2 DEF IndexTyped, TabTyped, CountTyped, GoneTyped, Dated, DatedPage, Index!Doc, Phased,
     Fits, Index!In, Forgets, Index!Elsewhere, Index!RowDocs
<1>3. CASE Index!AskWipe(t)
  BY <1>3 DEF IndexTyped, TabTyped, CountTyped, GoneTyped, Dated, DatedPage, Index!Doc, Phased,
     Fits, Index!In, Index!AskWipe
<1>4. CASE Wipes(t)
  BY <1>4 DEF IndexTyped, TabTyped, CountTyped, GoneTyped, Dated, DatedPage, Index!Doc, Phased,
     Fits, Index!In, Wipes, Index!Answered, Index!Elsewhere, Index!Shown, Index!RowDocs
<1>5. CASE Index!KeyCleared(t)
  BY <1>5 DEF IndexTyped, TabTyped, CountTyped, GoneTyped, Dated, DatedPage, Index!Doc, Phased,
     Fits, Index!In, Index!KeyCleared, Index!Answered
<1>6. CASE Index!WipeEnds(t)
  BY <1>6 DEF IndexTyped, TabTyped, CountTyped, GoneTyped, Dated, DatedPage, Index!Doc, Phased,
     Fits, Index!In, Index!WipeEnds, Index!Answered
<1>7. CASE Index!CloseTab(t)
  BY <1>7 DEF IndexTyped, TabTyped, CountTyped, GoneTyped, Dated, DatedPage, Index!Doc, Phased,
     Fits, Index!In, Index!CloseTab
<1>8. CASE UNCHANGED <<shown, era, late>>
  BY <1>8 DEF IndexTyped, TabTyped, CountTyped, GoneTyped, Dated, DatedPage, Index!Doc
<1>9. \/ Index!OpenPage(t) \/ (\E c \in Conv : Forgets(t, c)) \/ Index!AskWipe(t) \/ Wipes(t)
     \/ Index!KeyCleared(t) \/ Index!WipeEnds(t) \/ Index!CloseTab(t) \/ UNCHANGED <<shown, era,
                                                                                     late>>
  BY DEF IndexEffect, Index!StartWorker, Index!Hydrated, Index!HydrateFails, Index!Index,
     Index!TimerFires, Emptied, SealsNow, Puts, PutsNot, Index!AskShred
<1> QED
  BY <1>1, <1>2, <1>3, <1>4, <1>5, <1>6, <1>7, <1>8, <1>9

\* No row brings back what is gone.
LEMMA RowsGoneKept ==
  ASSUME NEW t \in Tab, IndexTyped, Sorted, Phased, Dated, Gone, IndexEffect(t)
  PROVE  (Index!RowDocs(rows) \cap gone \subseteq late)'
<1> USE DEF Index!store, Index!worker, Index!hist
<1>1. CASE Index!Hydrated(t)
  BY <1>1 DEF IndexTyped, RowsTyped, WorkerTyped, BatchTyped, GoneTyped, TabTyped, Sorted,
     SortedRows, Phased, Dated, Gone, Held, Index!RowDocs, Index!In, Index!NoRows, Index!NoRow,
     Index!Hydrated, Index!TakeKey, Index!Key
<1>2. ASSUME NEW c \in Conv, Emptied(t, c)  PROVE (Index!RowDocs(rows) \cap gone \subseteq late)'
  <2>1. Index!RowDocs(rows)' \subseteq Index!RowDocs(rows) \cup Index!NoRow.docs
          /\ UNCHANGED <<gone, late>>
    BY <1>2, RowDoes DEF Emptied, Index!hist
  <2> QED
    BY <2>1 DEF Gone, Index!NoRow
<1>3. ASSUME NEW c \in Conv, Puts(t, c)  PROVE (Index!RowDocs(rows) \cap gone \subseteq late)'
  <2> DEFINE r == [docs |-> sealing[t].docs, key |-> sealing[t].key]
  <2>1. RowBecame(c, r) /\ UNCHANGED <<gone, late>>
    BY <1>3 DEF Puts, Index!hist
  <2>2. Index!RowDocs(rows)' \subseteq Index!RowDocs(rows) \cup sealing[t].docs
    BY <2>1, RowDoes
  <2> QED
    BY <2>1, <2>2 DEF Gone, Held
<1>4. ASSUME NEW c \in Conv, Forgets(t, c)  PROVE (Index!RowDocs(rows) \cap gone \subseteq late)'
  <2> DEFINE of == {d \in Index!In(Index!Doc, c) : d.era = shown[t]}
  <2>1. gone' = gone \cup of /\ late \subseteq late'
    BY <1>4 DEF Forgets
  <2>2. CASE RowBecame(c, Index!NoRow)
    <3>1. Index!RowDocs(rows)' \subseteq Index!RowDocs(rows)
      BY <2>2, RowDoes DEF Index!NoRow
    <3>2. \A d \in Index!RowDocs(rows)' : d.conv # c
      BY <2>2 DEF Index!RowDocs, RowBecame, Index!NoRow, Sorted, SortedRows, Index!In
    <3> QED
      BY <2>1, <3>1, <3>2 DEF Gone, Index!In
  <2>3. CASE UNCHANGED rows /\ of \cap rows[c].docs \subseteq late'
    <3>1. \A d \in Index!RowDocs(rows) : d.conv = c => d \in rows[c].docs
      BY DEF Index!RowDocs, Sorted, SortedRows, Index!In
    <3>2. Index!RowDocs(rows)' = Index!RowDocs(rows)
      BY <2>3 DEF Index!RowDocs
    <3> QED
      BY <2>1, <2>3, <3>1, <3>2 DEF Gone, Index!In
  <2> QED
    BY <1>4, <2>2, <2>3 DEF Forgets
<1>5. CASE Wipes(t)
  BY <1>5 DEF IndexTyped, RowsTyped, WorkerTyped, BatchTyped, GoneTyped, TabTyped, Sorted,
     SortedRows, Phased, Dated, Gone, Held, Index!RowDocs, Index!In, Index!NoRows, Index!NoRow,
     Wipes, Index!Elsewhere, Index!Shown
<1>6. CASE UNCHANGED <<rows, gone, late>>
  BY <1>6 DEF IndexTyped, RowsTyped, WorkerTyped, BatchTyped, GoneTyped, TabTyped, Sorted,
     SortedRows, Dated, Gone, Held, Index!RowDocs, Index!NoRows, Index!NoRow
<1>7. \/ Index!Hydrated(t) \/ (\E c \in Conv : Emptied(t, c)) \/ (\E c \in Conv : Puts(t, c))
     \/ (\E c \in Conv : Forgets(t, c)) \/ Wipes(t) \/ UNCHANGED <<rows, gone, late>>
  BY DEF IndexEffect, Index!OpenPage, Index!StartWorker, Index!HydrateFails, Index!Index,
     Index!TimerFires, SealsNow, PutsNot, Index!AskShred, Index!AskWipe, Index!KeyCleared,
     Index!WipeEnds, Index!CloseTab
<1> QED
  BY <1>1, <1>2, <1>3, <1>4, <1>5, <1>6, <1>7

\* Nothing a worker holds brings back what is gone.
LEMMA HeldGoneKept ==
  ASSUME NEW t \in Tab, IndexTyped, Sorted, Phased, Dated, Gone, IndexEffect(t)
  PROVE  (Held(t) \cap gone \subseteq late)'
<1> USE DEF Index!store, Index!worker, Index!hist
<1>1. CASE Index!StartWorker(t)
  BY <1>1 DEF IndexTyped, RowsTyped, WorkerTyped, BatchTyped, GoneTyped, TabTyped, Sorted, Phased,
     Dated, Gone, Held, Index!RowDocs, Index!In, Index!NoRows, Index!NoRow, Index!StartWorker
<1>2. CASE Index!Hydrated(t)
  BY <1>2 DEF IndexTyped, RowsTyped, WorkerTyped, BatchTyped, GoneTyped, TabTyped, Sorted, Phased,
     Dated, Gone, Held, Index!RowDocs, Index!In, Index!NoRows, Index!NoRow, Index!Hydrated,
     Index!TakeKey, Index!Key
<1>3. CASE Index!HydrateFails(t)
  BY <1>3 DEF IndexTyped, RowsTyped, WorkerTyped, BatchTyped, GoneTyped, TabTyped, Sorted, Phased,
     Dated, Gone, Held, Index!RowDocs, Index!In, Index!NoRows, Index!NoRow, Index!HydrateFails
<1>4. ASSUME NEW d \in Index!Doc, Index!Index(t, d)  PROVE (Held(t) \cap gone \subseteq late)'
  <2>1. d \in gone => d \in late
    BY <1>4 DEF Index!Index, Dated, DatedPage
  <2>2. core'[t] = core[t] \cup {d} /\ UNCHANGED <<sealing, batch, read, gone, late>>
    BY <1>4 DEF Index!Index, IndexTyped, WorkerTyped
  <2> QED
    BY <2>1, <2>2 DEF Gone, Held, Index!RowDocs
<1>5. CASE Index!TimerFires(t)
  BY <1>5 DEF IndexTyped, RowsTyped, WorkerTyped, BatchTyped, GoneTyped, TabTyped, Sorted, Phased,
     Dated, Gone, Held, Index!RowDocs, Index!In, Index!NoRows, Index!NoRow, Index!TimerFires,
     Index!NoBatch
<1>6. ASSUME NEW c \in Conv, Emptied(t, c)  PROVE (Held(t) \cap gone \subseteq late)'
  BY <1>6 DEF IndexTyped, RowsTyped, WorkerTyped, BatchTyped, GoneTyped, TabTyped, Sorted, Phased,
     Dated, Gone, Held, Index!RowDocs, Index!In, Index!NoRows, Index!NoRow, Emptied, Went,
     Index!Exported, Index!NoBatch, Index!NoSeal
<1>7. ASSUME NEW c \in Conv, SealsNow(t, c)  PROVE (Held(t) \cap gone \subseteq late)'
  BY <1>7 DEF IndexTyped, RowsTyped, WorkerTyped, BatchTyped, GoneTyped, TabTyped, Sorted, Phased,
     Dated, Gone, Held, Index!RowDocs, Index!In, Index!NoRows, Index!NoRow, SealsNow, SealBecame,
     Index!Exported, Index!NoSeal
<1>8. ASSUME NEW c \in Conv, Puts(t, c)  PROVE (Held(t) \cap gone \subseteq late)'
  BY <1>8 DEF IndexTyped, RowsTyped, WorkerTyped, BatchTyped, GoneTyped, TabTyped, Sorted, Phased,
     Dated, Gone, Held, Index!RowDocs, Index!In, Index!NoRows, Index!NoRow, Puts, SealBecame, Went,
     Index!NoSeal, Index!NoBatch
<1>9. ASSUME NEW c \in Conv, PutsNot(t, c)  PROVE (Held(t) \cap gone \subseteq late)'
  BY <1>9 DEF IndexTyped, RowsTyped, WorkerTyped, BatchTyped, GoneTyped, TabTyped, Sorted, Phased,
     Dated, Gone, Held, Index!RowDocs, Index!In, Index!NoRows, Index!NoRow, PutsNot, SealBecame,
     Went, Index!NoSeal, Index!NoBatch
<1>10. ASSUME NEW c \in Conv, Forgets(t, c)  PROVE (Held(t) \cap gone \subseteq late)'
  <2> DEFINE of == {d \in Index!In(Index!Doc, c) : d.era = shown[t]}
  <2>1. gone' = gone \cup of /\ late \subseteq late' /\ of \cap Index!Elsewhere(t) \subseteq late'
    BY <1>10 DEF Forgets
  <2>2. core'[t] = core[t] \ Index!In(core[t], c) /\ UNCHANGED <<sealing, batch, read>>
    BY <1>10 DEF Forgets
  <2>3. Index!RowDocs(read[t]) = {}
    BY <1>10 DEF Forgets, Phased, Fits, Index!RowDocs, Index!NoRows, Index!NoRow
  <2>4. Held(t)' = core'[t] \cup sealing[t].docs \cup batch[t].docs
    BY <2>2, <2>3 DEF Held, Index!RowDocs
  <2>5. sealing[t].docs \cup batch[t].docs \subseteq Index!Elsewhere(t)
    BY DEF Index!Elsewhere
  <2>6. core'[t] \cap of = {}
    BY <2>2 DEF Index!In
  <2> HIDE DEF of
  <2> QED
    BY <2>1, <2>2, <2>4, <2>5, <2>6 DEF Gone, Held
<1>11. CASE Wipes(t)
  <2> DEFINE of == {d \in Index!Doc : d.era <= era}
  <2>1. gone' = gone \cup of /\ late \subseteq late'
    BY <1>11 DEF Wipes
  <2>2. of \cap (Index!Elsewhere(t) \cup batch'[t].docs) \subseteq late'
    BY <1>11 DEF Wipes
  <2>3. core'[t] = {} /\ UNCHANGED <<sealing, read>>
    BY <1>11 DEF Wipes
  <2>4. Index!RowDocs(read[t]) = {}
    BY <1>11 DEF Wipes, Phased, Fits, Index!RowDocs, Index!NoRows, Index!NoRow
  <2>5. batch'[t].docs \subseteq core[t] \cup batch[t].docs
    BY <1>11 DEF Wipes
  <2>6. Held(t)' = sealing[t].docs \cup batch'[t].docs
    BY <2>3, <2>4 DEF Held, Index!RowDocs
  <2>7. sealing[t].docs \subseteq Index!Elsewhere(t)
    BY DEF Index!Elsewhere
  <2>8. Held(t)' \cap gone \subseteq late
    BY <2>5, <2>6 DEF Gone, Held
  <2> HIDE DEF of
  <2> QED
    BY <2>1, <2>2, <2>6, <2>7, <2>8
<1>12. CASE Index!CloseTab(t)
  BY <1>12 DEF IndexTyped, RowsTyped, WorkerTyped, BatchTyped, GoneTyped, TabTyped, Sorted, Phased,
     Dated, Gone, Held, Index!RowDocs, Index!In, Index!NoRows, Index!NoRow, Index!CloseTab,
     Index!NoBatch, Index!NoSeal
<1>13. CASE UNCHANGED <<core, sealing, batch, read, gone, late>>
  BY <1>13 DEF IndexTyped, RowsTyped, WorkerTyped, BatchTyped, GoneTyped, TabTyped, Sorted, Dated,
     Gone, Held, Index!RowDocs, Index!NoRows, Index!NoRow
<1>14. \/ Index!StartWorker(t) \/ Index!Hydrated(t) \/ Index!HydrateFails(t)
            \/ (\E d \in Index!Doc : Index!Index(t, d))
     \/ Index!TimerFires(t) \/ (\E c \in Conv : Emptied(t, c)) \/ (\E c \in Conv : SealsNow(t, c))
     \/ (\E c \in Conv : Puts(t, c)) \/ (\E c \in Conv : PutsNot(t, c))
     \/ (\E c \in Conv : Forgets(t, c)) \/ Wipes(t) \/ Index!CloseTab(t)
     \/ UNCHANGED <<core, sealing, batch, read, gone, late>>
  BY DEF IndexEffect, Index!OpenPage, Index!AskShred, Index!AskWipe, Index!KeyCleared,
     Index!WipeEnds
<1> QED
  BY <1>1, <1>2, <1>3, <1>4, <1>5, <1>6, <1>7, <1>8, <1>9, <1>10, <1>11, <1>12, <1>13, <1>14

\* The stored rows are sealed under keys that were generated.
LEMMA RowsNumberedKept ==
  ASSUME NEW t \in Tab, IndexTyped, Numbered, IndexEffect(t)
  PROVE  (meta <= snapshotKeys /\ NumberedRows(rows))' /\ snapshotKeys <= snapshotKeys'
<1> USE DEF Index!store, Index!worker, Index!hist
<1>1. CASE Index!Hydrated(t)
  BY <1>1 DEF IndexTyped, RowsTyped, WorkerTyped, BatchTyped, CountTyped, Numbered, Numbers,
     NumberedRows, Rows, Seals, Index!NoRow, Index!NoRows, Index!Hydrated, Index!TakeKey, Index!Key
<1>2. ASSUME NEW c \in Conv, Emptied(t, c)
      PROVE (meta <= snapshotKeys /\ NumberedRows(rows))' /\ snapshotKeys <= snapshotKeys'
  <2>1. Index!NoRow.key <= snapshotKeys /\ Index!NoRow.docs = {} /\ UNCHANGED <<snapshotKeys, meta>>
    BY <1>2 DEF Emptied, Index!NoRow, IndexTyped, RowsTyped
  <2> QED
    BY <1>2, <2>1, RowDoes DEF Emptied, Numbered, IndexTyped, RowsTyped
<1>3. ASSUME NEW c \in Conv, SealsNow(t, c)
      PROVE (meta <= snapshotKeys /\ NumberedRows(rows))' /\ snapshotKeys <= snapshotKeys'
  BY <1>3 DEF IndexTyped, RowsTyped, WorkerTyped, BatchTyped, CountTyped, Numbered, Numbers,
     NumberedRows, Rows, Seals, Index!NoRow, Index!NoRows, SealsNow, TookKey
<1>4. ASSUME NEW c \in Conv, Puts(t, c)
      PROVE (meta <= snapshotKeys /\ NumberedRows(rows))' /\ snapshotKeys <= snapshotKeys'
  <2> DEFINE r == [docs |-> sealing[t].docs, key |-> sealing[t].key]
  <2>1. r.key <= snapshotKeys /\ (r.docs # {} => r.key # 0) /\ RowBecame(c, r)
          /\ UNCHANGED <<snapshotKeys, meta>>
    BY <1>4 DEF Puts, Numbered, Numbers
  <2> HIDE DEF r
  <2> QED
    BY <2>1, RowDoes DEF Numbered, IndexTyped, RowsTyped
<1>5. ASSUME NEW c \in Conv, Forgets(t, c)
      PROVE (meta <= snapshotKeys /\ NumberedRows(rows))' /\ snapshotKeys <= snapshotKeys'
  <2>1. Index!NoRow.key <= snapshotKeys /\ Index!NoRow.docs = {} /\ UNCHANGED <<snapshotKeys, meta>>
    BY <1>5 DEF Forgets, Index!NoRow, IndexTyped, RowsTyped
  <2>2. RowBecame(c, Index!NoRow) \/ UNCHANGED rows
    BY <1>5 DEF Forgets
  <2>3. NumberedRows(rows)'
    BY <2>1, <2>2, RowDoes DEF Numbered, NumberedRows
  <2> QED
    BY <2>1, <2>3 DEF Numbered, IndexTyped, RowsTyped
<1>6. CASE Wipes(t)
  BY <1>6 DEF IndexTyped, RowsTyped, WorkerTyped, BatchTyped, CountTyped, Numbered, Numbers,
     NumberedRows, Rows, Seals, Index!NoRow, Index!NoRows, Wipes
<1>7. CASE Index!KeyCleared(t)
  BY <1>7 DEF IndexTyped, RowsTyped, WorkerTyped, BatchTyped, CountTyped, Numbered, Numbers,
     NumberedRows, Rows, Seals, Index!NoRow, Index!NoRows, Index!KeyCleared
<1>8. CASE UNCHANGED <<rows, meta, snapshotKeys>>
  BY <1>8 DEF IndexTyped, RowsTyped, WorkerTyped, BatchTyped, CountTyped, Numbered, Numbers,
     NumberedRows, Index!NoRow, Index!NoRows
<1>9. \/ Index!Hydrated(t) \/ (\E c \in Conv : Emptied(t, c)) \/ (\E c \in Conv : SealsNow(t, c))
     \/ (\E c \in Conv : Puts(t, c)) \/ (\E c \in Conv : Forgets(t, c)) \/ Wipes(t)
     \/ Index!KeyCleared(t) \/ UNCHANGED <<rows, meta, snapshotKeys>>
  BY DEF IndexEffect, Index!OpenPage, Index!StartWorker, Index!HydrateFails, Index!Index,
     Index!TimerFires, PutsNot, Index!AskShred, Index!AskWipe, Index!WipeEnds, Index!CloseTab
<1> QED
  BY <1>1, <1>2, <1>3, <1>4, <1>5, <1>6, <1>7, <1>8, <1>9

\* So is what a worker read or seals.
LEMMA WorkerNumberedKept ==
  ASSUME NEW t \in Tab, IndexTyped, Numbered, IndexEffect(t)
  PROVE  Numbers(t)'
<1> USE DEF Index!store, Index!worker, Index!hist
<1>1. CASE Index!StartWorker(t)
  BY <1>1 DEF IndexTyped, RowsTyped, WorkerTyped, BatchTyped, CountTyped, Numbered, Numbers,
     NumberedRows, Rows, Seals, Index!NoRow, Index!NoRows, Index!NoSeal, Index!StartWorker
<1>2. CASE Index!Hydrated(t)
  BY <1>2 DEF IndexTyped, RowsTyped, WorkerTyped, BatchTyped, CountTyped, Numbered, Numbers,
     NumberedRows, Rows, Seals, Index!NoRow, Index!NoRows, Index!NoSeal, Index!Hydrated,
     Index!TakeKey, Index!Key
<1>3. CASE Index!HydrateFails(t)
  BY <1>3 DEF IndexTyped, RowsTyped, WorkerTyped, BatchTyped, CountTyped, Numbered, Numbers,
     NumberedRows, Rows, Seals, Index!NoRow, Index!NoRows, Index!NoSeal, Index!HydrateFails
<1>4. ASSUME NEW c \in Conv, SealsNow(t, c)  PROVE Numbers(t)'
  BY <1>4 DEF IndexTyped, RowsTyped, WorkerTyped, BatchTyped, CountTyped, Numbered, Numbers,
     NumberedRows, Rows, Seals, Index!NoRow, Index!NoRows, Index!NoSeal, SealsNow, SealBecame,
     TookKey, Index!Exported
<1>5. ASSUME NEW c \in Conv, Puts(t, c)  PROVE Numbers(t)'
  BY <1>5 DEF IndexTyped, RowsTyped, WorkerTyped, BatchTyped, CountTyped, Numbered, Numbers,
     NumberedRows, Rows, Seals, Index!NoRow, Index!NoRows, Index!NoSeal, Puts, SealBecame
<1>6. ASSUME NEW c \in Conv, PutsNot(t, c)  PROVE Numbers(t)'
  BY <1>6 DEF IndexTyped, RowsTyped, WorkerTyped, BatchTyped, CountTyped, Numbered, Numbers,
     NumberedRows, Rows, Seals, Index!NoRow, Index!NoRows, Index!NoSeal, PutsNot, SealBecame
<1>7. CASE Index!WipeEnds(t)
  BY <1>7 DEF IndexTyped, RowsTyped, WorkerTyped, BatchTyped, CountTyped, Numbered, Numbers,
     NumberedRows, Rows, Seals, Index!NoRow, Index!NoRows, Index!NoSeal, Index!WipeEnds
<1>8. CASE Index!CloseTab(t)
  BY <1>8 DEF IndexTyped, RowsTyped, WorkerTyped, BatchTyped, CountTyped, Numbered, Numbers,
     NumberedRows, Rows, Seals, Index!NoRow, Index!NoRows, Index!NoSeal, Index!CloseTab
<1>9. CASE UNCHANGED <<held, snapshotKeys, read, sealing>>
  BY <1>9 DEF IndexTyped, RowsTyped, WorkerTyped, BatchTyped, CountTyped, Numbered, Numbers,
     NumberedRows, Index!NoRow, Index!NoRows, Index!NoSeal
<1>10. \/ Index!StartWorker(t) \/ Index!Hydrated(t) \/ Index!HydrateFails(t)
            \/ (\E c \in Conv : SealsNow(t, c))
     \/ (\E c \in Conv : Puts(t, c)) \/ (\E c \in Conv : PutsNot(t, c)) \/ Index!WipeEnds(t)
     \/ Index!CloseTab(t) \/ UNCHANGED <<held, snapshotKeys, read, sealing>>
  BY DEF IndexEffect, Index!OpenPage, Index!Index, Index!TimerFires, Emptied, Index!AskShred,
     Forgets, Index!AskWipe, Wipes, Index!KeyCleared
<1> QED
  BY <1>1, <1>2, <1>3, <1>4, <1>5, <1>6, <1>7, <1>8, <1>9, <1>10

\* Two workers at work together are noticed.
LEMMA OneWorkerKept ==
  ASSUME NEW t \in Tab, IndexTyped, OneWorker, Phased, IndexEffect(t)
  PROVE  OneWorker'
<1> USE DEF Index!store, Index!worker, Index!hist
<1>1. CASE Index!StartWorker(t)
  BY <1>1 DEF IndexTyped, TabTyped, OneWorker, Index!StartWorker
<1>2. CASE Index!Hydrated(t)
  BY <1>2 DEF IndexTyped, TabTyped, OneWorker, Index!Hydrated
<1>3. CASE Index!HydrateFails(t)
  BY <1>3 DEF IndexTyped, TabTyped, OneWorker, Index!HydrateFails
<1>4. CASE Index!CloseTab(t)
  BY <1>4 DEF IndexTyped, TabTyped, OneWorker, Index!CloseTab
<1>5. CASE UNCHANGED <<phase, mixed>>
  BY <1>5 DEF IndexTyped, TabTyped, OneWorker
<1>6. \/ Index!StartWorker(t) \/ Index!Hydrated(t) \/ Index!HydrateFails(t) \/ Index!CloseTab(t)
     \/ UNCHANGED <<phase, mixed>>
  BY DEF IndexEffect, Index!OpenPage, Index!Index, Index!TimerFires, Emptied, SealsNow, Puts,
     PutsNot, Index!AskShred, Forgets, Index!AskWipe, Wipes, Index!KeyCleared, Index!WipeEnds
<1> QED
  BY <1>1, <1>2, <1>3, <1>4, <1>5, <1>6

\* A lone worker holds the stored key, or none.
LEMMA KeyOfKept ==
  ASSUME NEW t \in Tab, IndexTyped, Fits(t), KeyOf(t), IndexEffect(t)
  PROVE  KeyOf(t)'
<1> USE DEF Index!store, Index!worker, Index!hist
<1>1. CASE Index!StartWorker(t)
  BY <1>1 DEF IndexTyped, TabTyped, WorkerTyped, RowsTyped, KeyOf, Fits, Index!Key,
     Index!StartWorker
<1>2. CASE Index!Hydrated(t)
  BY <1>2 DEF IndexTyped, TabTyped, WorkerTyped, RowsTyped, KeyOf, Fits, Index!Key, Index!Hydrated,
     Index!TakeKey
<1>3. ASSUME NEW c \in Conv, SealsNow(t, c)  PROVE KeyOf(t)'
  BY <1>3 DEF IndexTyped, TabTyped, WorkerTyped, RowsTyped, KeyOf, Fits, Index!Key, SealsNow,
     TookKey
<1>4. CASE Wipes(t)
  BY <1>4 DEF IndexTyped, TabTyped, WorkerTyped, RowsTyped, KeyOf, Fits, Index!Key, Wipes,
     Index!Answered
<1>5. CASE Index!KeyCleared(t)
  BY <1>5 DEF IndexTyped, TabTyped, WorkerTyped, RowsTyped, KeyOf, Fits, Index!Key,
     Index!KeyCleared, Index!Answered
<1>6. CASE Index!WipeEnds(t)
  BY <1>6 DEF IndexTyped, TabTyped, WorkerTyped, RowsTyped, KeyOf, Fits, Index!Key, Index!WipeEnds,
     Index!Answered
<1>7. CASE Index!CloseTab(t)
  BY <1>7 DEF IndexTyped, TabTyped, WorkerTyped, RowsTyped, KeyOf, Fits, Index!Key, Index!CloseTab
<1>8. CASE UNCHANGED <<mixed, wiping, held, meta>>
  BY <1>8 DEF IndexTyped, TabTyped, WorkerTyped, RowsTyped, KeyOf, Index!Key
<1>9. \/ Index!StartWorker(t) \/ Index!Hydrated(t) \/ (\E c \in Conv : SealsNow(t, c)) \/ Wipes(t)
     \/ Index!KeyCleared(t) \/ Index!WipeEnds(t) \/ Index!CloseTab(t)
     \/ UNCHANGED <<mixed, wiping, held, meta>>
  BY DEF IndexEffect, Index!OpenPage, Index!HydrateFails, Index!Index, Index!TimerFires, Emptied,
     Puts, PutsNot, Index!AskShred, Forgets, Index!AskWipe
<1> QED
  BY <1>1, <1>2, <1>3, <1>4, <1>5, <1>6, <1>7, <1>8, <1>9

\* A lone worker hydrates from what is stored.
LEMMA ReadOfKept ==
  ASSUME NEW t \in Tab, IndexTyped, Fits(t), ReadOf(t), IndexEffect(t)
  PROVE  ReadOf(t)'
<1> USE DEF Index!store, Index!worker, Index!hist
<1>1. CASE Index!StartWorker(t)
  BY <1>1 DEF IndexTyped, WorkerTyped, RowsTyped, TabTyped, ReadOf, Fits, Index!NoBatch,
     Index!StartWorker
<1>2. CASE Index!Hydrated(t)
  BY <1>2 DEF IndexTyped, WorkerTyped, RowsTyped, TabTyped, ReadOf, Fits, Index!NoBatch,
     Index!Hydrated, Index!TakeKey, Index!Key, Index!NoRow, Index!NoRows
<1>3. CASE Index!HydrateFails(t)
  BY <1>3 DEF IndexTyped, WorkerTyped, RowsTyped, TabTyped, ReadOf, Fits, Index!NoBatch,
     Index!HydrateFails, Index!NoRows, Index!NoRow
<1>4. ASSUME NEW c \in Conv, Emptied(t, c)  PROVE ReadOf(t)'
  BY <1>4 DEF IndexTyped, WorkerTyped, RowsTyped, TabTyped, ReadOf, Fits, Index!NoBatch, Emptied,
     RowBecame, Index!NoRow
<1>5. ASSUME NEW c \in Conv, Puts(t, c)  PROVE ReadOf(t)'
  BY <1>5 DEF IndexTyped, WorkerTyped, RowsTyped, TabTyped, ReadOf, Fits, Index!NoBatch, Puts,
     RowBecame
<1>6. ASSUME NEW c \in Conv, Forgets(t, c)  PROVE ReadOf(t)'
  BY <1>6 DEF IndexTyped, WorkerTyped, RowsTyped, TabTyped, ReadOf, Fits, Index!NoBatch, Forgets,
     RowBecame, Index!NoRow
<1>7. CASE Wipes(t)
  BY <1>7 DEF IndexTyped, WorkerTyped, RowsTyped, TabTyped, ReadOf, Fits, Index!NoBatch, Wipes,
     Index!NoRows, Index!NoRow
<1>8. CASE Index!CloseTab(t)
  BY <1>8 DEF IndexTyped, WorkerTyped, RowsTyped, TabTyped, ReadOf, Fits, Index!NoBatch,
     Index!CloseTab, Index!NoRows, Index!NoRow
<1>9. CASE UNCHANGED <<mixed, phase, read, rows>>
  BY <1>9 DEF IndexTyped, WorkerTyped, RowsTyped, TabTyped, ReadOf, Index!NoBatch
<1>10. \/ Index!StartWorker(t) \/ Index!Hydrated(t) \/ Index!HydrateFails(t)
            \/ (\E c \in Conv : Emptied(t, c))
     \/ (\E c \in Conv : Puts(t, c)) \/ (\E c \in Conv : Forgets(t, c)) \/ Wipes(t)
     \/ Index!CloseTab(t) \/ UNCHANGED <<mixed, phase, read, rows>>
  BY DEF IndexEffect, Index!OpenPage, Index!Index, Index!TimerFires, SealsNow, PutsNot,
     Index!AskShred, Index!AskWipe, Index!KeyCleared, Index!WipeEnds
<1> QED
  BY <1>1, <1>2, <1>3, <1>4, <1>5, <1>6, <1>7, <1>8, <1>9, <1>10

\* A wiped index is empty until the wipe is answered.
LEMMA WipedOfKept ==
  ASSUME NEW t \in Tab, IndexTyped, Fits(t), WipedOf(t), DatedPage(t), IndexEffect(t)
  PROVE  WipedOf(t)'
<1> USE DEF Index!store, Index!worker, Index!hist
<1>1. CASE Index!Hydrated(t)
  BY <1>1 DEF IndexTyped, TabTyped, WorkerTyped, BatchTyped, WipedOf, Fits, DatedPage, Index!Doc,
     Index!In, Batches, Seals, Index!Hydrated, Index!TakeKey, Index!Key
<1>2. ASSUME NEW d \in Index!Doc, Index!Index(t, d)  PROVE WipedOf(t)'
  BY <1>2 DEF IndexTyped, TabTyped, WorkerTyped, BatchTyped, WipedOf, Fits, DatedPage, Index!Doc,
     Index!In, Batches, Seals, Index!Index
<1>3. CASE Index!TimerFires(t)
  BY <1>3 DEF IndexTyped, TabTyped, WorkerTyped, BatchTyped, WipedOf, Fits, DatedPage, Index!Doc,
     Index!In, Batches, Seals, Index!TimerFires, Index!NoBatch
<1>4. ASSUME NEW c \in Conv, Emptied(t, c)  PROVE WipedOf(t)'
  BY <1>4 DEF IndexTyped, TabTyped, WorkerTyped, BatchTyped, WipedOf, Fits, DatedPage, Index!Doc,
     Index!In, Batches, Seals, Emptied, Went, Index!Exported, Index!NoBatch, Index!NoSeal
<1>5. ASSUME NEW c \in Conv, SealsNow(t, c)  PROVE WipedOf(t)'
  BY <1>5 DEF IndexTyped, TabTyped, WorkerTyped, BatchTyped, WipedOf, Fits, DatedPage, Index!Doc,
     Index!In, Batches, Seals, SealsNow, SealBecame, Index!Exported, Index!NoSeal
<1>6. ASSUME NEW c \in Conv, Puts(t, c)  PROVE WipedOf(t)'
  BY <1>6 DEF IndexTyped, TabTyped, WorkerTyped, BatchTyped, WipedOf, Fits, DatedPage, Index!Doc,
     Index!In, Batches, Seals, Puts, SealBecame, Went, Index!NoSeal, Index!NoBatch
<1>7. ASSUME NEW c \in Conv, PutsNot(t, c)  PROVE WipedOf(t)'
  BY <1>7 DEF IndexTyped, TabTyped, WorkerTyped, BatchTyped, WipedOf, Fits, DatedPage, Index!Doc,
     Index!In, Batches, Seals, PutsNot, SealBecame, Went, Index!NoSeal, Index!NoBatch
<1>8. ASSUME NEW c \in Conv, Forgets(t, c)  PROVE WipedOf(t)'
  BY <1>8 DEF IndexTyped, TabTyped, WorkerTyped, BatchTyped, WipedOf, Fits, DatedPage, Index!Doc,
     Index!In, Batches, Seals, Forgets
<1>9. CASE Wipes(t)
  BY <1>9 DEF IndexTyped, TabTyped, WorkerTyped, BatchTyped, WipedOf, Fits, DatedPage, Index!Doc,
     Index!In, Batches, Seals, Wipes, Index!Answered
<1>10. CASE Index!KeyCleared(t)
  BY <1>10 DEF IndexTyped, TabTyped, WorkerTyped, BatchTyped, WipedOf, Fits, DatedPage, Index!Doc,
     Index!In, Batches, Seals, Index!KeyCleared, Index!Answered
<1>11. CASE Index!WipeEnds(t)
  BY <1>11 DEF IndexTyped, TabTyped, WorkerTyped, BatchTyped, WipedOf, Fits, DatedPage, Index!Doc,
     Index!In, Batches, Seals, Index!WipeEnds, Index!Answered
<1>12. CASE Index!CloseTab(t)
  BY <1>12 DEF IndexTyped, TabTyped, WorkerTyped, BatchTyped, WipedOf, Fits, DatedPage, Index!Doc,
     Index!In, Batches, Seals, Index!CloseTab, Index!NoBatch, Index!NoSeal
<1>13. CASE UNCHANGED <<wiping, core, batch, sealing>>
  BY <1>13 DEF IndexTyped, TabTyped, WorkerTyped, BatchTyped, WipedOf, DatedPage, Index!Doc
<1>14. \/ Index!Hydrated(t) \/ (\E d \in Index!Doc : Index!Index(t, d)) \/ Index!TimerFires(t)
     \/ (\E c \in Conv : Emptied(t, c)) \/ (\E c \in Conv : SealsNow(t, c))
     \/ (\E c \in Conv : Puts(t, c)) \/ (\E c \in Conv : PutsNot(t, c))
     \/ (\E c \in Conv : Forgets(t, c)) \/ Wipes(t) \/ Index!KeyCleared(t) \/ Index!WipeEnds(t)
     \/ Index!CloseTab(t) \/ UNCHANGED <<wiping, core, batch, sealing>>
  BY DEF IndexEffect, Index!OpenPage, Index!StartWorker, Index!HydrateFails, Index!AskShred,
     Index!AskWipe
<1> QED
  BY <1>1, <1>2, <1>3, <1>4, <1>5, <1>6, <1>7, <1>8, <1>9, <1>10, <1>11, <1>12, <1>13, <1>14

\* Under a batch of the old index, the new index is dirty.
LEMMA OldOfKept ==
  ASSUME NEW t \in Tab, IndexTyped, Fits(t), OldOf(t), Sorted, IndexEffect(t)
  PROVE  OldOf(t)'
<1> USE DEF Index!store, Index!worker, Index!hist
<1>1. CASE Index!Hydrated(t)
  <2>1. batch[t] = Index!NoBatch /\ batch' = batch
    BY <1>1 DEF Index!Hydrated, Fits
  <2> QED
    BY <2>1 DEF OldOf, Index!NoBatch
<1>2. ASSUME NEW d \in Index!Doc, Index!Index(t, d)  PROVE OldOf(t)'
  BY <1>2 DEF IndexTyped, WorkerTyped, BatchTyped, OldOf, Fits, Index!In, Batches, Index!Index
<1>3. CASE Index!TimerFires(t)
  BY <1>3 DEF IndexTyped, WorkerTyped, BatchTyped, OldOf, Fits, Index!In, Batches,
     Index!TimerFires, Index!NoBatch
<1>4. ASSUME NEW c \in Conv, Emptied(t, c)  PROVE OldOf(t)'
  BY <1>4 DEF IndexTyped, WorkerTyped, BatchTyped, OldOf, Fits, Index!In, Batches, Emptied, Went,
     Index!Exported, Index!NoBatch
<1>5. ASSUME NEW c \in Conv, Puts(t, c)  PROVE OldOf(t)'
  BY <1>5 DEF IndexTyped, WorkerTyped, BatchTyped, OldOf, Fits, Index!In, Batches, Puts, Went,
     Index!NoBatch
<1>6. ASSUME NEW c \in Conv, PutsNot(t, c)  PROVE OldOf(t)'
  BY <1>6 DEF IndexTyped, WorkerTyped, BatchTyped, OldOf, Fits, Index!In, Batches, PutsNot, Went,
     Index!NoBatch
<1>7. ASSUME NEW c \in Conv, Forgets(t, c)  PROVE OldOf(t)'
  BY <1>7 DEF IndexTyped, WorkerTyped, BatchTyped, OldOf, Fits, Index!In, Batches, Forgets
<1>8. CASE Wipes(t)
  BY <1>8 DEF IndexTyped, WorkerTyped, BatchTyped, OldOf, Fits, Index!In, Batches, Wipes
<1>9. CASE Index!CloseTab(t)
  BY <1>9 DEF IndexTyped, WorkerTyped, BatchTyped, OldOf, Fits, Index!In, Batches, Index!CloseTab,
     Index!NoBatch
<1>10. CASE UNCHANGED <<batch, core, dirty>>
  BY <1>10 DEF IndexTyped, WorkerTyped, BatchTyped, OldOf
<1>11. \/ Index!Hydrated(t) \/ (\E d \in Index!Doc : Index!Index(t, d)) \/ Index!TimerFires(t)
     \/ (\E c \in Conv : Emptied(t, c)) \/ (\E c \in Conv : Puts(t, c))
     \/ (\E c \in Conv : PutsNot(t, c)) \/ (\E c \in Conv : Forgets(t, c)) \/ Wipes(t)
     \/ Index!CloseTab(t) \/ UNCHANGED <<batch, core, dirty>>
  BY DEF IndexEffect, Index!OpenPage, Index!StartWorker, Index!HydrateFails, SealsNow,
     Index!AskShred, Index!AskWipe, Index!KeyCleared, Index!WipeEnds
<1> QED
  BY <1>1, <1>2, <1>3, <1>4, <1>5, <1>6, <1>7, <1>8, <1>9, <1>10, <1>11

\* A snapshot being sealed has all of its conversation, or that is dirty again.
LEMMA SealOfKept ==
  ASSUME NEW t \in Tab, IndexTyped, Fits(t), KeyOf(t), WipedOf(t), SealOf(t), Numbers(t),
         IndexEffect(t)
  PROVE  SealOf(t)'
<1> USE DEF Index!store, Index!worker, Index!hist
<1>1. CASE Index!StartWorker(t)
  BY <1>1 DEF IndexTyped, WorkerTyped, BatchTyped, RowsTyped, TabTyped, KeyOf, WipedOf,
     SealOf, Fits, Numbers, Index!In, Seals, Batches, Index!StartWorker
<1>2. CASE Index!Hydrated(t)
  <2>1. sealing[t] = Index!NoSeal /\ sealing' = sealing
    BY <1>2 DEF Index!Hydrated, Fits
  <2> QED
    BY <2>1 DEF SealOf, Index!NoSeal
<1>3. ASSUME NEW d \in Index!Doc, Index!Index(t, d)  PROVE SealOf(t)'
  BY <1>3 DEF IndexTyped, WorkerTyped, BatchTyped, RowsTyped, TabTyped, KeyOf, WipedOf,
     SealOf, Fits, Numbers, Index!In, Seals, Batches, Index!Index
<1>4. CASE Index!TimerFires(t)
  BY <1>4 DEF IndexTyped, WorkerTyped, BatchTyped, RowsTyped, TabTyped, KeyOf, WipedOf,
     SealOf, Fits, Numbers, Index!In, Seals, Batches, Index!TimerFires, Index!NoBatch
<1>5. ASSUME NEW c \in Conv, Emptied(t, c)  PROVE SealOf(t)'
  BY <1>5 DEF IndexTyped, WorkerTyped, BatchTyped, RowsTyped, TabTyped, KeyOf, WipedOf, SealOf,
     Fits, Numbers, Index!In, Seals, Batches, Emptied, Went, Index!Exported, Index!NoBatch,
     Index!NoSeal
<1>6. ASSUME NEW c \in Conv, SealsNow(t, c)  PROVE SealOf(t)'
  <2> DEFINE docs == Index!Exported(t, c)
  <2>1. sealing'[t] = [conv |-> {c}, docs |-> docs, key |-> Index!Key(t)] /\ TookKey(t)
    BY <1>6 DEF SealsNow, SealBecame
  <2>2. UNCHANGED <<batch, core, dirty, mixed, wiping>> /\ c \in batch[t].rest
    BY <1>6 DEF SealsNow
  <2>3. batch[t].own => docs = Index!In(core[t], c) /\ docs # {}
    BY <1>6 DEF SealsNow, Index!Exported
  <2> HIDE DEF docs
  <2>4. sealing'[t].conv = {c} /\ sealing'[t].docs = docs /\ sealing'[t].key = Index!Key(t)
    BY <2>1
  <2>5. batch[t].own => core[t] # {}
    BY <2>3 DEF Index!In
  <2>6. ~mixed /\ batch[t].own => Index!Key(t) = meta'
    <3>1. ~mixed /\ batch[t].own => held[t] \in {0, meta}
      BY <2>5 DEF KeyOf, WipedOf
    <3> QED
      BY <2>1, <3>1 DEF TookKey, Index!Key, IndexTyped, RowsTyped
  <2> QED
    BY <2>2, <2>3, <2>4, <2>6 DEF SealOf, Index!In
<1>7. ASSUME NEW c \in Conv, Puts(t, c)  PROVE SealOf(t)'
  BY <1>7 DEF IndexTyped, WorkerTyped, BatchTyped, RowsTyped, TabTyped, KeyOf, WipedOf, SealOf,
     Fits, Numbers, Index!In, Seals, Batches, Puts, SealBecame, Went, Index!NoSeal, Index!NoBatch
<1>8. ASSUME NEW c \in Conv, PutsNot(t, c)  PROVE SealOf(t)'
  BY <1>8 DEF IndexTyped, WorkerTyped, BatchTyped, RowsTyped, TabTyped, KeyOf, WipedOf, SealOf,
     Fits, Numbers, Index!In, Seals, Batches, PutsNot, SealBecame, Went, Index!NoSeal,
     Index!NoBatch
<1>9. ASSUME NEW c \in Conv, Forgets(t, c)  PROVE SealOf(t)'
  BY <1>9 DEF IndexTyped, WorkerTyped, BatchTyped, RowsTyped, TabTyped, KeyOf, WipedOf,
     SealOf, Fits, Numbers, Index!In, Seals, Batches, Forgets
<1>10. CASE Wipes(t)
  BY <1>10 DEF IndexTyped, WorkerTyped, BatchTyped, RowsTyped, TabTyped, KeyOf, WipedOf,
     SealOf, Fits, Numbers, Index!In, Seals, Batches, Wipes
<1>11. CASE Index!KeyCleared(t)
  BY <1>11 DEF IndexTyped, WorkerTyped, BatchTyped, RowsTyped, TabTyped, KeyOf, WipedOf,
     SealOf, Fits, Numbers, Index!In, Seals, Batches, Index!KeyCleared
<1>12. CASE Index!CloseTab(t)
  BY <1>12 DEF IndexTyped, WorkerTyped, BatchTyped, RowsTyped, TabTyped, KeyOf, WipedOf,
     SealOf, Fits, Numbers, Index!In, Seals, Batches, Index!CloseTab, Index!NoBatch, Index!NoSeal
<1>13. CASE UNCHANGED <<mixed, batch, sealing, meta, core, dirty>>
  BY <1>13 DEF IndexTyped, WorkerTyped, BatchTyped, RowsTyped, TabTyped, KeyOf, WipedOf, SealOf,
     Numbers
<1>14. \/ Index!StartWorker(t) \/ Index!Hydrated(t) \/ (\E d \in Index!Doc : Index!Index(t, d))
            \/ Index!TimerFires(t)
     \/ (\E c \in Conv : Emptied(t, c)) \/ (\E c \in Conv : SealsNow(t, c))
     \/ (\E c \in Conv : Puts(t, c)) \/ (\E c \in Conv : PutsNot(t, c))
     \/ (\E c \in Conv : Forgets(t, c)) \/ Wipes(t) \/ Index!KeyCleared(t) \/ Index!CloseTab(t)
     \/ UNCHANGED <<mixed, batch, sealing, meta, core, dirty>>
  BY DEF IndexEffect, Index!OpenPage, Index!HydrateFails, Index!AskShred, Index!AskWipe,
     Index!WipeEnds
<1> QED
  BY <1>1, <1>2, <1>3, <1>4, <1>5, <1>6, <1>7, <1>8, <1>9, <1>10, <1>11, <1>12, <1>13, <1>14

\* Whatever the index answers with can be read back, or is yet to be saved.
LEMMA SavedOfKept ==
  ASSUME NEW t \in Tab, IndexTyped, Fits(t), KeyOf(t), ReadOf(t), WipedOf(t), OldOf(t),
         SealOf(t), SavedOf(t), Numbered, Sorted, IndexEffect(t)
  PROVE  SavedOf(t)'
<1> USE DEF Index!store, Index!worker, Index!hist
<1>1. CASE Index!StartWorker(t)
  BY <1>1 DEF IndexTyped, WorkerTyped, BatchTyped, RowsTyped, TabTyped, KeyOf, ReadOf, WipedOf,
     OldOf, SealOf, SavedOf, Numbered, Sorted, Index!Readable, Index!In, Seals, Batches, Rows,
     Index!StartWorker
<1>2. CASE Index!Hydrated(t)
  <2>1. SUFFICES ASSUME ~mixed, NEW d \in core'[t]  PROVE d \in Index!Readable'
    BY <1>2 DEF Index!Hydrated, SavedOf
  <2>2. read[t] = rows /\ held[t] = 0 /\ Index!TakeKey(t)
    BY <1>2, <2>1 DEF Index!Hydrated, ReadOf, Fits
  <2>3. meta' = Index!Key(t)
    BY <2>2, KeyIsTaken DEF TookKey, Index!Key, IndexTyped, RowsTyped
  <2>4. /\ core'[t] = UNION {rows[c].docs : c \in {x \in Conv : rows[x].key = Index!Key(t)}}
        /\ rows' = [c \in Conv |-> IF rows[c].key \in {0, Index!Key(t)} THEN rows[c] ELSE Index!NoRow]
    BY <1>2, <2>2 DEF Index!Hydrated, IndexTyped, WorkerTyped
  <2>5. PICK c \in Conv : rows[c].key = Index!Key(t) /\ d \in rows[c].docs
    BY <2>4
  <2>6. rows'[c] = rows[c]
    BY <2>4, <2>5
  <2> QED
    BY <2>3, <2>5, <2>6 DEF Index!Readable
<1>3. ASSUME NEW d \in Index!Doc, Index!Index(t, d)  PROVE SavedOf(t)'
  BY <1>3 DEF IndexTyped, WorkerTyped, BatchTyped, RowsTyped, TabTyped, KeyOf, ReadOf, WipedOf,
     OldOf, SealOf, SavedOf, Numbered, Sorted, Index!Readable, Index!In, Seals, Batches, Rows,
     Index!Index
<1>4. CASE Index!TimerFires(t)
  BY <1>4 DEF IndexTyped, WorkerTyped, BatchTyped, RowsTyped, TabTyped, KeyOf, ReadOf, WipedOf,
     OldOf, SealOf, SavedOf, Numbered, Sorted, Index!Readable, Index!In, Seals, Batches, Rows,
     Index!TimerFires, Index!NoBatch
<1>5. ASSUME NEW c \in Conv, Emptied(t, c)  PROVE SavedOf(t)'
  <2>1. SUFFICES ASSUME ~mixed, NEW d \in core[t] \ gone
                 PROVE  d \in Index!Readable' \/ d.conv \in dirty[t] \cup batch'[t].rest
    BY <1>5 DEF Emptied, SavedOf
  <2>2. d \in Index!Readable \/ d.conv \in dirty[t] \cup batch[t].rest
    BY <2>1 DEF SavedOf
  <2>3. batch'[t].rest = batch[t].rest \ {c} /\ RowBecame(c, Index!NoRow) /\ meta' = meta
    BY <1>5 DEF Emptied, Went
  <2>4. CASE d.conv = c
    <3>1. ~batch[t].own
      BY <1>5, <2>4 DEF Emptied, Index!Exported, Index!In
    <3> QED
      BY <2>1, <3>1 DEF OldOf
  <2>5. CASE d.conv # c
    BY <2>2, <2>3, <2>5, RowReads
  <2> QED
    BY <2>4, <2>5
<1>6. ASSUME NEW c \in Conv, SealsNow(t, c)  PROVE SavedOf(t)'
  <2>1. SUFFICES ASSUME ~mixed, NEW d \in core[t] \ gone
                 PROVE  d \in Index!Readable' \/ d.conv \in dirty[t] \cup batch[t].rest
    BY <1>6 DEF SealsNow, SavedOf
  <2>2. d \in Index!Readable \/ d.conv \in dirty[t] \cup batch[t].rest
    BY <2>1 DEF SavedOf
  <2>3. rows' = rows /\ (meta' = meta \/ meta = 0)
    BY <1>6 DEF SealsNow, TookKey
  <2>4. meta = 0 => Index!Readable = {}
    BY DEF Index!Readable, Numbered, NumberedRows
  <2>5. meta' = meta => Index!Readable' = Index!Readable
    BY <2>3 DEF Index!Readable
  <2> QED
    BY <2>2, <2>3, <2>4, <2>5
<1>7. ASSUME NEW c \in Conv, Puts(t, c)  PROVE SavedOf(t)'
  <2> DEFINE r == [docs |-> sealing[t].docs, key |-> sealing[t].key]
  <2>1. SUFFICES ASSUME ~mixed, NEW d \in core[t] \ gone
                 PROVE  d \in Index!Readable' \/ d.conv \in dirty[t] \cup batch'[t].rest
    BY <1>7 DEF Puts, SavedOf
  <2>2. d \in Index!Readable \/ d.conv \in dirty[t] \cup batch[t].rest
    BY <2>1 DEF SavedOf
  <2>3. batch'[t].rest = batch[t].rest \ {c} /\ RowBecame(c, r) /\ meta' = meta
    BY <1>7 DEF Puts, Went
  <2>4. ASSUME d.conv = c, batch[t].own, c \notin dirty[t]  PROVE d \in Index!Readable'
    <3>1. sealing[t].key = meta /\ Index!In(core[t], c) \subseteq sealing[t].docs
      BY <1>7, <2>1, <2>4 DEF Puts, SealOf, Index!NoSeal
    <3>2. r.key = meta /\ d \in r.docs
      BY <2>1, <2>4, <3>1 DEF Index!In
    <3> HIDE DEF r
    <3> QED
      BY <2>3, <3>2, RowReads
  <2>5. d.conv = c /\ ~batch[t].own => d.conv \in dirty[t]
    BY <2>1 DEF OldOf
  <2>6. CASE d.conv # c
    BY <2>2, <2>3, <2>6, RowReads
  <2> QED
    BY <2>4, <2>5, <2>6
<1>8. ASSUME NEW c \in Conv, PutsNot(t, c)  PROVE SavedOf(t)'
  BY <1>8 DEF IndexTyped, WorkerTyped, BatchTyped, RowsTyped, TabTyped, KeyOf, ReadOf, WipedOf,
     OldOf, SealOf, SavedOf, Numbered, Sorted, Index!Readable, Index!In, Seals, Batches, Rows,
     PutsNot, Went, Index!NoBatch
<1>9. ASSUME NEW c \in Conv, Forgets(t, c)  PROVE SavedOf(t)'
  <2>1. SUFFICES ASSUME ~mixed, NEW d \in core'[t] \ gone'
                 PROVE  d \in Index!Readable' \/ d.conv \in dirty'[t] \cup batch[t].rest
    BY <1>9 DEF Forgets, SavedOf
  <2>2. d \in core[t] \ gone /\ d.conv # c
    BY <1>9, <2>1 DEF Forgets, Index!In
  <2>3. d \in Index!Readable \/ d.conv \in dirty[t] \cup batch[t].rest
    BY <2>1, <2>2 DEF SavedOf
  <2>4. (RowBecame(c, Index!NoRow) \/ UNCHANGED rows) /\ meta' = meta /\ dirty'[t] = dirty[t] \ {c}
    BY <1>9 DEF Forgets
  <2>5. rows' = rows => Index!Readable' = Index!Readable
    BY <2>4 DEF Index!Readable
  <2> QED
    BY <2>2, <2>3, <2>4, <2>5, RowReads
<1>10. CASE Wipes(t)
  BY <1>10 DEF IndexTyped, WorkerTyped, BatchTyped, RowsTyped, TabTyped, KeyOf, ReadOf, WipedOf,
     OldOf, SealOf, SavedOf, Numbered, Sorted, Index!Readable, Index!In, Seals, Batches, Rows,
     Wipes, Index!NoRows, Index!NoRow
<1>11. CASE Index!KeyCleared(t)
  BY <1>11 DEF IndexTyped, WorkerTyped, BatchTyped, RowsTyped, TabTyped, KeyOf, ReadOf, WipedOf,
     OldOf, SealOf, SavedOf, Numbered, Sorted, Index!Readable, Index!In, Seals, Batches, Rows,
     Index!KeyCleared
<1>12. CASE Index!CloseTab(t)
  BY <1>12 DEF IndexTyped, WorkerTyped, BatchTyped, RowsTyped, TabTyped, KeyOf, ReadOf, WipedOf,
     OldOf, SealOf, SavedOf, Numbered, Sorted, Index!Readable, Index!In, Seals, Batches, Rows,
     Index!CloseTab, Index!NoRows, Index!NoRow, Index!NoBatch
<1>13. CASE UNCHANGED <<mixed, core, gone, rows, meta, dirty, batch>>
  BY <1>13 DEF IndexTyped, WorkerTyped, BatchTyped, RowsTyped, TabTyped, KeyOf, ReadOf, WipedOf,
     OldOf, SealOf, SavedOf, Numbered, Sorted, Index!Readable
<1>14. \/ Index!StartWorker(t) \/ Index!Hydrated(t) \/ (\E d \in Index!Doc : Index!Index(t, d))
            \/ Index!TimerFires(t)
     \/ (\E c \in Conv : Emptied(t, c)) \/ (\E c \in Conv : SealsNow(t, c))
     \/ (\E c \in Conv : Puts(t, c)) \/ (\E c \in Conv : PutsNot(t, c))
     \/ (\E c \in Conv : Forgets(t, c)) \/ Wipes(t) \/ Index!KeyCleared(t) \/ Index!CloseTab(t)
     \/ UNCHANGED <<mixed, core, gone, rows, meta, dirty, batch>>
  BY DEF IndexEffect, Index!OpenPage, Index!HydrateFails, Index!AskShred, Index!AskWipe,
     Index!WipeEnds
<1> QED
  BY <1>1, <1>2, <1>3, <1>4, <1>5, <1>6, <1>7, <1>8, <1>9, <1>10, <1>11, <1>12, <1>13, <1>14

-----------------------------------------------------------------------------
(* The invariant, and the theorems.                                        *)

\* What keeps a wiped or shredded document from coming back, ...
Lasting == IndexTyped /\ Sorted /\ Phased /\ Dated /\ Gone /\ Numbered /\ OneWipe
\* ... and what keeps an indexed one from being lost.
Saving == /\ OneWorker /\ CurrentKey /\ ReadCurrent /\ WipedCore /\ OldBatch /\ SealCurrent
          /\ Index!SavedOrDirty
IInv == Lasting /\ Saving

LEMMA SavedIsSaved == Index!SavedOrDirty <=> \A t \in Tab : SavedOf(t)
BY DEF Index!SavedOrDirty, SavedOf

LEMMA InitIInv == ASSUME Index!Init  PROVE IInv
<1>1. IndexTyped
  <2>1. Index!NoRows \in Rows /\ Index!NoBatch \in Batches /\ Index!NoSeal \in Seals
    BY DEF Rows, Batches, Seals, Index!NoRows, Index!NoRow, Index!NoBatch, Index!NoSeal
  <2>2. RowsTyped /\ CountTyped /\ TabTyped /\ GoneTyped
    <3>1. MaxEra \in Nat /\ MaxEra # 0 /\ MaxSnapshotKeys \in Nat /\ MaxRejected \in Nat
            /\ MaxCloses \in Nat
      OBVIOUS
    <3>2. CountTyped
      <4>1. era = 1 /\ rejected = 0 /\ closes = 0 /\ mixed = FALSE
        BY DEF Index!Init
      <4>2. era \in 1..MaxEra /\ rejected \in 0..MaxRejected /\ closes \in 0..MaxCloses
        BY <3>1, <4>1
      <4> QED
        BY <4>1, <4>2 DEF CountTyped
    <3>3. RowsTyped /\ TabTyped /\ GoneTyped
      BY <2>1, <3>1 DEF Index!Init, RowsTyped, TabTyped, GoneTyped
    <3> QED
      BY <3>2, <3>3
  <2>3. WorkerTyped /\ BatchTyped
    BY <2>1 DEF Index!Init, WorkerTyped, BatchTyped
  <2> QED
    BY <2>2, <2>3 DEF IndexTyped
<1>2. Sorted /\ Phased /\ Numbered
  BY DEF Index!Init, Sorted, SortedRows, SortedSeal, Phased, Fits, Numbered, NumberedRows, Numbers,
     Index!NoRows, Index!NoRow, Index!NoBatch, Index!NoSeal
<1>3. Dated /\ Gone /\ OneWipe
  BY DEF Index!Init, Dated, DatedPage, Index!Doc, Gone, OneWipe
<1>4. OneWorker /\ CurrentKey /\ ReadCurrent /\ WipedCore /\ OldBatch /\ SealCurrent
  BY DEF Index!Init, OneWorker, CurrentKey, KeyOf, ReadCurrent, ReadOf, WipedCore, WipedOf,
     OldBatch, OldOf, SealCurrent, SealOf, Index!NoSeal
<1>5. Index!SavedOrDirty
  BY DEF Index!Init, Index!SavedOrDirty
<1> QED
  BY <1>1, <1>2, <1>3, <1>4, <1>5 DEF IInv, Lasting, Saving

\* A step of one tab keeps what another's worker relies on.
LEMMA OthersHold ==
  ASSUME NEW u \in Tab, IndexTyped, IInv, Same(u), Aside(u)
  PROVE  (KeyOf(u) /\ ReadOf(u) /\ WipedOf(u) /\ OldOf(u) /\ SealOf(u) /\ SavedOf(u))'
<1>1. KeyOf(u) /\ ReadOf(u) /\ WipedOf(u) /\ OldOf(u) /\ SealOf(u) /\ SavedOf(u) /\ Fits(u)
  BY SavedIsSaved
     DEF IInv, Lasting, Saving, CurrentKey, ReadCurrent, WipedCore, OldBatch, SealCurrent, Phased
<1>2. (WipedOf(u) /\ OldOf(u))'
  BY <1>1 DEF Same, WipedOf, OldOf
<1>3. CASE mixed'
  BY <1>2, <1>3 DEF KeyOf, ReadOf, SealOf, SavedOf
<1>4. CASE WorkerOff(u)
  <2>1. core[u] = {} /\ held[u] = 0 /\ sealing[u] = Index!NoSeal /\ phase[u] = "off"
    BY <1>1, <1>4 DEF Fits, WorkerOff
  <2>2. (KeyOf(u) /\ ReadOf(u))'
    BY <2>1 DEF Same, KeyOf, ReadOf
  <2>3. (SealOf(u) /\ SavedOf(u))'
    BY <2>1 DEF Same, SealOf, SavedOf, Index!NoSeal
  <2> QED
    BY <1>2, <2>2, <2>3
<1>5. CASE ~mixed /\ UNCHANGED <<rows, meta, gone>>
  <2>1. Index!Readable' = Index!Readable
    BY <1>5 DEF Index!Readable
  <2>2. (KeyOf(u) /\ ReadOf(u) /\ SealOf(u))'
    BY <1>1, <1>5 DEF Same, KeyOf, ReadOf, SealOf
  <2>3. SavedOf(u)'
    BY <1>1, <1>5, <2>1 DEF Same, SavedOf
  <2> QED
    BY <1>2, <2>2, <2>3
<1> QED
  BY <1>3, <1>4, <1>5 DEF Aside

\* What is gone is where it was late, whichever tab shredded or wiped it.
LEMMA OthersGone ==
  ASSUME NEW t \in Tab, NEW u \in Tab \ {t}, IndexTyped, Gone, Same(u), IndexEffect(t)
  PROVE  (Held(u) \cap gone \subseteq late)'
<1>1. Held(u)' = Held(u)
  BY DEF Same, Held, Index!RowDocs
<1>2. Held(u) \subseteq Index!Elsewhere(t)
  BY DEF Held, Index!Elsewhere
<1>3. Held(u) \cap gone \subseteq late
  BY DEF Gone
<1>4. ASSUME NEW c \in Conv, Forgets(t, c)
      PROVE late \subseteq late' /\ Index!Elsewhere(t) \cap gone' \subseteq gone \cup late'
  BY <1>4 DEF Forgets
<1>5. CASE Wipes(t)
  <2>1. late \subseteq late' /\ Index!Elsewhere(t) \cap gone' \subseteq gone \cup late'
    BY <1>5 DEF Wipes
  <2> QED
    BY <1>1, <1>2, <1>3, <2>1
<1>6. CASE UNCHANGED <<gone, late>>
  BY <1>1, <1>3, <1>6
<1>7. (\E c \in Conv : Forgets(t, c)) \/ Wipes(t) \/ UNCHANGED <<gone, late>>
  BY DEF IndexEffect, Index!OpenPage, Index!StartWorker, Index!Hydrated, Index!HydrateFails,
     Index!Index, Index!TimerFires, Emptied, SealsNow, Puts, PutsNot, Index!AskShred,
     Index!AskWipe, Index!KeyCleared, Index!WipeEnds, Index!CloseTab, Index!hist
<1> QED
  BY <1>1, <1>2, <1>3, <1>4, <1>5, <1>6, <1>7

LEMMA EffectKeepsTyped ==
  ASSUME NEW t \in Tab, IInv, IndexEffect(t)
  PROVE  (IndexTyped /\ OneWipe)'
BY RowsTypedKept, CountTypedKept, TabTypedKept, WorkerTypedKept, BatchTypedKept, GoneTypedKept,
   OneWipeKept DEF IndexTyped, IInv, Lasting

LEMMA EffectKeepsLasting ==
  ASSUME NEW t \in Tab, IInv, IndexEffect(t)
  PROVE  (Sorted /\ Phased /\ Dated /\ Gone /\ Numbered)'
<1> USE DEF IInv, Lasting, Saving
<1>1. \A u \in Tab \ {t} : Same(u)
  BY OthersKept
<1>2. Sorted'
  <2>1. ASSUME NEW u \in Tab \ {t}  PROVE (SortedRows(read[u]) /\ SortedSeal(u))'
    <3>1. SortedRows(read[u]) /\ SortedSeal(u)
      BY DEF Sorted
    <3> QED
      BY <1>1, <3>1 DEF Same, SortedRows, SortedSeal
  <2> QED
    BY <2>1, RowsSortedKept, WorkerSortedKept DEF Sorted
<1>3. Phased'
  <2>1. ASSUME NEW u \in Tab \ {t}  PROVE Fits(u)'
    <3>1. Fits(u)
      BY DEF Phased
    <3> QED
      BY <1>1, <3>1 DEF Same, Fits
  <2>2. Fits(t)'
    BY FitsKept DEF Phased
  <2> QED
    BY <2>1, <2>2 DEF Phased
<1>4. Dated'
  BY DatedKept
<1>5. Gone'
  <2>1. ASSUME NEW u \in Tab \ {t}  PROVE (Held(u) \cap gone \subseteq late)'
    BY <1>1, OthersGone
  <2> QED
    BY <2>1, RowsGoneKept, HeldGoneKept DEF Gone
<1>6. Numbered'
  <2>1. (meta <= snapshotKeys /\ NumberedRows(rows))' /\ snapshotKeys <= snapshotKeys'
          /\ Numbers(t)'
    BY RowsNumberedKept, WorkerNumberedKept
  <2>2. ASSUME NEW u \in Tab \ {t}  PROVE Numbers(u)'
    <3>1. Numbers(u) /\ IndexTyped'
      BY EffectKeepsTyped DEF Numbered
    <3> QED
      BY <1>1, <2>1, <3>1 DEF Same, Numbers, NumberedRows, IndexTyped, RowsTyped, WorkerTyped,
         BatchTyped, Rows, Seals
  <2> QED
    BY <2>1, <2>2 DEF Numbered
<1> QED
  BY <1>2, <1>3, <1>4, <1>5, <1>6

LEMMA EffectKeepsSaving ==
  ASSUME NEW t \in Tab, IInv, IndexEffect(t)
  PROVE  Saving'
<1>1. Lasting /\ Saving /\ IndexTyped
  BY DEF IInv, Lasting
<1>2. /\ Fits(t) /\ DatedPage(t) /\ Numbers(t)
      /\ KeyOf(t) /\ ReadOf(t) /\ WipedOf(t) /\ OldOf(t) /\ SealOf(t) /\ SavedOf(t)
  BY <1>1, SavedIsSaved DEF Lasting, Saving, Phased, Dated, Numbered, CurrentKey, ReadCurrent,
     WipedCore, OldBatch, SealCurrent
<1>3. OneWorker'
  BY <1>1, OneWorkerKept DEF Lasting, Saving
<1>4. (KeyOf(t) /\ ReadOf(t) /\ WipedOf(t) /\ OldOf(t) /\ SealOf(t))'
  BY <1>1, <1>2, KeyOfKept, ReadOfKept, WipedOfKept, OldOfKept, SealOfKept DEF Lasting
<1>5. SavedOf(t)'
  BY <1>1, <1>2, SavedOfKept DEF Lasting
<1>6. \A u \in Tab \ {t} : (KeyOf(u) /\ ReadOf(u) /\ WipedOf(u) /\ OldOf(u) /\ SealOf(u)
        /\ SavedOf(u))'
  BY <1>1, OthersKept, OthersHold DEF Lasting, Saving
<1>7. (CurrentKey /\ ReadCurrent /\ WipedCore /\ OldBatch /\ SealCurrent)'
  BY <1>4, <1>6 DEF CurrentKey, ReadCurrent, WipedCore, OldBatch, SealCurrent
<1>8. Index!SavedOrDirty'
  BY <1>5, <1>6 DEF Index!SavedOrDirty, SavedOf
<1> QED
  BY <1>3, <1>7, <1>8 DEF Saving

LEMMA NextIInv == ASSUME IInv, [Index!Next]_(Index!vars)  PROVE IInv'
<1>1. ASSUME NEW t \in Tab, IndexActs(t)  PROVE IInv'
  <2>1. IndexEffect(t)
    BY <1>1, ActsAreEffects DEF IInv, Lasting
  <2> QED
    BY <2>1, EffectKeepsTyped, EffectKeepsLasting, EffectKeepsSaving DEF IInv, Lasting
<1>2. CASE UNCHANGED Index!vars
  <2>1. Lasting'
    BY <1>2 DEF Index!vars, Index!store, Index!worker, Index!hist, IInv, Lasting, IndexTyped,
       RowsTyped, CountTyped, TabTyped, WorkerTyped, BatchTyped, GoneTyped, Sorted, SortedRows,
       SortedSeal, Phased, Fits, Dated, DatedPage, Gone, Held, Index!RowDocs, Numbered,
       NumberedRows, Numbers, OneWipe
  <2>2. Saving'
    BY <1>2 DEF Index!vars, Index!store, Index!worker, Index!hist, IInv, Saving, OneWorker,
       CurrentKey, KeyOf, ReadCurrent, ReadOf, WipedCore, WipedOf, OldBatch, OldOf, SealCurrent,
       SealOf, Index!SavedOrDirty, Index!Readable
  <2> QED
    BY <2>1, <2>2 DEF IInv
<1> QED
  BY <1>1, <1>2 DEF Index!Next, IndexActs

LEMMA IInvAlways == Index!Spec => []IInv
<1>1. Index!Init => IInv
  BY InitIInv
<1>2. IInv /\ [Index!Next]_(Index!vars) => IInv'
  BY NextIInv
<1> QED
  BY <1>1, <1>2, PTL DEF Index!Spec

\* What was shredded or wiped is in no index and no readable snapshot again, unless a batch,
\* another tab or a rejected request had it at that moment (snapshotStore.ts:83-88).
THEOREM NothingComesBackAlways == Index!Spec => []Index!NothingComesBack
<1>1. IInv => Index!NothingComesBack
  <2> SUFFICES ASSUME Gone  PROVE Index!NothingComesBack
    BY DEF IInv, Lasting
  <2>1. Index!Readable \subseteq Index!RowDocs(rows)
    BY DEF Index!Readable, Index!RowDocs
  <2>2. \A t \in Tab : core[t] \subseteq Held(t)
    BY DEF Held
  <2> QED
    BY <2>1, <2>2 DEF Gone, Index!NothingComesBack
<1> QED
  BY <1>1, IInvAlways, PTL

\* The index, the batches and the snapshots keep their types, and while one worker is at work
\* what it answers with opens from a snapshot or is about to be saved (search.worker.ts:39-55).
THEOREM IndexSoundAlways == Index!Spec => []Index!IndexSound
<1>1. IInv => Index!TypeOK
  <2> SUFFICES ASSUME Lasting  PROVE Index!TypeOK
    BY DEF IInv
  <2> USE DEF Lasting, IndexTyped
  <2>1. snapshotKeys \in Nat /\ MaxSnapshotKeys \in Nat
    BY DEF RowsTyped
  <2>2. Index!RowType(rows) /\ \A t \in Tab : Index!RowType(read[t])
    BY <2>1 DEF Index!RowType, Sorted, SortedRows, Numbered, Numbers, NumberedRows, RowsTyped,
       WorkerTyped, Rows
  <2>3. meta \in 0..snapshotKeys /\ held \in [Tab -> 0..snapshotKeys]
    BY <2>1 DEF Numbered, Numbers, RowsTyped, WorkerTyped
  <2>4. shown \in [Tab -> 0..era]
    BY DEF Dated, DatedPage, TabTyped, CountTyped
  <2>5. ASSUME NEW t \in Tab
        PROVE /\ batch[t].rest \subseteq Conv /\ batch[t].docs \subseteq Index!Doc
              /\ sealing[t].conv \subseteq batch[t].rest
              /\ \A c \in sealing[t].conv : sealing[t].docs \subseteq Index!In(Index!Doc, c)
                   /\ sealing[t].docs # {}
              /\ phase[t] # "on" => core[t] \cup dirty[t] \cup batch[t].rest = {}
              /\ wiping[t] # "no" => asked[t] = "wipe"
    <3>1. Fits(t) /\ SortedSeal(t) /\ batch[t] \in Batches
      BY DEF Phased, Sorted, BatchTyped
    <3>2. batch[t].rest \subseteq Conv /\ batch[t].docs \subseteq Index!Doc
            /\ sealing[t].conv \subseteq batch[t].rest
      BY <3>1 DEF Fits, Batches
    <3>3. \A c \in sealing[t].conv : sealing[t].docs \subseteq Index!In(Index!Doc, c)
            /\ sealing[t].docs # {}
      BY <3>1 DEF Fits, SortedSeal, Index!NoSeal
    <3>4. phase[t] # "on" => core[t] \cup dirty[t] \cup batch[t].rest = {}
      BY <3>1 DEF Fits, Index!NoBatch
    <3>5. wiping[t] # "no" => asked[t] = "wipe"
      BY <3>1 DEF Fits
    <3> QED
      BY <3>2, <3>3, <3>4, <3>5
  <2> QED
    BY <2>2, <2>3, <2>4, <2>5 DEF Index!TypeOK, RowsTyped, CountTyped, TabTyped, WorkerTyped,
       GoneTyped
<1>2. IInv => Index!SavedOrDirty
  BY DEF IInv, Saving
<1> QED
  BY <1>1, <1>2, IInvAlways, PTL DEF Index!IndexSound

-----------------------------------------------------------------------------
(* Keys and index together.                                                *)

\* A browser does what its keys may do, and what its index may do.
LEMMA BothBehave == BrowserSpec => Spec /\ Index!Spec
<1>1. InitBrowser => Init /\ Index!Init
  BY DEF InitBrowser
<1>2. [NextBrowser]_<<scene, vars, index>> => [Next]_vars
  BY DEF NextBrowser
<1>3. [NextBrowser]_<<scene, vars, index>> => [Index!Next]_(Index!vars)
  BY DEF NextBrowser, index, Index!vars, Index!store, Index!worker, Index!hist
<1> QED
  BY <1>1, <1>2, <1>3, PTL DEF BrowserSpec, Spec, Index!Spec

\* Whatever a browser does, what its stores hold is of its type and fits: a stored identity
\* can be read, and a document the index answers with is never only in memory.
THEOREM StoresSoundAlways == BrowserSpec => []StoresSound
<1>1. KeysSound /\ Index!IndexSound => StoresSound
  BY DEF StoresSound
<1> QED
  BY <1>1, BothBehave, KeysSoundAlways, IndexSoundAlways, PTL

\* Nor does a search find what was shredded or wiped.
THEOREM NothingComesBackInBrowser == BrowserSpec => []NothingComesBack
<1>1. Index!NothingComesBack => NothingComesBack
  BY DEF NothingComesBack
<1> QED
  BY <1>1, BothBehave, NothingComesBackAlways, PTL
=============================================================================
