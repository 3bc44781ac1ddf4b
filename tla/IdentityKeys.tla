---------------------------- MODULE IdentityKeys ----------------------------
(***************************************************************************)
(* The identity of an account: made in a tab, kept in that browser's key   *)
(* store, published in the server's directory, sealed into a backup under  *)
(* a recovery code that is shown once, and pinned by a contact.            *)
(*                                                                         *)
(* Two tabs of the account, of one browser or of two, go through the gate  *)
(* (set up, restore, reset) step by step; requests fail, or are carried out*)
(* although their answer is lost; tabs are closed and the page is left at  *)
(* any moment. The contact fetches the directory, decrypts first messages  *)
(* and compares safety numbers meanwhile. Identity n is born with recovery *)
(* code n. Left out: the sessions inside a backup (ChainSessions), the     *)
(* signed prekey, clearing site data by hand.                              *)
(***************************************************************************)
EXTENDS Naturals, FiniteSets

CONSTANTS
  Tab,       \* tabs of the account
  Browser,   \* browsers they may be in
  MaxIds,    \* bound: identities generated
  MaxKeys,   \* bound: wrapping keys generated
  MaxFails   \* bound: failed requests, closed tabs and left pages

ASSUME IdentityKeysAssumption == {MaxIds, MaxKeys, MaxFails} \subseteq Nat

VARIABLES
  home,      \* the browser of each tab
  store,     \* CipherChatKeys of each browser: wrapping key, identity, backup key
  published, \* the account's identity in the directory
  blob,      \* the backup on the server: the identity in it, the code it opens with
  made,      \* identities generated so far
  keys,      \* wrapping keys generated so far
  fails,     \* failures so far
  svc,       \* E2EEService.status of each tab: its state, and the identity when ready
  ui,        \* useE2EE's status in each tab
  gate,      \* E2EESetupGate in each tab: view, code on display, savedAck
  job,       \* what each tab is awaiting
  kept,      \* recovery codes the user acknowledged to have saved
  torn,      \* history: identities whose set-up never came to its end
  halved,    \* history: browsers that saved an identity, and not or not yet its backup key
  overlap,   \* history: a set-up ran while another tab was active
  stale,     \* history: a halved browser has renewed the backup
  pin,       \* the contact's pin of this account
  check,     \* the contact's checkPeerIdentity under way
  modal,     \* the contact's SafetyNumberModal
  sent,      \* identities first messages may have been sent under
  vetted     \* history: identities whose number was compared, or that were pinned
             \* while another one's number was on display

server == <<published, blob, made, keys>>
tabs   == <<svc, sent, ui, gate, job>>
hist   == <<kept, torn, halved, overlap, stale>>
peer   == <<pin, check, modal, vetted>>
vars   == <<home, store, server, fails, tabs, hist, peer>>

Id == 1..MaxIds
MaybeId == 0..MaxIds
Idle == [at |-> "idle", kind |-> "none", id |-> 0, key |-> 0, code |-> 0, seen |-> TRUE]
Intro == [view |-> "intro", code |-> 0, ack |-> FALSE]
EmptyStore == [wk |-> 0, id |-> 0, under |-> 0, code |-> 0]
NoService == [state |-> "unset", id |-> 0]
Closed == [at |-> "closed", id |-> 0, verified |-> FALSE, mark |-> 0]
NoCheck == [why |-> "none", ed |-> 0, claim |-> 0]
Unpinned == [id |-> 0, verified |-> FALSE]

\* generateRecoveryCode: a code of its own for every identity made; only the code a blob
\* was sealed under derives the key that opens it.
CodeOf(id) == id
UnlockedBy(code) == blob.id # 0 /\ blob.code = code

Status == {"ready", "needs-setup", "needs-restore-or-reset", "unavailable"}
Step == {"idle", "ask", "told", "republish", "wipe", "wiped", "key", "putKey", "putRow",
         "publish", "load", "upload", "material", "fetch"}

TypeOK ==
  /\ home \in [Tab -> Browser]
  /\ store \in [Browser -> [wk : 0..MaxKeys, id : MaybeId, under : 0..MaxKeys, code : MaybeId]]
  /\ published \in 0..made
  /\ blob \in [id : 0..made, code : 0..made]
  /\ made \in MaybeId /\ keys \in 0..MaxKeys /\ fails \in 0..MaxFails
  /\ svc \in [Tab -> [state : Status \cup {"unset"}, id : MaybeId]]
  /\ \A t \in Tab : svc[t].state = "ready" <=> svc[t].id # 0
  /\ ui \in [Tab -> Status \cup {"away", "loading"}]
  /\ gate \in [Tab -> [view : {"intro", "restore", "reset-confirm", "show-code"},
                       code : MaybeId, ack : BOOLEAN]]
  /\ \A t \in Tab : gate[t].view = "show-code" => gate[t].code # 0
  /\ job \in [Tab -> [at : Step, kind : {"none", "check", "setup", "reset", "restore"},
                      id : MaybeId, key : 0..MaxKeys, code : MaybeId, seen : BOOLEAN]]
  /\ kept \subseteq Id /\ torn \subseteq Id /\ halved \subseteq Browser /\ {overlap, stale} \subseteq BOOLEAN
  /\ pin \in [id : MaybeId, verified : BOOLEAN]
  /\ check \in [why : {"none", "send", "receive", "modal"}, ed : MaybeId, claim : MaybeId]
  /\ modal \in [at : {"closed", "loading", "shown"}, id : MaybeId, verified : BOOLEAN, mark : MaybeId]
  /\ sent \subseteq Id /\ vetted \subseteq Id

Init ==
  /\ home \in [Tab -> Browser]
  /\ store = [b \in Browser |-> EmptyStore]
  /\ published = 0 /\ blob = [id |-> 0, code |-> 0] /\ made = 0 /\ keys = 0 /\ fails = 0
  /\ svc = [t \in Tab |-> NoService] /\ ui = [t \in Tab |-> "away"]
  /\ gate = [t \in Tab |-> Intro] /\ job = [t \in Tab |-> Idle]
  /\ kept = {} /\ torn = {} /\ halved = {} /\ overlap = FALSE /\ stale = FALSE
  /\ pin = Unpinned /\ check = NoCheck /\ modal = Closed
  /\ sent = {} /\ vetted = {}

-----------------------------------------------------------------------------
(* Jobs of a tab. A set-up or a reset makes keys from its "key" step on.   *)

Here(t) == store[home[t]]
Making(t) == job[t].kind \in {"setup", "reset"}
Active(t) == job[t].at # "idle" \/ svc[t].state = "ready"
Crossed(t) == \E u \in Tab \ {t} : Making(u)
Go(t, at) == job' = [job EXCEPT ![t].at = at]
\* The identity is numbered when the button is pressed.
Start(t, kind, at) ==
  /\ made < MaxIds /\ made' = made + 1
  /\ job' = [job EXCEPT ![t] = [Idle EXCEPT !.at = at, !.kind = kind, !.id = made + 1]]
  /\ overlap' = (overlap \/ \E u \in Tab \ {t} : Active(u))
\* A tab that is ready may send first messages under its identity.
Settle(t, status, id) ==
  /\ svc' = [svc EXCEPT ![t] = [state |-> status, id |-> id]]
  /\ sent' = IF status = "ready" THEN sent \cup {id} ELSE sent
Show(t, status) == ui' = [ui EXCEPT ![t] = IF job[t].seen THEN status ELSE @]

\* ensureReady begins with the cached status, or with the identity in the store; an
\* identity wrapped under a key that is gone cannot be read.
BeginCheck(t) ==
  IF svc[t].state = "ready"
  THEN /\ ui' = [ui EXCEPT ![t] = "ready"]
       /\ job' = [job EXCEPT ![t] = Idle] /\ UNCHANGED <<svc, sent, overlap>>
  ELSE IF Here(t).id # 0 /\ Here(t).under # Here(t).wk
  THEN /\ ui' = [ui EXCEPT ![t] = "unavailable"] /\ Settle(t, "unavailable", 0)
       /\ job' = [job EXCEPT ![t] = Idle] /\ UNCHANGED overlap
  ELSE /\ ui' = [ui EXCEPT ![t] = "loading"]
       /\ job' = [job EXCEPT ![t] = [Idle EXCEPT !.at = "ask", !.kind = "check", !.id = Here(t).id]]
       /\ overlap' = (overlap \/ Crossed(t)) /\ UNCHANGED <<svc, sent>>

\* The page is mounted; after a reload the service starts empty.
OpenPage(t) ==
  /\ ui[t] = "away" /\ job[t].at = "idle"
  /\ gate' = [gate EXCEPT ![t] = Intro]
  /\ BeginCheck(t)
  /\ UNCHANGED <<home, store, server, fails, kept, torn, halved, stale, peer>>

\* GET /keys/me; job.code holds the identity the directory answered with.
Asked(t) ==
  /\ job[t].at = "ask"
  /\ job' = [job EXCEPT ![t].at = "told", ![t].code = published]
  /\ UNCHANGED <<home, store, server, fails, svc, sent, ui, gate, hist, peer>>

Verdict(local, ed) ==
  IF local = 0
  THEN IF ed = 0 THEN "needs-setup" ELSE "needs-restore-or-reset"
  ELSE IF ed = 0 THEN "republish" ELSE IF ed = local THEN "ready" ELSE "needs-restore-or-reset"

Taken(t, v) == IF v = "ready" THEN job[t].id ELSE 0

Decided(t) ==
  /\ job[t].at = "told"
  /\ LET v == Verdict(job[t].id, job[t].code) IN
     IF v = "republish"
     THEN Go(t, "republish") /\ UNCHANGED <<svc, sent, ui>>
     ELSE /\ Settle(t, v, Taken(t, v)) /\ Show(t, v)
          /\ job' = [job EXCEPT ![t] = Idle]
  /\ UNCHANGED <<home, store, server, fails, gate, hist, peer>>

Republished(t) ==
  /\ job[t].at = "republish"
  /\ published' = job[t].id
  /\ Settle(t, "ready", job[t].id) /\ Show(t, "ready")
  /\ job' = [job EXCEPT ![t] = Idle]
  /\ UNCHANGED <<home, store, blob, made, keys, fails, gate, hist, peer>>

-----------------------------------------------------------------------------
(* The gate's buttons.                                                     *)

Gated(t) == ui[t] \in {"needs-setup", "needs-restore-or-reset"} /\ job[t].at = "idle"

Turn(t, from, to) ==
  /\ Gated(t) /\ ui[t] = "needs-restore-or-reset" /\ gate[t].view = from
  /\ gate' = [gate EXCEPT ![t].view = to]
  /\ UNCHANGED <<home, store, server, fails, svc, sent, ui, job, hist, peer>>

Enable(t) ==
  /\ Gated(t) /\ ui[t] = "needs-setup" /\ gate[t].view # "show-code"
  /\ Start(t, "setup", "key")
  /\ UNCHANGED <<home, store, published, blob, keys, fails, svc, sent, ui, gate, kept, torn, halved, stale, peer>>

ConfirmReset(t) ==
  /\ Gated(t) /\ ui[t] = "needs-restore-or-reset" /\ gate[t].view = "reset-confirm"
  /\ Start(t, "reset", "wipe")
  /\ UNCHANGED <<home, store, published, blob, keys, fails, svc, sent, ui, gate, kept, torn, halved, stale, peer>>

\* submitRestore, with a code the user has.
SubmitRestore(t, c) ==
  /\ Gated(t) /\ ui[t] = "needs-restore-or-reset" /\ gate[t].view = "restore" /\ c \in kept
  /\ job' = [job EXCEPT ![t] = [Idle EXCEPT !.at = "fetch", !.kind = "restore", !.code = c]]
  /\ overlap' = (overlap \/ Crossed(t))
  /\ UNCHANGED <<home, store, server, fails, svc, sent, ui, gate, kept, torn, halved, stale, peer>>

AcknowledgeSaved(t) ==
  /\ gate[t].view = "show-code" /\ ~gate[t].ack
  /\ gate' = [gate EXCEPT ![t].ack = TRUE]
  /\ kept' = kept \cup {gate[t].code}
  /\ UNCHANGED <<home, store, server, fails, svc, sent, ui, job, torn, halved, overlap, stale, peer>>

\* "I saved my recovery code": onReady.
Continue(t) ==
  /\ gate[t].view = "show-code" /\ gate[t].ack /\ job[t].at = "idle"
  /\ gate' = [gate EXCEPT ![t] = Intro]
  /\ BeginCheck(t)
  /\ UNCHANGED <<home, store, server, fails, kept, torn, halved, stale, peer>>

-----------------------------------------------------------------------------
(* setUp, reset and restore, up to each await.                             *)

\* wipeKeyStore; the wipes of index and vault follow.
Wiped(t) ==
  /\ job[t].at = "wipe"
  /\ store' = [store EXCEPT ![home[t]] = EmptyStore]
  /\ Go(t, "wiped")
  /\ UNCHANGED <<home, server, fails, svc, sent, ui, gate, hist, peer>>

\* refresh, then setUp.
Refreshed(t) ==
  /\ job[t].at = "wiped"
  /\ svc' = [svc EXCEPT ![t] = NoService]
  /\ Go(t, "key")
  /\ UNCHANGED <<home, store, server, fails, sent, ui, gate, hist, peer>>

\* Faulty variant: every save brings its own wrapping key.
NoneStored(t) == TRUE
NeedsKey(t) == Here(t).wk = 0

\* getWrappingKey: two tabs may both find none, and each stores its own.
KeyRead(t) ==
  /\ job[t].at = "key"
  /\ IF NeedsKey(t)
     THEN /\ keys < MaxKeys /\ keys' = keys + 1
          /\ job' = [job EXCEPT ![t].at = "putKey", ![t].key = keys + 1]
     ELSE /\ job' = [job EXCEPT ![t].at = "putRow", ![t].key = Here(t).wk]
          /\ UNCHANGED keys
  /\ UNCHANGED <<home, store, published, blob, made, fails, svc, sent, ui, gate, hist, peer>>

KeyStored(t) ==
  /\ job[t].at = "putKey"
  /\ store' = [store EXCEPT ![home[t]].wk = job[t].key]
  /\ Go(t, "putRow")
  /\ UNCHANGED <<home, server, fails, svc, sent, ui, gate, hist, peer>>

IdentitySaved(t) ==
  /\ job[t].at = "putRow"
  /\ store' = [store EXCEPT ![home[t]].id = job[t].id, ![home[t]].under = job[t].key]
  /\ halved' = halved \cup {home[t]}
  /\ Go(t, IF Making(t) THEN "publish" ELSE "material")
  /\ UNCHANGED <<home, server, fails, svc, sent, ui, gate, kept, torn, overlap, stale, peer>>

Published(t) ==
  /\ job[t].at = "publish"
  /\ published' = job[t].id
  /\ Go(t, "load")
  /\ UNCHANGED <<home, store, blob, made, keys, fails, svc, sent, ui, gate, hist, peer>>

\* encryptAndUpload seals what is in the store by then.
Loaded(t) ==
  /\ job[t].at = "load" /\ Here(t).id # 0 /\ Here(t).under = Here(t).wk
  /\ job' = [job EXCEPT ![t].at = "upload", ![t].code = Here(t).id]
  /\ UNCHANGED <<home, store, server, fails, svc, sent, ui, gate, hist, peer>>

Uploaded(t) ==
  /\ job[t].at = "upload"
  /\ blob' = [id |-> job[t].code, code |-> CodeOf(job[t].id)]
  /\ Go(t, "material")
  /\ UNCHANGED <<home, store, published, made, keys, fails, svc, sent, ui, gate, hist, peer>>

\* GET /keys/backup/blob, opened with the code.
BackupOpened(t) ==
  /\ job[t].at = "fetch" /\ UnlockedBy(job[t].code)
  /\ job' = [job EXCEPT ![t].at = "key", ![t].id = blob.id]
  /\ UNCHANGED <<home, store, server, fails, svc, sent, ui, gate, hist, peer>>

\* Faulty variant: a restored browser gets no key to renew the backup with.
KeptMaterialOnSetup(t) == IF Making(t) THEN CodeOf(job[t].id) ELSE Here(t).code
Material(t) == IF Making(t) THEN CodeOf(job[t].id) ELSE job[t].code

\* saveBackupKeyMaterial; the service is ready. A set-up shows its code, if its gate is
\* still there; a restore goes on to onReady.
Finished(t) ==
  /\ job[t].at = "material"
  /\ store' = [store EXCEPT ![home[t]].code = Material(t)]
  /\ Settle(t, "ready", job[t].id)
  /\ job' = [job EXCEPT ![t] = Idle]
  /\ IF Making(t)
     THEN /\ gate' = [gate EXCEPT ![t] = IF job[t].seen
                                         THEN [view |-> "show-code", code |-> CodeOf(job[t].id), ack |-> FALSE]
                                         ELSE @]
          /\ UNCHANGED ui
     ELSE /\ Show(t, "ready") /\ UNCHANGED gate
  /\ halved' = halved \ {home[t]}
  /\ UNCHANGED <<home, server, fails, kept, torn, overlap, stale, peer>>

-----------------------------------------------------------------------------
(* What goes wrong.                                                        *)

Interrupted(t) == torn' = IF Making(t) THEN torn \cup {job[t].id} ELSE torn

\* An await is rejected: the request did not arrive, the store or the code is unusable.
StepFails(t) ==
  /\ job[t].at \in {"ask", "republish", "wiped", "publish", "load", "upload", "fetch"}
  /\ fails < MaxFails /\ fails' = fails + 1
  /\ Interrupted(t)
  /\ job' = [job EXCEPT ![t] = Idle]
  /\ IF job[t].kind = "check"
     THEN Settle(t, "unavailable", 0) /\ Show(t, "unavailable")
     ELSE UNCHANGED <<svc, sent, ui>>
  /\ UNCHANGED <<home, store, server, gate, kept, halved, overlap, stale, peer>>

\* The server carried the request out, but its answer is lost.
AnswerLost(t) ==
  /\ job[t].at \in {"publish", "upload"}
  /\ fails < MaxFails /\ fails' = fails + 1
  /\ IF job[t].at = "publish"
     THEN published' = job[t].id /\ UNCHANGED blob
     ELSE blob' = [id |-> job[t].code, code |-> CodeOf(job[t].id)] /\ UNCHANGED published
  /\ Interrupted(t)
  /\ job' = [job EXCEPT ![t] = Idle]
  /\ UNCHANGED <<home, store, made, keys, svc, sent, ui, gate, kept, halved, overlap, stale, peer>>

\* Another page of the app: what the tab awaits goes on, unseen.
LeavePage(t) ==
  /\ ui[t] # "away" /\ fails < MaxFails /\ fails' = fails + 1
  /\ ui' = [ui EXCEPT ![t] = "away"]
  /\ gate' = [gate EXCEPT ![t] = Intro]
  /\ job' = [job EXCEPT ![t].seen = job[t].at = "idle"]
  /\ UNCHANGED <<home, store, server, svc, sent, hist, peer>>

\* The tab is closed or reloaded.
CloseTab(t) ==
  /\ (ui[t] # "away" \/ Active(t)) /\ fails < MaxFails /\ fails' = fails + 1
  /\ Interrupted(t)
  /\ ui' = [ui EXCEPT ![t] = "away"]
  /\ svc' = [svc EXCEPT ![t] = NoService]
  /\ gate' = [gate EXCEPT ![t] = Intro]
  /\ job' = [job EXCEPT ![t] = Idle]
  /\ UNCHANGED <<home, store, server, sent, kept, halved, overlap, stale, peer>>

\* refreshBackup, after a new session: the identity of the store under the stored key.
RefreshBackup(t) ==
  /\ svc[t].state = "ready"
  /\ Here(t).code # 0 /\ Here(t).id # 0 /\ Here(t).under = Here(t).wk
  /\ blob' = [id |-> Here(t).id, code |-> Here(t).code]
  /\ blob' # blob
  /\ stale' = (stale \/ home[t] \in halved)
  /\ UNCHANGED <<home, store, published, made, keys, fails, tabs, kept, torn, halved, overlap, peer>>

-----------------------------------------------------------------------------
(* The contact.                                                            *)

\* The directory's answer for a send, a first message received, or a safety number.
Fetch(why, claim) ==
  /\ check.why = "none" /\ published # 0
  /\ claim \in (IF why = "receive" THEN sent ELSE {0})
  /\ why = "modal" => modal.at = "closed" /\ pin.id = 0
  /\ modal' = IF why = "modal" THEN [Closed EXCEPT !.at = "loading"] ELSE modal
  /\ check' = [why |-> why, ed |-> published, claim |-> claim]
  /\ UNCHANGED <<home, store, server, fails, tabs, hist, pin, vetted>>

\* Faulty variant: a verified contact stays verified.
KeepsVerified == [id |-> check.ed, verified |-> pin.verified]
Pinned ==
  IF (check.claim # 0 /\ check.claim # check.ed) \/ pin.id # check.ed
  THEN [id |-> check.ed, verified |-> FALSE]
  ELSE pin

\* checkPeerIdentity's end.
Checked ==
  /\ check.why # "none"
  /\ pin' = Pinned
  /\ vetted' = IF modal.at = "shown" /\ modal.id # check.ed THEN vetted \cup {check.ed} ELSE vetted
  /\ modal' = IF check.why = "modal" /\ modal.at = "loading"
              THEN [Closed EXCEPT !.at = "shown", !.id = check.ed, !.verified = pin'.verified]
              ELSE modal
  /\ check' = NoCheck
  /\ UNCHANGED <<home, store, server, fails, tabs, hist>>

\* safetyNumberFor a contact that is pinned.
OpenModal ==
  /\ modal.at = "closed" /\ pin.id # 0
  /\ modal' = [Closed EXCEPT !.at = "shown", !.id = pin.id, !.verified = pin.verified]
  /\ UNCHANGED <<home, store, server, fails, tabs, hist, pin, check, vetted>>

\* The two compare numbers; markVerified reads the pin.
Mark ==
  /\ modal.at = "shown" /\ ~modal.verified /\ modal.mark = 0
  /\ \E t \in Tab : svc[t].id = modal.id
  /\ vetted' = vetted \cup {modal.id}
  /\ modal' = [modal EXCEPT !.mark = pin.id]
  /\ UNCHANGED <<home, store, server, fails, tabs, hist, pin, check>>

Marked ==
  /\ modal.mark # 0
  /\ pin' = [id |-> modal.mark, verified |-> TRUE]
  /\ modal' = [modal EXCEPT !.verified = TRUE, !.mark = 0]
  /\ UNCHANGED <<home, store, server, fails, tabs, hist, check, vetted>>

CloseModal ==
  /\ modal.at = "shown" /\ modal.mark = 0
  /\ modal' = Closed
  /\ UNCHANGED <<home, store, server, fails, tabs, hist, pin, check, vetted>>

-----------------------------------------------------------------------------
Gate(t) ==
  \/ \E v \in {"restore", "reset-confirm"} : Turn(t, "intro", v) \/ Turn(t, v, "intro")
  \/ Enable(t) \/ ConfirmReset(t) \/ (\E c \in Id : SubmitRestore(t, c))
  \/ AcknowledgeSaved(t) \/ Continue(t)
Work(t) ==
  \/ Asked(t) \/ Decided(t) \/ Republished(t)
  \/ Wiped(t) \/ Refreshed(t) \/ KeyRead(t) \/ KeyStored(t) \/ IdentitySaved(t)
  \/ Published(t) \/ Loaded(t) \/ Uploaded(t) \/ BackupOpened(t) \/ Finished(t)
Mishap(t) == StepFails(t) \/ AnswerLost(t) \/ LeavePage(t) \/ CloseTab(t)
Contact ==
  \/ \E why \in {"send", "receive", "modal"}, claim \in MaybeId : Fetch(why, claim)
  \/ Checked \/ OpenModal \/ Mark \/ Marked \/ CloseModal

Next ==
  \/ \E t \in Tab : OpenPage(t) \/ Gate(t) \/ Work(t) \/ Mishap(t) \/ RefreshBackup(t)
  \/ Contact

Spec == Init /\ [][Next]_vars

-----------------------------------------------------------------------------
(* Properties.                                                             *)

\* A tab that is ready holds the identity contacts encrypt to (E2EEService.ts:82-112),
\* unless set-ups overlapped or the published identity's set-up was cut short, so that the
\* backup still holds the identity before it.
ReadyIsPublished ==
  \A t \in Tab : svc[t].state = "ready" /\ ~overlap /\ published \notin torn => svc[t].id = published

\* "The user's existing recovery code keeps working" (identity.ts:145-153): the code that
\* was acknowledged for the published identity opens the backup, and the backup holds it,
\* whatever other browsers restored, renewed or forgot.
CodeKeepsWorking ==
  published \in kept /\ ~overlap => blob = [id |-> published, code |-> published]

\* A restored browser can renew the backup as well as the one that made the identity
\* (identity.ts:181-184).
ReadyCanRenew ==
  \A t \in Tab : svc[t].state = "ready" /\ home[t] \notin halved /\ ~overlap => Here(t).code # 0

\* With a tab per browser, what is in a key store can be read with the wrapping key beside
\* it (keyStore.ts:61-76).
Readable ==
  (\A t, u \in Tab : t # u => home[t] # home[u])
    => \A b \in Browser : store[b].id # 0 => store[b].under = store[b].wk

\* A contact shown as verified is pinned to a key whose number was compared
\* (keyStore.ts:208), unless the pin was replaced while a number was on display.
VerifiedWasCompared == pin.verified => pin.id \in vetted

\* What the key store holds is of its type and can be read.
KeysSound == TypeOK /\ Readable

\* Ready means usable: contacts encrypt to the identity the tab holds, its recovery code
\* opens the backup, unless a browser renewed it with the key of the code before, and the
\* backup can be renewed.
ReadyMeansUsable == ReadyIsPublished /\ (CodeKeepsWorking \/ stale) /\ ReadyCanRenew
=============================================================================
