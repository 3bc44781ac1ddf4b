----------------------------- MODULE MCBrowser ------------------------------
(***************************************************************************)
(* What a browser keeps, for TLC: the identity and its backup, and the     *)
(* search index with its snapshots.                                        *)
(***************************************************************************)
EXTENDS IdentityKeys, TLC

CONSTANTS Conv, MaxDocs, MaxEra, MaxSnapshotKeys, MaxRejected, MaxCloses

VARIABLES
  scene,
  rows, meta, snapshotKeys, era, shown, phase, core, read, dirty, timer, batch, sealing, held,
  asked, wiping, rejected, closes, gone, late, mixed

index == <<rows, meta, snapshotKeys, era, shown, phase, core, read, dirty, timer, batch, sealing,
           held, asked, wiping, rejected, closes, gone, late, mixed>>

Index == INSTANCE SearchIndex WITH
  MaxKeys <- MaxSnapshotKeys, MaxFails <- MaxRejected,
  keys <- snapshotKeys, page <- shown, fails <- rejected

\* Something is indexed, and a tab that awaits nothing, or a wipe, awaits no conversation.
ASSUME IndexBounds ==
  /\ MaxEra \in Nat \ {0} /\ {MaxDocs, MaxSnapshotKeys, MaxRejected, MaxCloses} \subseteq Nat
  /\ "no" \notin Conv /\ "wipe" \notin Conv

InitBrowser ==
  /\ Init /\ Index!Init
  /\ scene \in {"keys", "contact", "index"}
  /\ scene = "index" => \A s, t \in Tab : home[s] = home[t]

\* Keys and index share no state, and one is checked at a time; the keys once with all that
\* goes wrong and no contact, on whom they do not depend, once with the contact and no
\* failures (VerifiedWasComparedAlways is proved with them).
NextBrowser ==
  /\ UNCHANGED scene
  /\ \/ scene = "keys"    /\ Next       /\ UNCHANGED <<index, peer>>
     \/ scene = "contact" /\ Next       /\ UNCHANGED <<index, fails>>
     \/ scene = "index"   /\ Index!Next /\ UNCHANGED vars

BrowserSpec == InitBrowser /\ [][NextBrowser]_<<scene, vars, index>>

Alike == Permutations(Tab) \cup Permutations(Browser) \cup Permutations(Conv)

\* The stores keep their types and their bookkeeping (see both modules).
StoresSound == KeysSound /\ Index!IndexSound
\* See SearchIndex.
NothingComesBack == Index!NothingComesBack
=============================================================================
