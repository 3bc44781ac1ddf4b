------------------------------ MODULE MCDmView ------------------------------
(***************************************************************************)
(* DmView for TLC.                                                         *)
(***************************************************************************)
EXTENDS Naturals, TLC

CONSTANTS Conv, Cid, None, MaxMsgs, MaxOpens, MaxLoads

ASSUME DmViewAssumption ==
  /\ None \notin Conv \cup Cid
  /\ {MaxMsgs, MaxOpens, MaxLoads} \subseteq Nat

VARIABLES
  stored, opaque, linked, joined, inbound, active, opens, loads, opening, view, call, sendTo,
  flight, acks, shredding, docs, preview, misplaced, strayed, relisted

Dm == INSTANCE DmView WITH posted <- stored, up <- linked, frames <- inbound

DmSpec == Dm!Spec

Conversations == Permutations(Conv)

\* See DmView.
DmListSound == Dm!ListSound
RightConversation == Dm!RightConversation
ShreddedUnindexed == Dm!ShreddedUnindexed
=============================================================================
