------------------------------ MODULE EndToEnd ------------------------------
(***************************************************************************)
(* End-to-end encryption of one conversation: E2EEService.encrypt, decrypt *)
(* and shredConversation dispatch between the v1 chain sessions and, where *)
(* the devices opted in (CC_E2EE_V2), the Double Ratchet.  The switch is   *)
(* set before the first message or not at all: a conversation that goes    *)
(* over from v1 to v2 is not modelled.                                     *)
(***************************************************************************)
EXTENDS ChainSessions

CONSTANTS
  None,          \* no ratchet state, no chain
  MaxInits,      \* bound: ratchet sessions initiated
  MaxRatcheted,  \* bound: messages sealed by the ratchet
  MaxShreds,     \* bound: shreds of ratchet conversations
  MaxSkip,       \* MAX_SKIP (1000)
  MaxStored      \* MAX_STORED_SKIPPED (2000)

ASSUME EndToEndAssumption ==
  {MaxInits, MaxRatcheted, MaxShreds, MaxSkip, MaxStored} \subseteq Nat

VARIABLES
  protocol,  \* what new sessions use: "v1", or "v2" once the devices opted in
  ratchet, vault, pairs, started, frames, written, used, shredded, lost, evicted, shreds

V2 == INSTANCE DoubleRatchet WITH
        MaxSid <- MaxInits, MaxSealed <- MaxRatcheted,
        minted <- started, net <- frames, sealed <- written

\* No ratchet state, no chain and no key pair: none of those there are.
ASSUME NoneAssumption == None \notin V2!KeyPair \cup V2!KeyRoot \cup V2!Row

v2vars == <<ratchet, vault, pairs, started, frames, written, used, shredded, lost, evicted,
            shreds>>

\* setDoubleRatchetEnabled, on both devices, before the conversation's first message.
OptIn ==
  /\ protocol = "v1" /\ sealed = {} /\ \A u \in User : ~Locked(u)
  /\ protocol' = "v2"
  /\ UNCHANGED <<vars, v2vars>>

InitBoth == Init /\ V2!Init /\ protocol = "v1"

\* encrypt's and decrypt's dispatch.
Dispatch ==
  \/ protocol = "v1" /\ Next /\ UNCHANGED <<protocol, v2vars>>
  \/ protocol = "v2" /\ V2!Next /\ UNCHANGED <<protocol, vars>>

NextBoth == OptIn \/ Dispatch

SpecBoth == InitBoth /\ [][NextBoth]_<<protocol, vars, v2vars>>

-----------------------------------------------------------------------------
(* Properties. *)

\* Both protocols' state keeps its type: a v1 user never has two sessions to send on
\* unless one was brought back, a ratchet keeps at most MAX_STORED_SKIPPED keys.
Typed == TypeOK /\ OneSendingSession /\ V2!TypeOK

\* v2: no message key ever seals two messages; a used key cannot be derived again from
\* what the device holds, except for a session it shredded; and of the messages shredded,
\* only the first flight of a peer's session reopens.
KeySecrecy == V2!KeyOnce /\ V2!ForwardSecret /\ V2!OnlyFirstFlightReopens

\* v2: messages open however they are reordered, within MAX_SKIP and the room for keys,
\* and show the text that was sealed.
Readable == V2!Readable /\ V2!ShownAsSealed
=============================================================================
