--------------------------- MODULE DoubleRatchet ---------------------------
(***************************************************************************)
(* The e2ee/v2 protocol of one conversation: doubleRatchet.ts under        *)
(* envelopeV2, E2EEService and the vault.  Each user has one browser; its  *)
(* tabs share the vault and the conversation's lock, under which a message *)
(* is sealed or opened and the advanced state committed together with the  *)
(* plaintext, so each is one step and a crash before the commit is none.   *)
(*                                                                         *)
(* Keys are symbolic.  A key pair is known by a name; a root is the list   *)
(* of the key agreements it was derived from, a chain is named by its      *)
(* root, and a message key is a chain and a position in it.  A frame opens *)
(* exactly under the key it was sealed with.  The server may lose, reorder *)
(* and repeat what it is given.                                            *)
(***************************************************************************)
EXTENDS Naturals, Sequences, SequencesExt, FiniteSets

CONSTANTS
  User,       \* the two participants
  None,       \* no key, no chain, no session
  MaxSid,     \* bound: sessions initiated
  MaxSealed,  \* bound: messages sealed
  MaxShreds,  \* bound: shreds
  MaxSkip,    \* MAX_SKIP (1000)
  MaxStored   \* MAX_STORED_SKIPPED (2000)

VARIABLES
  ratchet,   \* the vault's ratchet rows: each user's state of each session
  vault,     \* the vault's message rows
  pairs,     \* ratchet key pairs each user has generated
  minted,    \* sessions initiated
  net,       \* messages on the server
  sealed,    \* history: every message sealed
  used,      \* history: message keys each user has sealed or opened with
  shredded,  \* history: messages in each user's vault when it was shredded
  lost,      \* history: sessions each user has shredded
  evicted,   \* history: skipped keys each user dropped for want of room
  shreds     \* shreds so far

vars == <<ratchet, vault, pairs, minted, net, sealed, used, shredded, lost, evicted, shreds>>

Sid == 1..MaxSid
Peer(u) == CHOOSE v \in User : v # u

\* The signed prekey is a user's pair 0, and a responder's first ratchet pair.
Pair(u, k) == [of |-> u, k |-> k]

Root(sid, path) == [sid |-> sid, path |-> path]
Derive(root, mine, theirs) == Root(root.sid, Append(root.path, {mine, theirs}))
MessageKey(chain, n) == [chain |-> chain, n |-> n]

\* vault.messageKey, and a row under it.
SlotOf(m) == <<m.sid, m.from, m.ctr>>
Entry(m) == [slot |-> SlotOf(m), text |-> m.text]

-----------------------------------------------------------------------------
(* doubleRatchet.ts: operators on a state, which return the next one. *)

InitInitiator(sid, u, fresh) ==
  LET mine == Pair(u, fresh)
      theirs == Pair(Peer(u), 0)
      rk == Derive(Root(sid, <<>>), mine, theirs)
  IN [dhs |-> mine, dhr |-> theirs, rk |-> rk, cks |-> rk, ckr |-> None,
      ns |-> 0, nr |-> 0, pn |-> 0, skipped |-> <<>>]

InitResponder(sid, u) ==
  [dhs |-> Pair(u, 0), dhr |-> None, rk |-> Root(sid, <<>>), cks |-> None, ckr |-> None,
   ns |-> 0, nr |-> 0, pn |-> 0, skipped |-> <<>>]

TooFar(st, until) == st.ckr # None /\ until > st.nr + MaxSkip

\* The keys of the numbers from nr up to until, oldest first.
PassedBy(st, until) ==
  [j \in 1..(until - st.nr) |-> [dh |-> st.dhr, n |-> st.nr + j - 1,
                                mk |-> MessageKey(st.ckr, st.nr + j - 1)]]

\* Faulty variant: nothing is ever evicted.
SkipAll(st, until) ==
  IF st.ckr = None \/ until <= st.nr THEN st
  ELSE [st EXCEPT !.skipped = @ \o PassedBy(st, until), !.nr = until]

\* skipUntil: the keys of the numbers passed over are kept, the oldest dropped.
SkipUntil(st, until) ==
  IF st.ckr = None \/ until <= st.nr THEN st
  ELSE LET all == st.skipped \o PassedBy(st, until)
           over == IF Len(all) > MaxStored THEN Len(all) - MaxStored ELSE 0
       IN [st EXCEPT !.skipped = SubSeq(all, over + 1, Len(all)), !.nr = until]

\* Faulty variant: the number of the previous chain's last message, not its length.
DhRatchetShort(st, dh, mine) ==
  LET recv == Derive(st.rk, st.dhs, dh)
      send == Derive(recv, mine, dh)
  IN [st EXCEPT !.pn = IF st.ns = 0 THEN 0 ELSE st.ns - 1, !.ns = 0, !.nr = 0, !.dhr = dh,
                !.ckr = recv, !.dhs = mine, !.rk = send, !.cks = send]

DhRatchet(st, dh, mine) ==
  LET recv == Derive(st.rk, st.dhs, dh)
      send == Derive(recv, mine, dh)
  IN [st EXCEPT !.pn = st.ns, !.ns = 0, !.nr = 0, !.dhr = dh,
                !.ckr = recv, !.dhs = mine, !.rk = send, !.cks = send]

SkippedAt(st, m) == {j \in DOMAIN st.skipped : st.skipped[j].dh = m.dh /\ st.skipped[j].n = m.n}

\* What decrypting m with fresh pair mine comes to: the state up to the step of m's key.
Caught(st, m, mine) ==
  IF m.dh = st.dhr THEN SkipUntil(st, m.n)
  ELSE SkipUntil(DhRatchet(SkipUntil(st, m.pn), m.dh, mine), m.n)

Refused(st, m) ==
  IF m.dh = st.dhr THEN m.n < st.nr \/ TooFar(st, m.n)
  ELSE TooFar(st, m.pn) \/ m.n > MaxSkip

\* Faulty variant: a skipped key kept after use.
SteppedKept(st, m, mine) ==
  IF SkippedAt(st, m) # {} THEN st ELSE [Caught(st, m, mine) EXCEPT !.nr = @ + 1]

\* ratchetDecrypt's next state: the message key consumed and forgotten.
Stepped(st, m, mine) ==
  IF SkippedAt(st, m) # {}
    THEN [st EXCEPT !.skipped = RemoveAt(@, CHOOSE j \in SkippedAt(st, m) : TRUE)]
    ELSE [Caught(st, m, mine) EXCEPT !.nr = @ + 1]

\* Does the key it arrives at open m?
Opens(st, m, mine) ==
  IF SkippedAt(st, m) # {}
    THEN \E j \in SkippedAt(st, m) : st.skipped[j].mk = m.key
    ELSE ~Refused(st, m) /\ MessageKey(Caught(st, m, mine).ckr, m.n) = m.key

-----------------------------------------------------------------------------
(* The sessions and the vault. *)

Held(u) == {s \in Sid : ratchet[u][s] # None}
Latest(u) == CHOOSE s \in Held(u) : \A r \in Held(u) : ratchet[u][r].born <= ratchet[u][s].born
Clock(u) == 1 + Cardinality(Held(u))

Responder(u, m) ==
  [state |-> InitResponder(m.sid, u), role |-> "resp", born |-> Clock(u), total |-> 0,
   replied |-> TRUE]

Init ==
  /\ ratchet = [u \in User |-> [s \in Sid |-> None]]
  /\ vault = [u \in User |-> {}]
  /\ pairs = [u \in User |-> 0]
  /\ minted = 0
  /\ net = {}
  /\ sealed = {}
  /\ used = [u \in User |-> {}]
  /\ shredded = [u \in User |-> {}]
  /\ lost = [u \in User |-> {}]
  /\ evicted = [u \in User |-> {}]
  /\ shreds = 0

\* The init block rides along until the peer has answered.
Rides(row) == row.role = "init" /\ ~row.replied

NextCtr(row) == row.total + 1

InVault(u, m) == \E e \in vault[u] : e.slot = SlotOf(m)
Stored(u, m) == {e \in vault[u] : e.slot # SlotOf(m)} \cup {Entry(m)}

\* sealV2 on session s, and the commit that comes before the envelope leaves.
SealOn(u, s, row) ==
  LET st == row.state
      m == [sid |-> s, from |-> u, ctr |-> row.total, dh |-> st.dhs, pn |-> st.pn, n |-> st.ns,
            key |-> MessageKey(st.cks, st.ns), text |-> Cardinality(sealed) + 1,
            init |-> Rides(row)]
  IN /\ Cardinality(sealed) < MaxSealed
     /\ st.cks # None
     /\ ratchet' = [ratchet EXCEPT ![u][s] =
                      [row EXCEPT !.total = NextCtr(row), !.state.ns = @ + 1]]
     /\ vault' = [vault EXCEPT ![u] = Stored(u, m)]
     /\ sealed' = sealed \cup {m}
     /\ net' = net \cup {m}
     /\ used' = [used EXCEPT ![u] = @ \cup {m.key}]
     /\ UNCHANGED <<shredded, lost, evicted, shreds>>

\* encrypt: the latest session, whoever started it.
Send(u) ==
  /\ Held(u) # {}
  /\ SealOn(u, Latest(u), ratchet[u][Latest(u)])
  /\ UNCHANGED <<pairs, minted>>

\* encrypt without a session: X3DH toward the peer's prekey.
SendFirst(u) ==
  /\ Held(u) = {} /\ minted < MaxSid
  /\ SealOn(u, minted + 1,
            [state |-> InitInitiator(minted + 1, u, pairs[u] + 1), role |-> "init",
             born |-> Clock(u), total |-> 0, replied |-> FALSE])
  /\ minted' = minted + 1
  /\ pairs' = [pairs EXCEPT ![u] = @ + 1]

\* The session decryptV2 opens m on, if there is one or m can start one.
SessionFor(u, m) ==
  IF ratchet[u][m.sid] # None THEN ratchet[u][m.sid]
  ELSE IF m.init THEN Responder(u, m) ELSE None

CanOpen(u, m) ==
  SessionFor(u, m) # None /\ Opens(SessionFor(u, m).state, m, Pair(u, pairs[u] + 1))

Keys(st) == {st.skipped[j].mk : j \in DOMAIN st.skipped}

\* The keys a step to m has held or derived besides m's own.
Passed(st, m, next) ==
  LET reach == IF m.dh = st.dhr THEN m.n ELSE m.pn
  IN IF SkippedAt(st, m) # {} THEN Keys(st)
     ELSE Keys(st) \cup {MessageKey(st.ckr, i) : i \in {j \in st.nr..reach : j < reach}}
                   \cup {MessageKey(next.ckr, i) : i \in {j \in 0..m.n : j < m.n /\ m.dh # st.dhr}}

\* decryptV2: a message in the vault is not opened again; one that fails changes nothing.
Receive(u, m) ==
  /\ m.from # u /\ ~InVault(u, m) /\ CanOpen(u, m)
  /\ LET row  == SessionFor(u, m)
         mine == Pair(u, pairs[u] + 1)
         next == Stepped(row.state, m, mine)
     IN /\ ratchet' = [ratchet EXCEPT ![u][m.sid] =
                         [row EXCEPT !.state = next, !.replied = TRUE]]
        /\ pairs' = IF next.dhs = mine THEN [pairs EXCEPT ![u] = @ + 1] ELSE pairs
        /\ evicted' = [evicted EXCEPT ![u] =
                         @ \cup (Passed(row.state, m, next) \ (Keys(next) \cup {m.key}))]
  /\ vault' = [vault EXCEPT ![u] = Stored(u, m)]
  /\ used' = [used EXCEPT ![u] = @ \cup {m.key}]
  /\ UNCHANGED <<minted, net, sealed, shredded, lost, shreds>>

\* shredConversation: the conversation's key, ratchets and messages in one transaction.
Shred(u) ==
  /\ shreds < MaxShreds
  /\ shreds' = shreds + 1
  /\ shredded' = [shredded EXCEPT ![u] = @ \cup vault[u]]
  /\ lost' = [lost EXCEPT ![u] = @ \cup Held(u)]
  /\ vault' = [vault EXCEPT ![u] = {}]
  /\ ratchet' = [ratchet EXCEPT ![u] = [s \in Sid |-> None]]
  /\ UNCHANGED <<pairs, minted, net, sealed, used, evicted>>

Next ==
  \E u \in User : Send(u) \/ SendFirst(u) \/ Shred(u) \/ \E m \in net : Receive(u, m)

Spec == Init /\ [][Next]_vars

-----------------------------------------------------------------------------
(* Properties. *)

KeyPair == [of : User, k : Nat]
KeyRoot == [sid : Sid, path : Seq(SUBSET KeyPair)]
SealingKey == [chain : KeyRoot, n : Nat]
SkippedKey == [dh : KeyPair, n : Nat, mk : SealingKey]
State == [dhs : KeyPair, dhr : KeyPair \cup {None},
          rk : KeyRoot, cks : KeyRoot \cup {None}, ckr : KeyRoot \cup {None},
          ns : Nat, nr : Nat, pn : Nat,
          skipped : Seq(SkippedKey)]
Row == [state : State, role : {"init", "resp"}, born : 1..(MaxSid + 1), total : Nat, replied : BOOLEAN]
Message == [sid : Sid, from : User, ctr : Nat, dh : KeyPair, pn : Nat, n : Nat,
            key : SealingKey, text : Nat, init : BOOLEAN]

TypeOK ==
  /\ \A u \in User, s \in Sid :
       ratchet[u][s] = None \/ /\ ratchet[u][s] \in Row
                               /\ ratchet[u][s].total <= MaxSealed
                               /\ Len(ratchet[u][s].state.skipped) <= MaxStored
  /\ \A u \in User : vault[u] \subseteq {Entry(m) : m \in sealed}
  /\ net \subseteq sealed /\ sealed \subseteq Message
  /\ Cardinality(sealed) <= MaxSealed
  /\ minted \in 0..MaxSid
  /\ shreds \in 0..MaxShreds

\* No message key, hence no key and nonce, ever seals two messages, whatever is
\* received, lost, shredded or initiated in between.
KeyOnce == \A m, k \in sealed : m.key = k.key => m = k

\* The keys a state can still derive by itself.
Derives(st, key) ==
  \/ key \in Keys(st)
  \/ key.chain = st.cks /\ key.n >= st.ns
  \/ key.chain = st.ckr /\ key.n >= st.nr

\* A key that has sealed or opened a message cannot be derived any more from what the
\* device holds, unless a session it shredded has been started again from its init
\* block.
ForwardSecret ==
  \A u \in User : \A s \in Held(u) \ lost[u] : \A key \in used[u] :
    ~Derives(ratchet[u][s].state, key)

\* Every message is in its reader's vault or opens with what the reader holds, however
\* messages are reordered, unless it is further ahead than MAX_SKIP, its key was
\* evicted, or one of the two shredded the session.
Ahead(st, m) == Refused(st, m) /\ ~(m.dh = st.dhr /\ m.n < st.nr)
Readable ==
  \A m \in sealed :
    LET v == Peer(m.from) IN
      \/ Entry(m) \in vault[v]
      \/ CanOpen(v, m)
      \/ m.key \in evicted[v]
      \/ m.sid \in lost[v] \cup lost[m.from]
      \/ SessionFor(v, m) # None /\ Ahead(SessionFor(v, m).state, m)

\* Only the first flight of a session the peer initiated comes back: its messages
\* carry the init block, from which the prekey starts the session again.
OnlyFirstFlightReopens ==
  \A m \in sealed, u \in User :
    Entry(m) \in vault[u] \cap shredded[u] => m.init /\ m.from # u

\* A reader is shown the text that was sealed: the vault's row under a message's
\* session, sender and counter is that message's, unless the sender shredded the
\* session and, started again from the peer's init block, counts from 0 again.
ShownAsSealed ==
  \A u \in User : \A m \in sealed, e \in vault[u] :
    e.slot = SlotOf(m) => e.text = m.text \/ m.sid \in lost[m.from]
=============================================================================
