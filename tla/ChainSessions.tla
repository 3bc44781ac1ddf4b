--------------------------- MODULE ChainSessions ---------------------------
(***************************************************************************)
(* The e2ee/v1 sessions of one conversation between two users: encrypt and *)
(* decrypt of E2EEService over the session rows of keyStore, rotation,     *)
(* shredding, and the recovery backup.  Each user has one browser with one *)
(* or more tabs over one IndexedDB; a restore moves the user to a new one. *)
(*                                                                         *)
(* encrypt and shredConversation run under the conversation's Web Lock;    *)
(* decrypt does not, and saves the row it loaded.  A message key and its   *)
(* nonce are derived from the chain of one direction of a session and a    *)
(* counter, so the triple <<session, sender, counter>> stands for both.    *)
(* Delivery (net) may reorder, lose (an envelope nobody reads) and repeat: *)
(* history is decrypted again each time a conversation is opened.          *)
(* Identities and prekeys do not change here; a bundle that cannot be had  *)
(* or verified makes a send fail.                                          *)
(***************************************************************************)
EXTENDS Naturals, FiniteSets

CONSTANTS
  User,         \* the two participants
  Tab,          \* tabs of each one's browser
  MaxSid,       \* bound: sessions minted
  MaxSealed,    \* bound: messages sealed
  MaxReads,     \* bound: decrypts under way at once
  MaxMoves,     \* bound: shreds and restores
  RotateAfter   \* ROTATE_AFTER_MESSAGES (200); the 7 days are not modelled

ASSUME ChainSessionsAssumption ==
  /\ IsFiniteSet(User) /\ Cardinality(User) = 2
  /\ {MaxSid, MaxSealed, MaxReads, MaxMoves, RotateAfter} \subseteq Nat

VARIABLES
  rows,      \* the sessions store of each browser
  enc,       \* the encrypts under way, by tab
  dec,       \* the decrypts under way
  net,       \* envelopes on the server: live frames and history
  sealed,    \* history: everything sealed, with the plaintext's number
  minted,    \* sessions minted so far
  due,       \* a refreshBackup has been called and is not over
  backup,    \* the backup on the server
  moves,     \* shreds and restores so far
  back,      \* history: <<user, session>> whose counter went back, or may have
  cut        \* history: <<user, session>> the user deleted or never got to keep

store  == <<rows, enc, dec>>
copies == <<due, backup>>
hist   == <<back, cut>>
vars   == <<store, net, sealed, minted, copies, moves, hist>>

Sid  == 1..MaxSid
Peer(u) == CHOOSE v \in User : v # u

\* Rows carry StoredSession's role, sendCtr, peerMaxCtr + 1, retiredAt and createdAt, of which
\* only the order counts: among a user's own sessions that of their numbers, among those it
\* accepted that of Clock.
Absent == [role |-> "none", next |-> 0, seen |-> 0, retired |-> FALSE, born |-> 0]
Row == [role : {"init", "resp", "none"}, next : 0..MaxSealed, seen : 0..MaxSealed,
        retired : BOOLEAN, born : Nat]
Envelope == [sid : Sid, from : User, ctr : 0..MaxSealed, init : BOOLEAN]
Idle == [at |-> "off", sid |-> 0, row |-> Absent]

TypeOK ==
  /\ rows \in [User -> [Sid -> Row]]
  /\ \A u \in User, t \in Tab :
       /\ enc[u][t].at \in {"off", "loaded", "fresh"}
       /\ enc[u][t].sid \in 0..MaxSid /\ enc[u][t].row \in Row
  /\ \A u \in User : Cardinality({t \in Tab : enc[u][t].at # "off"}) <= 1
  /\ \A d \in dec : d.by \in User /\ d.env \in Envelope /\ d.row \in Row
                    /\ d.at \in {"loaded", "known"}
  /\ Cardinality(dec) <= MaxReads
  /\ net \subseteq Envelope
  /\ sealed \subseteq [sid : Sid, from : User, ctr : 0..MaxSealed, n : 1..MaxSealed]
  /\ Cardinality(sealed) <= MaxSealed
  /\ minted \in 0..MaxSid
  /\ due \in [User -> BOOLEAN]
  /\ backup \in [User -> [Sid -> Row]]
  /\ moves \in 0..MaxMoves
  /\ back \subseteq User \X Sid
  /\ cut \subseteq User \X Sid

Nothing == [s \in Sid |-> Absent]

Init ==
  /\ rows = [u \in User |-> Nothing]
  /\ enc = [u \in User |-> [t \in Tab |-> Idle]]
  /\ dec = {}
  /\ net = {}
  /\ sealed = {}
  /\ minted = 0
  /\ due = [u \in User |-> FALSE]
  /\ backup = [u \in User |-> Nothing]
  /\ moves = 0
  /\ back = {}
  /\ cut = {}

-----------------------------------------------------------------------------
(* encrypt. *)

Locked(u) == \E t \in Tab : enc[u][t].at # "off"

Newest(u, S) == CHOOSE s \in S : \A r \in S : rows[u][r].born <= rows[u][s].born
Usable(u, roles) == {s \in Sid : rows[u][s].role \in roles /\ ~rows[u][s].retired}

\* activeSession: the latest one this side initiated, else the peer's latest.
Active(u) ==
  IF Usable(u, {"init"}) # {} THEN Newest(u, Usable(u, {"init"}))
  ELSE IF Usable(u, {"resp"}) # {} THEN Newest(u, Usable(u, {"resp"}))
  ELSE 0

NeedsRotation(row) == row.next >= RotateAfter

Clock(u) == 1 + Cardinality({s \in Sid : rows[u][s].role # "none"})

\* Faulty variant: encrypts of two tabs at once.
BeginUnlocked(u, t) ==
  /\ enc[u][t].at = "off" /\ Cardinality(sealed) < MaxSealed
  /\ LET s == Active(u) IN
       enc' = [enc EXCEPT ![u][t] = [at |-> "loaded", sid |-> s,
                                     row |-> IF s = 0 THEN Absent ELSE rows[u][s]]]
  /\ UNCHANGED <<rows, dec, net, sealed, minted, copies, moves, hist>>

Begin(u, t) ==
  /\ ~Locked(u) /\ Cardinality(sealed) < MaxSealed
  /\ LET s == Active(u) IN
       enc' = [enc EXCEPT ![u][t] = [at |-> "loaded", sid |-> s,
                                     row |-> IF s = 0 THEN Absent ELSE rows[u][s]]]
  /\ UNCHANGED <<rows, dec, net, sealed, minted, copies, moves, hist>>

\* A session due for rotation is retired before the new bundle is fetched.
Retire(u, t) ==
  /\ enc[u][t].at = "loaded" /\ enc[u][t].sid # 0 /\ NeedsRotation(enc[u][t].row)
  /\ rows' = [rows EXCEPT ![u][enc[u][t].sid] = [enc[u][t].row EXCEPT !.retired = TRUE]]
  /\ enc' = [enc EXCEPT ![u][t] = [Idle EXCEPT !.at = "fresh"]]
  /\ UNCHANGED <<dec, net, sealed, minted, copies, moves, hist>>

\* The peer has no keys, the directory does not answer, or the tab is closed.
Abandon(u, t) ==
  /\ enc[u][t].at # "off"
  /\ enc' = [enc EXCEPT ![u][t] = Idle]
  /\ UNCHANGED <<rows, dec, net, sealed, minted, copies, moves, hist>>

\* Faulty variant: a rotated session sent without its init block.
SealedBare(u, e) ==
  [sid |-> e.sid, from |-> u, ctr |-> e.row.next,
   init |-> e.init /\ e.row.next = 0 /\ \A s \in Sid : rows[u][s].role # "init"]

\* The init block rides on the first counter only.
Sealed(u, e) == [sid |-> e.sid, from |-> u, ctr |-> e.row.next, init |-> e.init /\ e.row.next = 0]

\* fetchAndPinBundle and initiateSession.
NewSession(u) ==
  [sid |-> minted + 1, init |-> TRUE, row |-> [Absent EXCEPT !.role = "init", !.born = minted + 1]]

Burned(row) == [row EXCEPT !.next = @ + 1]

\* The counter is saved, then the message sealed and handed to the page.
SealOn(u, t, e) ==
  /\ Cardinality(sealed) < MaxSealed
  /\ rows' = [rows EXCEPT ![u][e.sid] = Burned(e.row)]
  /\ sealed' = sealed \cup {[sid |-> e.sid, from |-> u, ctr |-> e.row.next,
                             n |-> Cardinality(sealed) + 1]}
  /\ net' = net \cup {Sealed(u, e)}
  /\ due' = [due EXCEPT ![u] = @ \/ e.init]
  /\ enc' = [enc EXCEPT ![u][t] = Idle]
  /\ UNCHANGED <<dec, backup, moves, hist>>

SealNext(u, t) ==
  LET e == enc[u][t] IN
  /\ e.at = "loaded" /\ e.sid # 0 /\ ~NeedsRotation(e.row)
  /\ SealOn(u, t, [sid |-> e.sid, init |-> FALSE, row |-> e.row])
  /\ UNCHANGED minted

SealFirst(u, t) ==
  /\ enc[u][t].at = "fresh" \/ (enc[u][t].at = "loaded" /\ enc[u][t].sid = 0)
  /\ minted < MaxSid
  /\ SealOn(u, t, NewSession(u))
  /\ minted' = minted + 1

-----------------------------------------------------------------------------
(* decrypt of a peer's envelope; an own one only reads. *)

\* The row is loaded; without one, only an envelope with an init block goes on.
Read(u, env) ==
  /\ env \in net /\ env.from # u /\ Cardinality(dec) < MaxReads
  /\ rows[u][env.sid].role # "none" \/ env.init
  /\ dec' = dec \cup {[by |-> u, env |-> env, row |-> rows[u][env.sid],
                       at |-> IF rows[u][env.sid].role = "none" THEN "loaded" ELSE "known"]}
  /\ UNCHANGED <<rows, enc, net, sealed, minted, copies, moves, hist>>

Wrote(u, s) == \E m \in sealed : m.from = u /\ m.sid = s

\* acceptSession: saved whatever the store holds by now.
Accept(d) ==
  /\ d \in dec /\ d.at = "loaded"
  /\ LET row == [Absent EXCEPT !.role = "resp", !.born = Clock(d.by)] IN
       /\ rows' = [rows EXCEPT ![d.by][d.env.sid] = row]
       /\ dec' = (dec \ {d}) \cup {[d EXCEPT !.at = "known", !.row = row]}
  /\ back' = IF Wrote(d.by, d.env.sid) THEN back \cup {<<d.by, d.env.sid>>} ELSE back
  /\ due' = [due EXCEPT ![d.by] = TRUE]
  /\ UNCHANGED <<enc, net, sealed, minted, backup, moves, cut>>

\* peerMaxCtr: the row is saved as it was loaded, but for the counter seen.
Finish(d) ==
  /\ d \in dec /\ d.at = "known"
  /\ LET now  == rows[d.by][d.env.sid]
         saved == [d.row EXCEPT !.seen = d.env.ctr + 1]
         save == d.env.ctr >= d.row.seen
     IN /\ rows' = IF save THEN [rows EXCEPT ![d.by][d.env.sid] = saved] ELSE rows
        /\ back' = IF save /\ (now.next # d.row.next \/ now.retired # d.row.retired
                               \/ now.role # d.row.role)
                   THEN back \cup {<<d.by, d.env.sid>>} ELSE back
  /\ dec' = dec \ {d}
  /\ UNCHANGED <<enc, net, sealed, minted, copies, moves, cut>>

\* acceptSession or the directory refuses, the tag does not verify, or the tab goes.
Give(d) ==
  /\ d \in dec
  /\ dec' = dec \ {d}
  /\ cut' = IF d.at = "loaded" THEN cut \cup {<<d.by, d.env.sid>>} ELSE cut
  /\ UNCHANGED <<rows, enc, net, sealed, minted, copies, moves, back>>

-----------------------------------------------------------------------------
(* Shredding, backup and restore. *)

Held(u) == {s \in Sid : rows[u][s].role # "none"}

\* shredConversation: under the lock, the store's rows go in one transaction.
Shred(u) ==
  /\ ~Locked(u) /\ moves < MaxMoves
  /\ moves' = moves + 1
  /\ rows' = [rows EXCEPT ![u] = Nothing]
  /\ cut' = cut \cup {<<u, s>> : s \in Held(u)}
  /\ due' = [due EXCEPT ![u] = TRUE]
  /\ UNCHANGED <<enc, dec, net, sealed, minted, backup, back>>

\* refreshBackup, not awaited by anyone: the whole store, at some later time, or not.
\* With the moves used up nobody restores it any more, and it is left out.
BackUp(u) ==
  /\ due[u] /\ moves < MaxMoves
  /\ due' = [due EXCEPT ![u] = FALSE]
  /\ \E kept \in {rows[u], backup[u]} : backup' = [backup EXCEPT ![u] = kept]
  /\ UNCHANGED <<store, net, sealed, minted, moves, hist>>

\* restoreFromBackup in a new browser: the rows of the backup, as they were then.
Restore(u) ==
  /\ moves < MaxMoves
  /\ moves' = moves + 1
  /\ rows' = [rows EXCEPT ![u] = backup[u]]
  /\ enc' = [enc EXCEPT ![u] = [t \in Tab |-> Idle]]
  /\ dec' = {d \in dec : d.by # u}
  /\ back' = back \cup {<<u, s>> : s \in {r \in Sid : backup[u][r].role # "none"
                                                     /\ backup[u][r] # rows[u][r]}}
  /\ cut' = cut \cup {<<u, s>> : s \in {r \in Held(u) : backup[u][r].role = "none"}}
  /\ due' = [due EXCEPT ![u] = FALSE]
  /\ UNCHANGED <<net, sealed, minted, backup>>

-----------------------------------------------------------------------------
Encrypt(u) == \E t \in Tab : Begin(u, t) \/ Retire(u, t) \/ Abandon(u, t) \/ SealNext(u, t) \/ SealFirst(u, t)
Decrypt == \/ \E u \in User, env \in net : Read(u, env)
           \/ \E d \in dec : Accept(d) \/ Finish(d) \/ Give(d)
Keep(u) == Shred(u) \/ BackUp(u) \/ Restore(u)

Next == Decrypt \/ \E u \in User : Encrypt(u) \/ Keep(u)

Spec == Init /\ [][Next]_vars

-----------------------------------------------------------------------------
(* Properties. *)

\* What encrypt's comment and the envelope's say, no key and nonce ever seal two messages,
\* holds as long as no unlocked decrypt has saved an older
\* copy of the row, accepted the session anew, and no restore has brought an old row.
NonceOnceUnlessBack ==
  \A m, k \in sealed :
    m.sid = k.sid /\ m.from = k.from /\ m.ctr = k.ctr => m = k \/ <<m.from, m.sid>> \in back

\* The same three apart, a row's counter never falls below what was sealed with it.
CounterAhead ==
  \A m \in sealed :
    LET row == rows[m.from][m.sid] IN
      row.role = "none" \/ m.ctr < row.next \/ <<m.from, m.sid>> \in back

\* Whoever sends on a session sends to a peer who has it, unless its first envelope,
\* the only one with the init block, is still to be read, was lost or was refused,
\* or the peer has deleted the session since.
PeerHasSession ==
  \A u \in User :
    LET s == Active(u) IN
      s # 0 => \/ rows[Peer(u)][s].role # "none"
               \/ \E env \in net : env.sid = s /\ env.init
               \/ <<Peer(u), s>> \in cut \cup back
               \/ <<u, s>> \in back

\* A user has one session of its own to send on: the others are retired, unless a
\* decrypt or a restore brought one back.
OneSendingSession ==
  \A u \in User : \A s, r \in Usable(u, {"init"}) :
    s # r => <<u, s>> \in back \/ <<u, r>> \in back
=============================================================================
