--------------------------- MODULE EndToEndProofs ---------------------------
(***************************************************************************)
(* Theorems about EndToEnd, for all numbers of tabs, sessions, messages,   *)
(* decrypts, shreds and restores, and all sizes of MAX_SKIP and            *)
(* MAX_STORED_SKIPPED.                                                     *)
(*                                                                         *)
(* v1: no key and nonce ever seal two messages, unless a session's counter *)
(* went back in a way "back" names.  A row's counter is above every        *)
(* counter sealed on it, and so is the copy an encrypt has loaded, because *)
(* encrypts of one user hold a lock and whatever else writes the row under *)
(* it either leaves its counter alone, is recorded in "back", or restarts  *)
(* the encrypts.  A user has one session of its own to send on: each row,  *)
(* loaded copy and backup of an own session has the age of its number, and *)
(* an encrypt mints a session only after the last was retired (RowInv).    *)
(*                                                                         *)
(* v2: no message key seals two messages, and a used one cannot be derived *)
(* again from the device that used it.  A key pair is fresh when it is     *)
(* taken and stands for one sending chain (OneChain), no two states send   *)
(* on one chain (Separate), whatever a state holds besides its root is no  *)
(* longer than it (Shape), and the keys used on a state's chains are       *)
(* behind its counters (Spent).  Messages can be opened: of the two states *)
(* of a session one is a key agreement ahead of the other (Linked), which  *)
(* turns to the chain the first one sends on and takes the lead, and each  *)
(* message is at any time filed, evicted, kept, to come on the reader's    *)
(* chain, or on the one its sender is ahead by (Reach).                    *)
(***************************************************************************)
EXTENDS EndToEnd, FiniteSetTheorems, SequenceTheorems, WellFoundedInduction, TLAPS

USE ChainSessionsAssumption

\* The constants are numbers.
LEMMA ConstantsTyped == MaxSid \in Nat /\ MaxSealed \in Nat /\ RotateAfter \in Nat
OBVIOUS

\* A non-empty set of naturals has a least element.
LEMMA Least ==
  ASSUME NEW T \in SUBSET Nat, T # {}
  PROVE  \E x \in T : \A y \in T : x <= y
<1>1. PICK x \in T : \A y \in T : <<y, x>> \notin OpToRel(<, Nat)
  BY NatLessThanWellFounded, WFMin
<1>2. \A y \in T : ~(y < x)
  BY <1>1 DEF OpToRel
<1> QED
  BY <1>2

-----------------------------------------------------------------------------
(* Types, with counters of any size. *)

StoredRow == [role : {"init", "resp", "none"}, next : Nat, seen : Nat, retired : BOOLEAN,
              born : 0..(MaxSid + 1)]
Header == [sid : Sid, from : User, ctr : Nat, init : BOOLEAN]
Opening == [by : User, env : Header, row : StoredRow, at : {"loaded", "known"}]
Work == [at : {"off", "loaded", "fresh"}, sid : 0..MaxSid, row : StoredRow]

ChainTyped ==
  /\ rows \in [User -> [Sid -> StoredRow]]
  /\ enc \in [User -> [Tab -> Work]]
  /\ dec \subseteq Opening
  /\ net \subseteq Header
  /\ \A m \in sealed : m.sid \in Sid /\ m.from \in User /\ m.ctr \in Nat
  /\ minted \in 0..MaxSid
  /\ backup \in [User -> [Sid -> StoredRow]]

\* Nothing stored and nothing under way are rows and works too, and a row stays one.
LEMMA AbsentIsRow == Absent \in StoredRow /\ Idle \in Work
BY ConstantsTyped DEF Absent, StoredRow, Idle, Work

LEMMA RowUpdates ==
  /\ \A row \in StoredRow : [row EXCEPT !.retired = TRUE] \in StoredRow
  /\ \A row \in StoredRow, n \in Nat : /\ [row EXCEPT !.seen = n] \in StoredRow
                                      /\ [row EXCEPT !.next = n] \in StoredRow
  /\ \A r \in {"init", "resp"}, b \in 0..(MaxSid + 1) :
       [Absent EXCEPT !.role = r, !.born = b] \in StoredRow
BY DEF StoredRow, Absent

LEMMA ClockTyped ==
  ASSUME NEW u \in User
  PROVE  Clock(u) \in 0..(MaxSid + 1)
<1>1. IsFiniteSet(Sid) /\ Cardinality(Sid) = MaxSid
  <2>1. 1 \in Int /\ MaxSid \in Int
    BY ConstantsTyped
  <2>2. /\ IsFiniteSet(1..MaxSid)
        /\ Cardinality(1..MaxSid) = IF 1 > MaxSid THEN 0 ELSE MaxSid - 1 + 1
    BY <2>1, FS_Interval
  <2> QED
    BY <2>2, ConstantsTyped DEF Sid
<1>2. {s \in Sid : rows[u][s].role # "none"} \in SUBSET Sid
  OBVIOUS
<1>3. /\ IsFiniteSet({s \in Sid : rows[u][s].role # "none"})
      /\ Cardinality({s \in Sid : rows[u][s].role # "none"}) <= MaxSid
  BY <1>1, <1>2, FS_Subset
<1>4. Cardinality({s \in Sid : rows[u][s].role # "none"}) \in Nat
  BY <1>3, FS_CardinalityType
<1> QED
  BY <1>3, <1>4, ConstantsTyped DEF Clock

\* The newest of some rows is one of them, and the newest.
LEMMA NewestIsOne ==
  ASSUME ChainTyped, NEW u \in User, NEW S \in SUBSET Sid, S # {}
  PROVE  /\ Newest(u, S) \in S
         /\ \A r \in S : rows[u][r].born <= rows[u][Newest(u, S)].born
<1> DEFINE Age(s) == (MaxSid + 1) - rows[u][s].born
<1> DEFINE Ages == {Age(s) : s \in S}
<1>1. \A s \in S : rows[u][s].born \in 0..(MaxSid + 1)
  BY DEF ChainTyped, StoredRow
<1>2. \A s \in S : Age(s) \in Nat
  BY <1>1, ConstantsTyped
<1>3. PICK x \in Ages : \A y \in Ages : x <= y
  <2>1. Ages \in SUBSET Nat /\ Ages # {}
    BY <1>2
  <2> HIDE DEF Ages
  <2> QED
    BY <2>1, Least
<1>4. PICK s \in S : x = Age(s)
  BY <1>3
<1>5. \A r \in S : Age(s) <= Age(r)
  BY <1>3, <1>4
<1>6. \A r \in S : rows[u][r].born <= rows[u][s].born
  BY <1>1, <1>5, ConstantsTyped
<1> QED
  BY <1>6 DEF Newest

\* The session an encrypt picks is in the store.
LEMMA ActiveIsHeld ==
  ASSUME ChainTyped, NEW u \in User
  PROVE  Active(u) \in 0..MaxSid
         /\ (Active(u) # 0 => Active(u) \in Sid /\ rows[u][Active(u)].role # "none")
<1>1. ASSUME NEW roles \in {{"init"}, {"resp"}}, Usable(u, roles) # {}
      PROVE  Newest(u, Usable(u, roles)) \in Sid
             /\ rows[u][Newest(u, Usable(u, roles))].role # "none"
  <2>1. Newest(u, Usable(u, roles)) \in Usable(u, roles)
    BY <1>1, NewestIsOne DEF Usable
  <2> QED
    BY <2>1 DEF Usable
<1> QED
  BY <1>1, ConstantsTyped DEF Active, Sid

LEMMA EncryptKeepsTypes ==
  ASSUME ChainTyped, NEW u \in User, NEW t \in Tab,
         Begin(u, t) \/ Retire(u, t) \/ Abandon(u, t) \/ SealNext(u, t) \/ SealFirst(u, t)
  PROVE  ChainTyped'
<1> USE ConstantsTyped DEF copies, hist
<1>0. enc[u][t] \in Work /\ enc[u][t].row \in StoredRow /\ enc[u][t].sid \in 0..MaxSid
  BY DEF ChainTyped, Work
<1>1. CASE Begin(u, t)
  <2> DEFINE s == Active(u)
  <2> DEFINE w == [at |-> "loaded", sid |-> s, row |-> IF s = 0 THEN Absent ELSE rows[u][s]]
  <2>1. w \in Work
    BY ActiveIsHeld, AbsentIsRow DEF ChainTyped, Work
  <2>2. enc' = [enc EXCEPT ![u][t] = w]
    BY <1>1 DEF Begin
  <2> HIDE DEF w
  <2> QED
    BY <1>1, <2>1, <2>2 DEF Begin, ChainTyped
<1>2. CASE Retire(u, t)
  <2>1. [enc[u][t].row EXCEPT !.retired = TRUE] \in StoredRow /\ enc[u][t].sid \in Sid
    <3>1. enc[u][t].sid # 0
      BY <1>2 DEF Retire
    <3>2. enc[u][t].sid \in Sid
      BY <1>0, <3>1 DEF Sid
    <3>3. [enc[u][t].row EXCEPT !.retired = TRUE] \in StoredRow
      BY <1>0, RowUpdates
    <3> QED
      BY <3>2, <3>3
  <2>2. [Idle EXCEPT !.at = "fresh"] \in Work
    BY AbsentIsRow DEF Idle, Work
  <2> QED
    BY <1>2, <2>1, <2>2 DEF Retire, ChainTyped
<1>3. CASE Abandon(u, t)
  BY <1>3, AbsentIsRow DEF Abandon, ChainTyped
<1>4. ASSUME NEW e, e.sid \in Sid, e.row \in StoredRow, e.init \in BOOLEAN, SealOn(u, t, e),
             minted' \in 0..MaxSid
      PROVE  ChainTyped'
  <2>1. Burned(e.row) \in StoredRow /\ e.row.next \in Nat
    <3>1. e.row.next \in Nat /\ e.row.next + 1 \in Nat
      BY <1>4 DEF StoredRow
    <3>2. Burned(e.row) = [e.row EXCEPT !.next = e.row.next + 1]
      BY DEF Burned
    <3> QED
      BY <1>4, <3>1, <3>2, RowUpdates
  <2>2. rows' \in [User -> [Sid -> StoredRow]]
    BY <1>4, <2>1 DEF SealOn, ChainTyped
  <2>3. enc' \in [User -> [Tab -> Work]]
    BY <1>4, AbsentIsRow DEF SealOn, ChainTyped
  <2>4. \A m \in sealed' : m.sid \in Sid /\ m.from \in User /\ m.ctr \in Nat
    BY <1>4, <2>1 DEF SealOn, ChainTyped
  <2>5. net' \subseteq Header
    <3>1. Sealed(u, e) \in Header
      BY <1>4, <2>1 DEF Sealed, Header
    <3> QED
      BY <1>4, <3>1 DEF SealOn, ChainTyped
  <2> QED
    BY <1>4, <2>2, <2>3, <2>4, <2>5 DEF SealOn, ChainTyped
<1>5. CASE SealNext(u, t)
  <2>1. enc[u][t].sid \in Sid
    BY <1>0, <1>5 DEF SealNext, Sid
  <2> QED
    BY <1>0, <1>4, <1>5, <2>1 DEF SealNext, ChainTyped
<1>6. CASE SealFirst(u, t)
  <2>1. NewSession(u).sid \in Sid /\ NewSession(u).row \in StoredRow
    <3>1. NewSession(u).sid = minted + 1 /\ minted \in 0..MaxSid /\ minted < MaxSid
      BY <1>6 DEF SealFirst, NewSession, ChainTyped
    <3>2. NewSession(u).row = [Absent EXCEPT !.role = "init", !.born = minted + 1]
      BY DEF NewSession
    <3>3. minted + 1 \in 0..(MaxSid + 1)
      BY <3>1
    <3>4. NewSession(u).row \in StoredRow
      BY <3>2, <3>3, RowUpdates
    <3> QED
      BY <3>1, <3>4 DEF Sid
  <2>2. minted' \in 0..MaxSid /\ NewSession(u).init = TRUE
    BY <1>6 DEF SealFirst, ChainTyped, NewSession
  <2> QED
    BY <1>4, <1>6, <2>1, <2>2 DEF SealFirst
<1> QED
  BY <1>1, <1>2, <1>3, <1>5, <1>6

LEMMA DecryptKeepsTypes ==
  ASSUME ChainTyped, Decrypt
  PROVE  ChainTyped'
<1> USE ConstantsTyped DEF copies, hist
<1>1. ASSUME NEW u \in User, NEW env \in net, Read(u, env)  PROVE ChainTyped'
  <2>1. env \in Header
    BY DEF ChainTyped
  <2>2. rows[u][env.sid] \in StoredRow
    BY <2>1 DEF ChainTyped, Header
  <2>3. [by |-> u, env |-> env, row |-> rows[u][env.sid],
         at |-> IF rows[u][env.sid].role = "none" THEN "loaded" ELSE "known"] \in Opening
    BY <2>1, <2>2 DEF Opening
  <2> QED
    BY <1>1, <2>3 DEF Read, ChainTyped
<1>2. ASSUME NEW d \in dec, Accept(d)  PROVE ChainTyped'
  <2> DEFINE row == [Absent EXCEPT !.role = "resp", !.born = Clock(d.by)]
  <2>1. row \in StoredRow
    BY ClockTyped, RowUpdates DEF ChainTyped, Opening
  <2>2. rows' = [rows EXCEPT ![d.by][d.env.sid] = row]
        /\ dec' = (dec \ {d}) \cup {[d EXCEPT !.at = "known", !.row = row]}
    BY <1>2 DEF Accept
  <2> HIDE DEF row
  <2>3. d \in Opening /\ d.by \in User /\ d.env.sid \in Sid
    BY DEF ChainTyped, Opening, Header
  <2>4. [d EXCEPT !.at = "known", !.row = row] \in Opening
    BY <2>1, <2>3 DEF Opening
  <2>5. rows' \in [User -> [Sid -> StoredRow]]
    BY <2>1, <2>2, <2>3 DEF ChainTyped
  <2>6. dec' \subseteq Opening
    BY <2>2, <2>4 DEF ChainTyped
  <2> QED
    BY <1>2, <2>5, <2>6 DEF Accept, ChainTyped
<1>3. ASSUME NEW d \in dec, Finish(d)  PROVE ChainTyped'
  <2>1. [d.row EXCEPT !.seen = d.env.ctr + 1] \in StoredRow
    <3>1. d.row \in StoredRow /\ d.env.ctr + 1 \in Nat
      BY DEF ChainTyped, Opening, Header
    <3> QED
      BY <3>1, RowUpdates
  <2>2. d.by \in User /\ d.env.sid \in Sid
    BY DEF ChainTyped, Opening, Header
  <2> QED
    BY <1>3, <2>1, <2>2 DEF Finish, ChainTyped
<1>4. ASSUME NEW d \in dec, Give(d)  PROVE ChainTyped'
  BY <1>4 DEF Give, ChainTyped
<1> QED
  BY <1>1, <1>2, <1>3, <1>4 DEF Decrypt

LEMMA KeepKeepsTypes ==
  ASSUME ChainTyped, NEW u \in User, Keep(u)
  PROVE  ChainTyped'
<1> USE AbsentIsRow DEF copies, hist, store
<1>1. CASE Shred(u)
  BY <1>1 DEF Shred, Nothing, ChainTyped
<1>2. CASE BackUp(u)
  BY <1>2 DEF BackUp, ChainTyped
<1>3. CASE Restore(u)
  BY <1>3 DEF Restore, ChainTyped
<1> QED
  BY <1>1, <1>2, <1>3 DEF Keep

-----------------------------------------------------------------------------
(* Counters run ahead of what was sealed with them. *)

On(m, u, s) == m.from = u /\ m.sid = s

\* The lock: one encrypt of a user at a time.
OneTab ==
  \A u \in User : \A t, v \in Tab : enc[u][t].at # "off" /\ enc[u][v].at # "off" => t = v

\* A session that is minted next is nowhere.
Minted ==
  /\ \A m \in sealed : m.sid <= minted
  /\ \A e \in net : e.sid <= minted
  /\ \A d \in dec : d.env.sid <= minted
  /\ \A u \in User, s \in Sid :
       rows[u][s].role # "none" \/ backup[u][s].role # "none" => s <= minted
  /\ \A u \in User, t \in Tab : enc[u][t].at = "loaded" => enc[u][t].sid <= minted

Ahead(u, s, row) == \A m \in sealed : On(m, u, s) => m.ctr < row.next \/ <<u, s>> \in back

LoadedAhead ==
  \A u \in User, t \in Tab :
    enc[u][t].at = "loaded" /\ enc[u][t].sid # 0 => Ahead(u, enc[u][t].sid, enc[u][t].row)

NonceInv == OneTab /\ LoadedAhead /\ CounterAhead /\ NonceOnceUnlessBack

\* Sealing with a row that is ahead leaves the counters ahead.
LEMMA SealingAhead ==
  ASSUME ChainTyped, NonceInv, NEW u \in User, NEW t \in Tab, NEW e, SealOn(u, t, e),
         e.sid \in Sid, e.row \in StoredRow, Ahead(u, e.sid, e.row),
         enc[u][t].at # "off"
  PROVE  NonceInv'
<1> DEFINE new == [sid |-> e.sid, from |-> u, ctr |-> e.row.next, n |-> Cardinality(sealed) + 1]
<1>1. /\ rows' = [rows EXCEPT ![u][e.sid] = Burned(e.row)]
      /\ sealed' = sealed \cup {new}
      /\ enc' = [enc EXCEPT ![u][t] = Idle]
      /\ back' = back
  BY DEF SealOn, hist
<1>2. new.sid = e.sid /\ new.from = u /\ new.ctr = e.row.next /\ e.row.next \in Nat
  BY DEF StoredRow
<1>3. Burned(e.row).next = e.row.next + 1
  BY DEF Burned, StoredRow
<1> HIDE DEF new
<1>4. \A m \in sealed : m.sid \in Sid /\ m.from \in User /\ m.ctr \in Nat
  BY DEF ChainTyped
<1>5. OneTab'
  BY <1>1 DEF NonceInv, OneTab, ChainTyped, Idle
<1>7. LoadedAhead'
  <2> SUFFICES ASSUME NEW v \in User, NEW w \in Tab,
                      enc'[v][w].at = "loaded", enc'[v][w].sid # 0
               PROVE  Ahead(v, enc[v][w].sid, enc[v][w].row)'
    BY DEF LoadedAhead
  <2>1. v # u
    <3>1. CASE w = t
      BY <1>1, <3>1 DEF ChainTyped, Idle
    <3>2. CASE w # t
      BY <1>1, <3>2 DEF ChainTyped, NonceInv, OneTab
    <3> QED
      BY <3>1, <3>2
  <2>2. enc'[v][w] = enc[v][w]
    BY <1>1, <2>1 DEF ChainTyped
  <2>3. Ahead(v, enc[v][w].sid, enc[v][w].row)
    BY <2>2 DEF NonceInv, LoadedAhead
  <2> QED
    BY <1>1, <1>2, <2>1, <2>2, <2>3 DEF Ahead, On
<1>8. CounterAhead'
  <2> SUFFICES ASSUME NEW m \in sealed'
               PROVE  \/ rows'[m.from][m.sid].role = "none"
                      \/ m.ctr < rows'[m.from][m.sid].next
                      \/ <<m.from, m.sid>> \in back'
    BY DEF CounterAhead
  <2>1. CASE m.from = u /\ m.sid = e.sid
    <3>1. rows'[m.from][m.sid] = Burned(e.row)
      BY <1>1, <2>1 DEF ChainTyped
    <3>2. m = new \/ m.ctr < e.row.next \/ <<u, e.sid>> \in back
      BY <1>1, <2>1 DEF Ahead, On
    <3>3. m.ctr \in Nat
      BY <1>1, <1>2, <1>4
    <3> QED
      BY <1>1, <1>2, <1>3, <2>1, <3>1, <3>2, <3>3
  <2>2. CASE ~(m.from = u /\ m.sid = e.sid)
    <3>1. m \in sealed
      BY <1>1, <1>2, <2>2
    <3>2. rows'[m.from][m.sid] = rows[m.from][m.sid]
      BY <1>1, <1>4, <2>2, <3>1 DEF ChainTyped
    <3> QED
      BY <1>1, <3>1, <3>2 DEF NonceInv, CounterAhead
  <2> QED
    BY <2>1, <2>2
<1>9. NonceOnceUnlessBack'
  <2>1. \A m \in sealed : m.sid = new.sid /\ m.from = new.from /\ m.ctr = new.ctr
          => <<m.from, m.sid>> \in back
    BY <1>2, <1>4 DEF Ahead, On
  <2>2. \A m \in sealed : m.sid = new.sid /\ m.from = new.from => <<m.from, m.sid>> = <<new.from, new.sid>>
    OBVIOUS
  <2> QED
    BY <1>1, <2>1, <2>2 DEF NonceInv, NonceOnceUnlessBack
<1> QED
  BY <1>5, <1>7, <1>8, <1>9 DEF NonceInv

LEMMA EncryptAhead ==
  ASSUME ChainTyped, Minted, NonceInv, NEW u \in User, NEW t \in Tab,
         Begin(u, t) \/ Retire(u, t) \/ Abandon(u, t) \/ SealNext(u, t) \/ SealFirst(u, t)
  PROVE  NonceInv'
<1> USE DEF copies, hist
<1>0. enc[u][t] \in Work /\ enc[u][t].row \in StoredRow /\ enc[u][t].sid \in 0..MaxSid
  BY DEF ChainTyped, Work
<1>1. CASE Begin(u, t)
  <2> DEFINE w == [at |-> "loaded", sid |-> Active(u),
                   row |-> IF Active(u) = 0 THEN Absent ELSE rows[u][Active(u)]]
  <2>1. enc' = [enc EXCEPT ![u][t] = w] /\ UNCHANGED <<rows, sealed, minted, back>>
    BY <1>1 DEF Begin
  <2>2. w.sid = Active(u) /\ (Active(u) # 0 => w.row = rows[u][Active(u)])
    OBVIOUS
  <2> HIDE DEF w
  <2>3. \A v \in Tab : enc[u][v].at = "off"
    BY <1>1 DEF Begin, Locked
  <2>4. Active(u) # 0 => Ahead(u, Active(u), rows[u][Active(u)])
    BY ActiveIsHeld DEF NonceInv, CounterAhead, Ahead, On
  <2>5. OneTab'
    BY <2>1, <2>3 DEF NonceInv, OneTab, ChainTyped
  <2>6. LoadedAhead'
    <3> SUFFICES ASSUME NEW x \in User, NEW v \in Tab,
                        enc'[x][v].at = "loaded", enc'[x][v].sid # 0
                 PROVE  Ahead(x, enc[x][v].sid, enc[x][v].row)'
      BY DEF LoadedAhead
    <3>1. CASE x = u /\ v = t
      <4>1. enc'[x][v] = w
        BY <2>1, <3>1 DEF ChainTyped
      <4> QED
        BY <2>1, <2>2, <2>4, <3>1, <4>1 DEF Ahead, On
    <3>2. CASE ~(x = u /\ v = t)
      <4>1. enc'[x][v] = enc[x][v]
        BY <2>1, <3>2 DEF ChainTyped
      <4> QED
        BY <2>1, <4>1 DEF NonceInv, LoadedAhead, Ahead, On
    <3> QED
      BY <3>1, <3>2
  <2> QED
    BY <2>1, <2>5, <2>6 DEF NonceInv, CounterAhead, NonceOnceUnlessBack
<1>2. CASE Retire(u, t)
  <2> DEFINE e == enc[u][t]
  <2>1. /\ rows' = [rows EXCEPT ![u][e.sid] = [e.row EXCEPT !.retired = TRUE]]
        /\ enc' = [enc EXCEPT ![u][t] = [Idle EXCEPT !.at = "fresh"]]
        /\ UNCHANGED <<sealed, minted, back>>
        /\ e.at = "loaded" /\ e.sid # 0
    BY <1>2 DEF Retire
  <2>2. [e.row EXCEPT !.retired = TRUE].next = e.row.next
    BY <1>0 DEF StoredRow
  <2>3. Ahead(u, e.sid, e.row)
    BY <2>1 DEF NonceInv, LoadedAhead
  <2>4. [Idle EXCEPT !.at = "fresh"].at = "fresh"
    BY DEF Idle
  <2>5. OneTab' /\ LoadedAhead'
    <3>1. \A x \in User, v \in Tab : ~(x = u /\ v = t) => enc'[x][v] = enc[x][v]
      BY <2>1 DEF ChainTyped
    <3>2. enc'[u][t].at = "fresh"
      BY <2>1, <2>4 DEF ChainTyped
    <3> QED
      BY <2>1, <3>1, <3>2 DEF NonceInv, OneTab, LoadedAhead, Ahead, On
  <2>6. CounterAhead'
    <3> SUFFICES ASSUME NEW m \in sealed
                 PROVE  \/ rows'[m.from][m.sid].role = "none"
                        \/ m.ctr < rows'[m.from][m.sid].next
                        \/ <<m.from, m.sid>> \in back
      BY <2>1 DEF CounterAhead
    <3>0. m.from \in User /\ m.sid \in Sid
      BY DEF ChainTyped
    <3>1. CASE m.from = u /\ m.sid = e.sid
      <4>1. rows'[m.from][m.sid].next = e.row.next
        BY <2>1, <2>2, <3>0, <3>1 DEF ChainTyped
      <4> QED
        BY <2>3, <3>1, <4>1 DEF Ahead, On
    <3>2. CASE ~(m.from = u /\ m.sid = e.sid)
      <4>1. rows'[m.from][m.sid] = rows[m.from][m.sid]
        BY <2>1, <3>0, <3>2 DEF ChainTyped
      <4> QED
        BY <4>1 DEF NonceInv, CounterAhead
    <3> QED
      BY <3>1, <3>2
  <2> QED
    BY <2>1, <2>5, <2>6 DEF NonceInv, NonceOnceUnlessBack
<1>3. CASE Abandon(u, t)
  <2>1. enc' = [enc EXCEPT ![u][t] = Idle] /\ UNCHANGED <<rows, sealed, minted, back>>
    BY <1>3 DEF Abandon
  <2>2. OneTab' /\ LoadedAhead'
    BY <2>1 DEF NonceInv, OneTab, LoadedAhead, Ahead, On, ChainTyped, Idle
  <2> QED
    BY <2>1, <2>2 DEF NonceInv, CounterAhead, NonceOnceUnlessBack
<1>4. CASE SealNext(u, t)
  <2> DEFINE e == [sid |-> enc[u][t].sid, init |-> FALSE, row |-> enc[u][t].row]
  <2>1. SealOn(u, t, e) /\ minted' = minted /\ enc[u][t].at = "loaded" /\ enc[u][t].sid # 0
    BY <1>4 DEF SealNext
  <2>2. e.sid \in Sid /\ e.row \in StoredRow
    BY <1>0, <2>1 DEF Sid
  <2>3. Ahead(u, e.sid, e.row)
    BY <2>1 DEF NonceInv, LoadedAhead
  <2> HIDE DEF e
  <2> QED
    BY <2>1, <2>2, <2>3, SealingAhead
<1>5. CASE SealFirst(u, t)
  <2> DEFINE e == NewSession(u)
  <2>1. SealOn(u, t, e) /\ minted' = minted + 1 /\ minted < MaxSid /\ enc[u][t].at # "off"
    BY <1>5 DEF SealFirst
  <2>2. e.sid = minted + 1 /\ e.row = [Absent EXCEPT !.role = "init", !.born = minted + 1]
    BY DEF NewSession
  <2>3. e.sid \in Sid /\ e.row \in StoredRow
    <3>1. minted + 1 \in 0..(MaxSid + 1)
      BY <2>1, ConstantsTyped DEF ChainTyped
    <3>2. \A b \in 0..(MaxSid + 1) : [Absent EXCEPT !.role = "init", !.born = b] \in StoredRow
      BY RowUpdates
    <3>3. e.row \in StoredRow
      BY <2>2, <3>1, <3>2
    <3> QED
      BY <2>1, <2>2, <3>3, ConstantsTyped DEF Sid, ChainTyped
  <2>4. \A m \in sealed : m.sid # e.sid
    BY <2>1, <2>2, ConstantsTyped DEF Minted, ChainTyped, Sid
  <2>5. Ahead(u, e.sid, e.row)
    BY <2>4 DEF Ahead, On
  <2> HIDE DEF e
  <2> QED
    BY <2>1, <2>3, <2>5, SealingAhead
<1> QED
  BY <1>1, <1>2, <1>3, <1>4, <1>5

\* Steps that seal nothing, load nothing and take no mark back: what they do to the rows
\* of a user is to empty them, to leave counter and role alone, or to leave a mark.
LEMMA OthersAhead ==
  ASSUME ChainTyped, NonceInv, UNCHANGED sealed, back \subseteq back',
         \A u \in User, t \in Tab : enc'[u][t] = enc[u][t] \/ enc'[u][t] = Idle,
         \A u \in User, s \in Sid : \/ rows'[u][s].role = "none"
                                    \/ /\ rows[u][s].role # "none"
                                       /\ rows'[u][s].next = rows[u][s].next
                                    \/ <<u, s>> \in back'
                                    \/ ~Wrote(u, s)
  PROVE  NonceInv'
<1>1. OneTab'
  BY DEF NonceInv, OneTab, Idle
<1>2. LoadedAhead'
  BY DEF NonceInv, LoadedAhead, Ahead, On, Idle
<1>3. CounterAhead'
  BY DEF NonceInv, CounterAhead, ChainTyped, Wrote
<1>4. NonceOnceUnlessBack'
  BY DEF NonceInv, NonceOnceUnlessBack
<1> QED
  BY <1>1, <1>2, <1>3, <1>4 DEF NonceInv

LEMMA DecryptAhead ==
  ASSUME ChainTyped, NonceInv, Decrypt
  PROVE  NonceInv'
<1> USE DEF copies, hist
<1>1. ASSUME NEW u \in User, NEW env \in net, Read(u, env)  PROVE NonceInv'
  BY <1>1, OthersAhead DEF Read
<1>2. ASSUME NEW d \in dec, Give(d)  PROVE NonceInv'
  BY <1>2, OthersAhead DEF Give
<1>3. ASSUME NEW d \in dec, Accept(d)  PROVE NonceInv'
  <2>1. d.by \in User /\ d.env.sid \in Sid
    BY DEF ChainTyped, Opening, Header
  <2>2. UNCHANGED <<sealed, enc>> /\ back \subseteq back'
    BY <1>3 DEF Accept
  <2>3. Wrote(d.by, d.env.sid) => <<d.by, d.env.sid>> \in back'
    BY <1>3 DEF Accept
  <2>4. \A u \in User, s \in Sid : (u = d.by /\ s = d.env.sid) \/ rows'[u][s] = rows[u][s]
    BY <1>3, <2>1 DEF Accept, ChainTyped
  <2> QED
    BY <2>2, <2>3, <2>4, OthersAhead
<1>4. ASSUME NEW d \in dec, Finish(d)  PROVE NonceInv'
  <2> DEFINE u == d.by
             s == d.env.sid
             row == [d.row EXCEPT !.seen = d.env.ctr + 1]
  <2>1. u \in User /\ s \in Sid /\ d.row \in StoredRow
    BY DEF ChainTyped, Opening, Header
  <2>2. row.next = d.row.next /\ row.role = d.row.role
    BY <2>1 DEF StoredRow
  <2>3. UNCHANGED <<sealed, enc>> /\ back \subseteq back'
    BY <1>4 DEF Finish
  <2>4. \/ rows' = rows
        \/ /\ rows' = [rows EXCEPT ![u][s] = row]
           /\ \/ rows[u][s].next = d.row.next /\ rows[u][s].role = d.row.role
              \/ <<u, s>> \in back'
    BY <1>4 DEF Finish
  <2> HIDE DEF u, s, row
  <2>5. \A v \in User, r \in Sid : ~(v = u /\ r = s) => rows'[v][r] = rows[v][r]
    BY <2>1, <2>4 DEF ChainTyped
  <2>6. \/ rows'[u][s] = rows[u][s]
        \/ rows'[u][s] = row /\ rows[u][s].next = row.next /\ rows[u][s].role = row.role
        \/ <<u, s>> \in back'
    BY <2>1, <2>2, <2>4 DEF ChainTyped
  <2> QED
    BY <2>1, <2>3, <2>5, <2>6, OthersAhead
<1> QED
  BY <1>1, <1>2, <1>3, <1>4 DEF Decrypt

LEMMA KeepAhead ==
  ASSUME ChainTyped, NonceInv, NEW u \in User, Keep(u)
  PROVE  NonceInv'
<1> USE DEF copies, hist, store
<1>1. CASE Shred(u)
  <2>1. UNCHANGED <<sealed, enc, back>>
    BY <1>1 DEF Shred
  <2>2. \A v \in User, s \in Sid : rows'[v][s].role = "none" \/ rows'[v][s] = rows[v][s]
    BY <1>1 DEF Shred, Nothing, Absent, ChainTyped
  <2> QED
    BY <2>1, <2>2, OthersAhead
<1>2. CASE BackUp(u)
  BY <1>2, OthersAhead DEF BackUp
<1>3. CASE Restore(u)
  <2>1. UNCHANGED sealed /\ back \subseteq back'
    BY <1>3 DEF Restore
  <2>2. \A v \in User, t \in Tab : enc'[v][t] = enc[v][t] \/ enc'[v][t] = Idle
    BY <1>3 DEF Restore, ChainTyped
  <2>3. \A v \in User, s \in Sid : v # u => rows'[v][s] = rows[v][s]
    BY <1>3 DEF Restore, ChainTyped
  <2>4. \A s \in Sid : \/ rows'[u][s].role = "none"
                       \/ rows'[u][s] = rows[u][s]
                       \/ <<u, s>> \in back'
    BY <1>3 DEF Restore, ChainTyped
  <2> QED
    BY <2>1, <2>2, <2>3, <2>4, OthersAhead
<1> QED
  BY <1>1, <1>2, <1>3 DEF Keep

-----------------------------------------------------------------------------
(* A session that is minted next is nowhere yet. *)

\* The parts of Minted a step disturbs are few: rows that are the old ones, those of a
\* session that exists, or a backup's, and envelopes and messages of such a session.
LEMMA EncryptMinted ==
  ASSUME ChainTyped, Minted, NEW u \in User, NEW t \in Tab,
         Begin(u, t) \/ Retire(u, t) \/ Abandon(u, t) \/ SealNext(u, t) \/ SealFirst(u, t)
  PROVE  Minted'
<1> USE ConstantsTyped DEF copies, hist
<1>0. /\ enc[u][t] \in Work /\ enc[u][t].sid \in 0..MaxSid /\ minted \in 0..MaxSid
      /\ enc[u][t].at = "loaded" => enc[u][t].sid <= minted
  BY DEF ChainTyped, Work, Minted
<1>1. CASE Begin(u, t)
  <2> DEFINE w == [at |-> "loaded", sid |-> Active(u),
                   row |-> IF Active(u) = 0 THEN Absent ELSE rows[u][Active(u)]]
  <2>1. enc' = [enc EXCEPT ![u][t] = w]
        /\ UNCHANGED <<rows, dec, net, sealed, minted, backup>>
    BY <1>1 DEF Begin
  <2>2. w.sid = Active(u)
    OBVIOUS
  <2> HIDE DEF w
  <2>3. Active(u) <= minted
    BY <1>0, ActiveIsHeld DEF Minted
  <2>4. \A v \in User, x \in Tab : enc'[v][x] = enc[v][x] \/ enc'[v][x] = w
    BY <2>1 DEF ChainTyped
  <2> QED
    BY <2>1, <2>2, <2>3, <2>4 DEF Minted
<1>2. CASE Retire(u, t)
  <2> DEFINE s == enc[u][t].sid
             row == [enc[u][t].row EXCEPT !.retired = TRUE]
             w == [Idle EXCEPT !.at = "fresh"]
  <2>1. /\ rows' = [rows EXCEPT ![u][s] = row]
        /\ enc' = [enc EXCEPT ![u][t] = w]
        /\ UNCHANGED <<dec, net, sealed, minted, backup>>
        /\ enc[u][t].at = "loaded"
    BY <1>2 DEF Retire
  <2>2. w.at = "fresh"
    BY DEF Idle
  <2>3. s <= minted
    BY <1>0, <2>1
  <2> HIDE DEF s, row, w
  <2>4. \A v \in User, x \in Tab : enc'[v][x] = enc[v][x] \/ enc'[v][x] = w
    BY <2>1 DEF ChainTyped
  <2>5. \A v \in User, r \in Sid : rows'[v][r] = rows[v][r] \/ r = s
    BY <2>1 DEF ChainTyped
  <2> QED
    BY <2>1, <2>2, <2>3, <2>4, <2>5 DEF Minted
<1>3. CASE Abandon(u, t)
  <2>1. enc' = [enc EXCEPT ![u][t] = Idle]
        /\ UNCHANGED <<rows, dec, net, sealed, minted, backup>>
    BY <1>3 DEF Abandon
  <2>2. \A v \in User, x \in Tab : enc'[v][x] = enc[v][x] \/ enc'[v][x] = Idle
    BY <2>1 DEF ChainTyped
  <2> QED
    BY <2>1, <2>2 DEF Minted, Idle
<1>4. ASSUME NEW e, SealOn(u, t, e), minted' \in Nat, minted <= minted', e.sid <= minted'
      PROVE  Minted'
  <2> DEFINE new == [sid |-> e.sid, from |-> u, ctr |-> e.row.next,
                     n |-> Cardinality(sealed) + 1]
  <2>1. /\ rows' = [rows EXCEPT ![u][e.sid] = Burned(e.row)]
        /\ enc' = [enc EXCEPT ![u][t] = Idle]
        /\ sealed' = sealed \cup {new}
        /\ net' = net \cup {Sealed(u, e)}
        /\ UNCHANGED <<dec, backup>>
    BY <1>4 DEF SealOn
  <2>2. new.sid = e.sid /\ Sealed(u, e).sid = e.sid
    BY DEF Sealed
  <2> HIDE DEF new
  <2>3. \A n \in Int : n <= minted => n <= minted'
    BY <1>0, <1>4
  <2>4. \A v \in User, x \in Tab :
          (enc'[v][x] = enc[v][x] /\ enc[v][x].sid \in Int) \/ enc'[v][x] = Idle
    BY <2>1 DEF ChainTyped, Work
  <2>5. \A v \in User, r \in Sid : r \in Int /\ (rows'[v][r] = rows[v][r] \/ r = e.sid)
    BY <2>1 DEF ChainTyped, Sid
  <2>6. \A m \in sealed' : m.sid <= minted'
    BY <1>4, <2>1, <2>2, <2>3 DEF Minted, ChainTyped, Sid
  <2>7. \A m \in net' : m.sid <= minted'
    BY <1>4, <2>1, <2>2, <2>3 DEF Minted, ChainTyped, Header, Sid
  <2>8. \A d \in dec' : d.env.sid <= minted'
    BY <2>1, <2>3 DEF Minted, ChainTyped, Opening, Header, Sid
  <2>9. \A v \in User, r \in Sid :
          rows'[v][r].role # "none" \/ backup'[v][r].role # "none" => r <= minted'
    BY <1>4, <2>1, <2>3, <2>5 DEF Minted
  <2>10. \A v \in User, x \in Tab : enc'[v][x].at = "loaded" => enc'[v][x].sid <= minted'
    BY <2>3, <2>4 DEF Minted, Idle
  <2> QED
    BY <2>6, <2>7, <2>8, <2>9, <2>10 DEF Minted
<1>5. CASE SealNext(u, t)
  <2> DEFINE e == [sid |-> enc[u][t].sid, init |-> FALSE, row |-> enc[u][t].row]
  <2>1. SealOn(u, t, e) /\ minted' = minted /\ enc[u][t].at = "loaded"
    BY <1>5 DEF SealNext
  <2>2. e.sid = enc[u][t].sid
    OBVIOUS
  <2> HIDE DEF e
  <2> QED
    BY <1>0, <1>4, <2>1, <2>2
<1>6. CASE SealFirst(u, t)
  <2> DEFINE e == NewSession(u)
  <2>1. SealOn(u, t, e) /\ minted' = minted + 1
    BY <1>6 DEF SealFirst
  <2>2. e.sid = minted + 1
    BY DEF NewSession
  <2> HIDE DEF e
  <2> QED
    BY <1>0, <1>4, <2>1, <2>2
<1> QED
  BY <1>1, <1>2, <1>3, <1>5, <1>6

\* Decrypts, shreds, backups and restores mint nothing and move what there is.
LEMMA OthersMinted ==
  ASSUME ChainTyped, Minted, UNCHANGED <<sealed, net, minted>>,
         \A d \in dec' : d.env.sid <= minted,
         \A u \in User, t \in Tab : enc'[u][t] = enc[u][t] \/ enc'[u][t] = Idle,
         \A u \in User, s \in Sid :
           /\ \/ rows'[u][s] \in {rows[u][s], backup[u][s]}
              \/ rows'[u][s].role = "none" \/ s <= minted
           /\ backup'[u][s] \in {rows[u][s], backup[u][s]}
  PROVE  Minted'
BY DEF Minted, Idle

LEMMA DecryptMinted ==
  ASSUME ChainTyped, Minted, Decrypt
  PROVE  Minted'
<1> USE DEF copies, hist
<1>1. ASSUME NEW u \in User, NEW env \in net, Read(u, env)  PROVE Minted'
  <2>1. \A d \in dec' : d \in dec \/ d.env = env
    BY <1>1 DEF Read
  <2>2. \A d \in dec' : d.env.sid <= minted
    BY <2>1 DEF Minted
  <2> QED
    BY <1>1, <2>2, OthersMinted DEF Read
<1>2. ASSUME NEW d \in dec, Give(d)  PROVE Minted'
  <2>1. \A o \in dec' : o.env.sid <= minted
    BY <1>2 DEF Give, Minted
  <2> QED
    BY <1>2, <2>1, OthersMinted DEF Give
<1>3. ASSUME NEW d \in dec, Accept(d)  PROVE Minted'
  <2> DEFINE row == [Absent EXCEPT !.role = "resp", !.born = Clock(d.by)]
             open == [d EXCEPT !.at = "known", !.row = row]
  <2>1. d \in Opening /\ d.by \in User /\ d.env.sid \in Sid /\ d.env.sid <= minted
    BY DEF ChainTyped, Opening, Header, Minted
  <2>2. open.env = d.env
    BY <2>1 DEF Opening
  <2>3. /\ rows' = [rows EXCEPT ![d.by][d.env.sid] = row]
        /\ dec' = (dec \ {d}) \cup {open}
        /\ UNCHANGED <<enc, net, sealed, minted, backup>>
    BY <1>3 DEF Accept
  <2> HIDE DEF row, open
  <2>4. \A o \in dec' : o.env.sid <= minted
    BY <2>1, <2>2, <2>3 DEF Minted
  <2>5. \A v \in User, s \in Sid : rows'[v][s] = rows[v][s] \/ s <= minted
    BY <2>1, <2>3 DEF ChainTyped
  <2> QED
    BY <2>3, <2>4, <2>5, OthersMinted
<1>4. ASSUME NEW d \in dec, Finish(d)  PROVE Minted'
  <2> DEFINE row == [d.row EXCEPT !.seen = d.env.ctr + 1]
  <2>1. d.by \in User /\ d.env.sid \in Sid /\ d.env.sid <= minted
    BY DEF ChainTyped, Opening, Header, Minted
  <2>2. /\ rows' \in {rows, [rows EXCEPT ![d.by][d.env.sid] = row]}
        /\ dec' = dec \ {d}
        /\ UNCHANGED <<enc, net, sealed, minted, backup>>
    BY <1>4 DEF Finish
  <2> HIDE DEF row
  <2>3. \A o \in dec' : o.env.sid <= minted
    BY <2>2 DEF Minted
  <2>4. \A v \in User, s \in Sid : rows'[v][s] = rows[v][s] \/ s <= minted
    <3>1. CASE rows' = rows
      BY <3>1
    <3>2. CASE rows' = [rows EXCEPT ![d.by][d.env.sid] = row]
      BY <2>1, <3>2 DEF ChainTyped
    <3> QED
      BY <2>2, <3>1, <3>2
  <2> QED
    BY <2>2, <2>3, <2>4, OthersMinted
<1> QED
  BY <1>1, <1>2, <1>3, <1>4 DEF Decrypt

LEMMA KeepMinted ==
  ASSUME ChainTyped, Minted, NEW u \in User, Keep(u)
  PROVE  Minted'
<1> USE DEF copies, hist, store
<1>0. \A d \in dec : d.env.sid <= minted
  BY DEF Minted
<1>1. CASE Shred(u)
  <2>1. UNCHANGED <<sealed, net, minted, enc, dec, backup>>
    BY <1>1 DEF Shred
  <2>2. \A v \in User, s \in Sid : rows'[v][s].role = "none" \/ rows'[v][s] = rows[v][s]
    BY <1>1 DEF Shred, Nothing, Absent, ChainTyped
  <2> QED
    BY <1>0, <2>1, <2>2, OthersMinted
<1>2. CASE BackUp(u)
  <2>1. UNCHANGED <<sealed, net, minted, enc, dec, rows>>
        /\ \E kept \in {rows[u], backup[u]} : backup' = [backup EXCEPT ![u] = kept]
    BY <1>2 DEF BackUp
  <2>2. \A v \in User, s \in Sid : backup'[v][s] \in {rows[v][s], backup[v][s]}
    BY <2>1 DEF ChainTyped
  <2> QED
    BY <1>0, <2>1, <2>2, OthersMinted
<1>3. CASE Restore(u)
  <2>1. UNCHANGED <<sealed, net, minted, backup>> /\ dec' \subseteq dec
    BY <1>3 DEF Restore
  <2>2. \A v \in User, t \in Tab : enc'[v][t] = enc[v][t] \/ enc'[v][t] = Idle
    BY <1>3 DEF Restore, ChainTyped
  <2>3. \A v \in User, s \in Sid : rows'[v][s] \in {rows[v][s], backup[v][s]}
    BY <1>3 DEF Restore, ChainTyped
  <2>4. \A d \in dec' : d.env.sid <= minted
    BY <1>0, <2>1
  <2> QED
    BY <2>1, <2>2, <2>3, <2>4, OthersMinted
<1> QED
  BY <1>1, <1>2, <1>3 DEF Keep

-----------------------------------------------------------------------------
(* The invariant holds always. *)

ChainInv == ChainTyped /\ Minted /\ NonceInv

LEMMA InitChain == Init => ChainInv
<1> SUFFICES ASSUME Init PROVE ChainInv
  OBVIOUS
<1>1. ChainTyped
  BY AbsentIsRow, ConstantsTyped DEF Init, Nothing, ChainTyped
<1>2. Minted
  BY DEF Init, Nothing, Absent, Idle, Minted
<1>3. NonceInv
  BY DEF Init, Idle, NonceInv, OneTab, LoadedAhead, CounterAhead, NonceOnceUnlessBack
<1> QED
  BY <1>1, <1>2, <1>3 DEF ChainInv

LEMMA ChainStep == ChainInv /\ [Next]_vars => ChainInv'
<1> SUFFICES ASSUME ChainInv, [Next]_vars PROVE ChainInv'
  OBVIOUS
<1> USE DEF ChainInv
<1>1. CASE Decrypt
  BY <1>1, DecryptKeepsTypes, DecryptMinted, DecryptAhead
<1>2. ASSUME NEW u \in User, Encrypt(u)  PROVE ChainInv'
  <2>1. PICK t \in Tab : Begin(u, t) \/ Retire(u, t) \/ Abandon(u, t) \/ SealNext(u, t) \/ SealFirst(u, t)
    BY <1>2 DEF Encrypt
  <2> QED
    BY <2>1, EncryptKeepsTypes, EncryptMinted, EncryptAhead
<1>3. ASSUME NEW u \in User, Keep(u)  PROVE ChainInv'
  BY <1>3, KeepKeepsTypes, KeepMinted, KeepAhead
<1>4. CASE UNCHANGED vars
  <2> USE <1>4 DEF vars, store, copies, hist
  <2>1. ChainTyped'
    BY DEF ChainTyped
  <2>2. Minted'
    BY DEF Minted
  <2>3. OneTab' /\ LoadedAhead'
    BY DEF NonceInv, OneTab, LoadedAhead, Ahead, On
  <2>4. CounterAhead' /\ NonceOnceUnlessBack'
    BY DEF NonceInv, CounterAhead, NonceOnceUnlessBack
  <2> QED
    BY <2>1, <2>2, <2>3, <2>4 DEF NonceInv
<1> QED
  BY <1>1, <1>2, <1>3, <1>4 DEF Next

\* In every reachable state the types, the bound on minted sessions and the counters hold.
LEMMA ChainAlways == Spec => []ChainInv
<1>1. Init => ChainInv
  BY InitChain
<1>2. ChainInv /\ [Next]_vars => ChainInv'
  BY ChainStep
<1> QED
  BY <1>1, <1>2, PTL DEF Spec

\* encrypt's promise: no message key and nonce of a session ever seal two messages, as long
\* as no unlocked decrypt saved an older row, no envelope was accepted again after its
\* session was answered on, and no restore brought an old row back.
THEOREM NonceOnceAlways == Spec => []NonceOnceUnlessBack
<1>1. ChainInv => NonceOnceUnlessBack
  BY DEF ChainInv, NonceInv
<1> QED
  BY <1>1, ChainAlways, PTL

\* burn, then seal: a stored row's counter is above every counter sealed on the session,
\* under the same three provisos.
THEOREM CounterAheadAlways == Spec => []CounterAhead
<1>1. ChainInv => CounterAhead
  BY DEF ChainInv, NonceInv
<1> QED
  BY <1>1, ChainAlways, PTL

-----------------------------------------------------------------------------
(* Every session is announced. *)

\* The envelope with the init block of every session minted is on the server.
Announced == \A s \in Sid : s <= minted => \E env \in net : env.sid = s /\ env.init

\* Only SealFirst mints, and the envelope it seals is the first of its session.
LEMMA StepAnnounced ==
  ASSUME ChainInv, Announced, [Next]_vars
  PROVE  Announced'
<1> USE ConstantsTyped DEF copies, hist, store, vars
<1>1. ASSUME net \subseteq net', UNCHANGED minted  PROVE Announced'
  BY <1>1 DEF Announced
<1>2. CASE UNCHANGED vars
  BY <1>1, <1>2
<1>3. CASE Decrypt
  BY <1>1, <1>3 DEF Decrypt, Read, Accept, Finish, Give
<1>4. ASSUME NEW u \in User, Keep(u)  PROVE Announced'
  BY <1>1, <1>4 DEF Keep, Shred, BackUp, Restore
<1>5. ASSUME NEW u \in User, NEW t \in Tab, SealFirst(u, t)  PROVE Announced'
  <2> DEFINE env == Sealed(u, NewSession(u))
  <2>1. net' = net \cup {env} /\ minted' = minted + 1
    BY <1>5 DEF SealFirst, SealOn
  <2>2. env.sid = minted + 1 /\ env.init
    BY DEF Sealed, NewSession, Absent
  <2> HIDE DEF env
  <2>3. minted \in Nat /\ \A s \in Sid : s <= minted + 1 => s <= minted \/ s = minted + 1
    BY DEF ChainInv, ChainTyped, Sid
  <2> QED
    BY <2>1, <2>2, <2>3 DEF Announced
<1>6. ASSUME NEW u \in User, NEW t \in Tab,
             Begin(u, t) \/ Retire(u, t) \/ Abandon(u, t) \/ SealNext(u, t)
      PROVE  Announced'
  BY <1>1, <1>6 DEF Begin, Retire, Abandon, SealNext, SealOn
<1> QED
  BY <1>2, <1>3, <1>4, <1>5, <1>6 DEF Next, Encrypt

\* encrypt never sends on a session the peer cannot know of: the peer holds it, or its init
\* envelope is there to be read, or one of the two deleted it, refused it or went back.
THEOREM PeerHasSessionAlways == Spec => []PeerHasSession
<1>1. Init => Announced
  BY DEF Init, Announced, Sid
<1>2. ChainInv /\ Announced /\ [Next]_vars => Announced'
  BY StepAnnounced
<1>3. ChainInv /\ Announced => PeerHasSession
  <2> SUFFICES ASSUME ChainInv, Announced, NEW u \in User, Active(u) # 0
               PROVE  \E env \in net : env.sid = Active(u) /\ env.init
    BY DEF PeerHasSession
  <2>1. Active(u) \in Sid /\ rows[u][Active(u)].role # "none"
    BY ActiveIsHeld DEF ChainInv
  <2>2. Active(u) <= minted
    BY <2>1 DEF ChainInv, Minted
  <2> QED
    BY <2>1, <2>2 DEF Announced
<1> QED
  BY <1>1, <1>2, <1>3, ChainAlways, PTL DEF Spec

-----------------------------------------------------------------------------
(* What a row counts, and one session to send on. *)

\* x is what the store, the backup, a decrypt or an encrypt has of u's session s.
IsCopy(u, s, x) ==
  \/ x = rows[u][s] \/ x = backup[u][s]
  \/ \E d \in dec : d.by = u /\ d.env.sid = s /\ x = d.row
  \/ \E t \in Tab : enc[u][t].at = "loaded" /\ enc[u][t].sid = s /\ x = enc[u][t].row

\* A row counts no more than was sealed, and an own session's birth is its number.
Copied ==
  \A u \in User, s \in Sid : \A x : IsCopy(u, s, x) =>
    /\ x.next <= Cardinality(sealed) /\ x.seen <= Cardinality(sealed)
    /\ x.role = "init" => x.born = s

\* No counter reaches the number of messages sealed.
Sized ==
  /\ IsFiniteSet(sealed) /\ Cardinality(sealed) <= MaxSealed
  /\ \A m \in sealed : /\ m \in [sid : Sid, from : User, ctr : Nat, n : Nat]
                       /\ m.ctr < Cardinality(sealed) /\ 0 < m.n /\ m.n <= Cardinality(sealed)
  /\ \A e \in net : e.ctr < Cardinality(sealed)
  /\ \A d \in dec : d.env.ctr < Cardinality(sealed)

\* An encrypt without a session holds no row, and reads are few.
Roomy ==
  /\ \A u \in User, t \in Tab :
       enc[u][t].at # "loaded" \/ enc[u][t].sid = 0 => enc[u][t].row = Absent
  /\ IsFiniteSet(dec) /\ Cardinality(dec) <= MaxReads
  /\ due \in [User -> BOOLEAN] /\ moves \in 0..MaxMoves
  /\ back \subseteq User \X Sid /\ cut \subseteq User \X Sid

LEMMA CopyTyped ==
  ASSUME ChainTyped, NEW u \in User, NEW s \in Sid, NEW x, IsCopy(u, s, x)
  PROVE  x \in StoredRow /\ x.next \in Nat /\ x.seen \in Nat
<1>1. x \in StoredRow
  BY DEF ChainTyped, IsCopy, Opening, Work
<1> QED
  BY <1>1 DEF StoredRow

LEMMA SizeIsNumber ==
  ASSUME Sized
  PROVE  Cardinality(sealed) \in Nat
BY FS_CardinalityType DEF Sized

\* One message more.
LEMMA SealGrows ==
  ASSUME ChainTyped, Sized, NEW u \in User, NEW t \in Tab, NEW e, e.sid \in Sid,
         e.row \in StoredRow, e.row.next <= Cardinality(sealed), SealOn(u, t, e)
  PROVE  Sized' /\ Cardinality(sealed)' = Cardinality(sealed) + 1
<1> DEFINE m == [sid |-> e.sid, from |-> u, ctr |-> e.row.next, n |-> Cardinality(sealed) + 1]
<1>1. /\ sealed' = sealed \cup {m} /\ net' = net \cup {Sealed(u, e)} /\ dec' = dec
      /\ Cardinality(sealed) < MaxSealed
  BY DEF SealOn
<1>2. Cardinality(sealed) \in Nat /\ e.row.next \in Nat
  BY SizeIsNumber DEF StoredRow
<1>3. /\ m \in [sid : Sid, from : User, ctr : Nat, n : Nat] /\ m.ctr = e.row.next
      /\ m.n = Cardinality(sealed) + 1
  BY <1>2
<1> HIDE DEF m
<1>4. m \notin sealed
  <2>1. \A k \in sealed : k.n <= Cardinality(sealed) /\ k.n \in Nat
    BY DEF Sized
  <2> QED
    BY <1>2, <1>3, <2>1
<1>5. IsFiniteSet(sealed') /\ Cardinality(sealed') = Cardinality(sealed) + 1
  BY <1>1, <1>4, FS_AddElement DEF Sized
<1>6. Sealed(u, e).ctr = e.row.next
  BY DEF Sealed
<1> DEFINE c == Cardinality(sealed)
           d == Cardinality(sealed')
<1>7. c \in Nat /\ d = c + 1 /\ c < MaxSealed
  BY <1>1, <1>2, <1>5
<1>8. \A k \in sealed' : /\ k \in [sid : Sid, from : User, ctr : Nat, n : Nat]
                         /\ k.ctr < d /\ 0 < k.n /\ k.n <= d
  <2> SUFFICES ASSUME NEW k \in sealed'
               PROVE  /\ k \in [sid : Sid, from : User, ctr : Nat, n : Nat]
                      /\ k.ctr < d /\ 0 < k.n /\ k.n <= d
    OBVIOUS
  <2>1. CASE k \in sealed
    <3>1. k \in [sid : Sid, from : User, ctr : Nat, n : Nat] /\ k.ctr < c /\ 0 < k.n /\ k.n <= c
      BY <2>1 DEF Sized
    <3>2. k.ctr \in Nat /\ k.n \in Nat
      BY <3>1
    <3> HIDE DEF c, d
    <3> QED
      BY <1>7, <3>1, <3>2
  <2>2. CASE k = m
    BY <1>2, <1>3, <1>7, <2>2
  <2> QED
    BY <1>1, <2>1, <2>2
<1>9. \A k \in net' : k.ctr < d
  <2> SUFFICES ASSUME NEW k \in net' PROVE k.ctr < d
    OBVIOUS
  <2>1. CASE k \in net
    <3>1. k.ctr < c /\ k.ctr \in Nat
      BY <2>1 DEF Sized, ChainTyped, Header
    <3> HIDE DEF c, d
    <3> QED
      BY <1>7, <3>1
  <2>2. CASE k = Sealed(u, e)
    BY <1>2, <1>6, <1>7, <2>2
  <2> QED
    BY <1>1, <2>1, <2>2
<1>10. \A o \in dec' : o.env.ctr < d
  <2> SUFFICES ASSUME NEW o \in dec PROVE o.env.ctr < d
    BY <1>1
  <2>1. o.env.ctr < c /\ o.env.ctr \in Nat
    BY DEF Sized, ChainTyped, Opening, Header
  <2> HIDE DEF c, d
  <2> QED
    BY <1>7, <2>1
<1>11. d <= MaxSealed
  BY <1>7, ConstantsTyped
<1> QED
  BY <1>5, <1>8, <1>9, <1>10, <1>11 DEF Sized

-----------------------------------------------------------------------------
(* Where a copy comes from. *)

\* u may yet send on a session of its own: it is in the store or in an encrypt's hands.
Alive(u, q) ==
  /\ <<u, q>> \notin back
  /\ \/ rows[u][q].role = "init" /\ ~rows[u][q].retired
     \/ \E t \in Tab : /\ enc[u][t].at = "loaded" /\ enc[u][t].sid = q
                       /\ enc[u][t].row.role = "init"

\* No own session is younger than the one that is alive.
LastAlive ==
  \A u \in User, q, s \in Sid : Alive(u, q) /\ q < s =>
    \A x : IsCopy(u, s, x) => x.role # "init"

\* Only the session an encrypt has loaded is alive, and none once it goes for a new one.
Waiting ==
  \A u \in User, t \in Tab, q \in Sid : Alive(u, q) =>
    /\ enc[u][t].at # "fresh"
    /\ enc[u][t].at = "loaded" => enc[u][t].sid = q

\* Steps that move rows about, or empty them.
LEMMA MovedCopies ==
  ASSUME ChainTyped, NEW v \in User, NEW s \in Sid, NEW x, IsCopy(v, s, x)',
         rows'[v][s] \in {rows[v][s], backup[v][s], Absent},
         backup'[v][s] \in {rows[v][s], backup[v][s]},
         \A d \in dec' : d \in dec \/ d.row = rows[d.by][d.env.sid],
         \A t \in Tab : \/ enc'[v][t] = enc[v][t] \/ enc'[v][t].at = "off"
                        \/ (enc'[v][t].sid = s => enc'[v][t].row = rows[v][s])
  PROVE  IsCopy(v, s, x) \/ x = Absent
<1>1. CASE x = rows'[v][s] \/ x = backup'[v][s]
  BY <1>1 DEF IsCopy
<1>2. ASSUME NEW d \in dec', d.by = v, d.env.sid = s, x = d.row
      PROVE  IsCopy(v, s, x)
  BY <1>2 DEF IsCopy
<1>3. ASSUME NEW t \in Tab, enc'[v][t].at = "loaded", enc'[v][t].sid = s, x = enc'[v][t].row
      PROVE  IsCopy(v, s, x)
  BY <1>3 DEF IsCopy
<1> QED
  BY <1>1, <1>2, <1>3 DEF IsCopy

\* Steps that write one row.
LEMMA WrittenCopies ==
  ASSUME ChainTyped, NEW u \in User, NEW r \in Sid, NEW row,
         \A v \in User, s \in Sid :
           rows'[v][s] = rows[v][s] \/ (v = u /\ s = r /\ rows'[v][s] = row),
         UNCHANGED backup,
         \A d \in dec' : d \in dec \/ (d.by = u /\ d.env.sid = r /\ d.row = row),
         \A v \in User, t \in Tab : enc'[v][t] = enc[v][t] \/ enc'[v][t].at # "loaded"
  PROVE  \A v \in User, s \in Sid : \A x :
           IsCopy(v, s, x)' => IsCopy(v, s, x) \/ (v = u /\ s = r /\ x = row)
<1> SUFFICES ASSUME NEW v \in User, NEW s \in Sid, NEW x, IsCopy(v, s, x)'
             PROVE  IsCopy(v, s, x) \/ (v = u /\ s = r /\ x = row)
  OBVIOUS
<1>1. rows'[v][s] = rows[v][s] \/ (v = u /\ s = r /\ rows'[v][s] = row)
  OBVIOUS
<1>2. CASE x = rows'[v][s] \/ x = backup'[v][s]
  BY <1>1, <1>2 DEF IsCopy
<1>3. ASSUME NEW d \in dec', d.by = v, d.env.sid = s, x = d.row
      PROVE  IsCopy(v, s, x) \/ (v = u /\ s = r /\ x = row)
  BY <1>3 DEF IsCopy
<1>4. ASSUME NEW t \in Tab, enc'[v][t].at = "loaded", enc'[v][t].sid = s, x = enc'[v][t].row
      PROVE  IsCopy(v, s, x)
  BY <1>4 DEF IsCopy
<1> QED
  BY <1>2, <1>3, <1>4 DEF IsCopy

\* An own session's copies only come from one before.
Kept(u, s, x) == x.role = "init" => \E y : IsCopy(u, s, y) /\ y.role = "init"

\* Steps that make no session alive and no encrypt wait for one.
LEMMA StillWaiting ==
  ASSUME Waiting,
         \A u \in User, s \in Sid : Alive(u, s)' => Alive(u, s),
         \A u \in User, t \in Tab : enc'[u][t] = enc[u][t] \/ enc'[u][t].at = "off"
  PROVE  Waiting'
BY DEF Waiting

LEMMA MovedKeeps ==
  ASSUME ChainTyped, Copied, Sized, LastAlive, UNCHANGED sealed,
         \A v \in User, s \in Sid : /\ rows'[v][s] \in {rows[v][s], backup[v][s], Absent}
                                    /\ backup'[v][s] \in {rows[v][s], backup[v][s]},
         \A d \in dec' : d \in dec \/ d.row = rows[d.by][d.env.sid],
         \A v \in User, t \in Tab : \/ enc'[v][t] = enc[v][t] \/ enc'[v][t].at = "off"
                                    \/ (enc'[v][t].sid \in Sid =>
                                          enc'[v][t].row = rows[v][enc'[v][t].sid]),
         \A v \in User, s \in Sid : Alive(v, s)' => Alive(v, s)
  PROVE  Copied' /\ LastAlive'
<1>1. \A v \in User, s \in Sid : \A x : IsCopy(v, s, x)' => IsCopy(v, s, x) \/ x = Absent
  <2> SUFFICES ASSUME NEW v \in User, NEW s \in Sid, NEW x, IsCopy(v, s, x)'
               PROVE  IsCopy(v, s, x) \/ x = Absent
    OBVIOUS
  <2>1. \A t \in Tab : \/ enc'[v][t] = enc[v][t] \/ enc'[v][t].at = "off"
                       \/ (enc'[v][t].sid = s => enc'[v][t].row = rows[v][s])
    OBVIOUS
  <2> QED
    BY <2>1, MovedCopies
<1>2. /\ Absent.role = "none"
      /\ Absent.next <= Cardinality(sealed) /\ Absent.seen <= Cardinality(sealed)
  BY SizeIsNumber DEF Absent
<1>3. Copied'
  BY <1>1, <1>2 DEF Copied
<1>4. LastAlive'
  BY <1>1, <1>2 DEF LastAlive
<1> QED
  BY <1>3, <1>4

LEMMA WrittenKeeps ==
  ASSUME ChainTyped, Copied, LastAlive, NEW u \in User, NEW r \in Sid, NEW row,
         \A v \in User, s \in Sid :
           rows'[v][s] = rows[v][s] \/ (v = u /\ s = r /\ rows'[v][s] = row),
         UNCHANGED backup,
         \A d \in dec' : d \in dec \/ (d.by = u /\ d.env.sid = r /\ d.row = row),
         \A v \in User, t \in Tab : enc'[v][t] = enc[v][t] \/ enc'[v][t].at # "loaded",
         back \subseteq back',
         Cardinality(sealed) \in Nat, Cardinality(sealed)' \in Nat,
         Cardinality(sealed) <= Cardinality(sealed)',
         row.next <= Cardinality(sealed)', row.seen <= Cardinality(sealed)',
         row.role = "init" => row.born = r,
         Kept(u, r, row),
         row.role = "init" /\ ~row.retired /\ <<u, r>> \notin back' => Alive(u, r)
  PROVE  /\ Copied' /\ LastAlive'
         /\ \A v \in User, s \in Sid : Alive(v, s)' => Alive(v, s)
<1>1. \A v \in User, s \in Sid : \A x :
        IsCopy(v, s, x)' => IsCopy(v, s, x) \/ (v = u /\ s = r /\ x = row)
  BY WrittenCopies
<1>2. Copied'
  <2> SUFFICES ASSUME NEW v \in User, NEW s \in Sid, NEW x, IsCopy(v, s, x)'
               PROVE  /\ x.next <= Cardinality(sealed)' /\ x.seen <= Cardinality(sealed)'
                      /\ x.role = "init" => x.born = s
    BY DEF Copied
  <2>1. CASE IsCopy(v, s, x)
    <3>1. x.next \in Nat /\ x.seen \in Nat
      BY <2>1, CopyTyped
    <3>2. x.next <= Cardinality(sealed) /\ x.seen <= Cardinality(sealed)
          /\ (x.role = "init" => x.born = s)
      BY <2>1 DEF Copied
    <3> QED
      BY <3>1, <3>2
  <2>2. CASE v = u /\ s = r /\ x = row
    BY <2>2
  <2> QED
    BY <1>1, <2>1, <2>2
<1>3. \A v \in User, s \in Sid : Alive(v, s)' => Alive(v, s)
  <2> SUFFICES ASSUME NEW v \in User, NEW s \in Sid, Alive(v, s)' PROVE Alive(v, s)
    OBVIOUS
  <2>1. <<v, s>> \notin back /\ <<v, s>> \notin back'
    BY DEF Alive
  <2>2. CASE \E t \in Tab : /\ enc'[v][t].at = "loaded" /\ enc'[v][t].sid = s
                            /\ enc'[v][t].row.role = "init"
    BY <2>1, <2>2 DEF Alive
  <2>3. CASE rows'[v][s].role = "init" /\ ~rows'[v][s].retired
    <3>1. CASE v = u /\ s = r
      BY <2>1, <2>3, <3>1 DEF Alive
    <3>2. CASE ~(v = u /\ s = r)
      <4>1. rows'[v][s] = rows[v][s]
        BY <3>2
      <4> QED
        BY <2>1, <2>3, <4>1 DEF Alive
    <3> QED
      BY <3>1, <3>2
  <2> QED
    BY <2>2, <2>3 DEF Alive
<1>4. LastAlive'
  BY <1>1, <1>3 DEF LastAlive, Kept
<1> QED
  BY <1>2, <1>3, <1>4

LastOne == Copied /\ LastAlive /\ Waiting

LEMMA EncryptLastOne ==
  ASSUME ChainInv, Sized, Roomy, LastOne, NEW u \in User, NEW t \in Tab,
         Begin(u, t) \/ Retire(u, t) \/ Abandon(u, t) \/ SealNext(u, t) \/ SealFirst(u, t)
  PROVE  LastOne'
<1> USE DEF copies, hist, LastOne, ChainInv
<1>0. enc[u][t] \in Work /\ enc[u][t].row \in StoredRow /\ enc[u][t].sid \in 0..MaxSid
  BY DEF ChainTyped, Work
<1>1. CASE Begin(u, t)
  <2> DEFINE a == Active(u)
             w == [at |-> "loaded", sid |-> a, row |-> IF a = 0 THEN Absent ELSE rows[u][a]]
  <2>1. enc' = [enc EXCEPT ![u][t] = w]
        /\ UNCHANGED <<rows, dec, sealed, backup, back>>
    BY <1>1 DEF Begin
  <2>2. w.at = "loaded" /\ w.sid = a /\ (a \in Sid => w.row = rows[u][a])
    BY ConstantsTyped DEF Sid
  <2>3. a \in Sid => a \in Usable(u, {"init"}) \/ rows[u][a].role # "init"
    <3>1. CASE Usable(u, {"init"}) # {}
      BY <3>1, NewestIsOne DEF Active, Usable
    <3>2. CASE Usable(u, {"init"}) = {} /\ Usable(u, {"resp"}) # {}
      <4>1. a \in Usable(u, {"resp"})
        BY <3>2, NewestIsOne DEF Active, Usable
      <4> QED
        BY <4>1 DEF Usable
    <3>3. CASE Usable(u, {"init"}) = {} /\ Usable(u, {"resp"}) = {}
      BY <3>3, ConstantsTyped DEF Active, Sid
    <3> QED
      BY <3>1, <3>2, <3>3
  <2>4. \A q \in Sid : rows[u][q].role = "init" /\ ~rows[u][q].retired /\ <<u, q>> \notin back
        => a = q
    <3> SUFFICES ASSUME NEW q \in Sid, rows[u][q].role = "init", ~rows[u][q].retired,
                        <<u, q>> \notin back
                 PROVE  a = q
      OBVIOUS
    <3>1. q \in Usable(u, {"init"}) /\ Alive(u, q)
      BY DEF Usable, Alive
    <3>2. a = Newest(u, Usable(u, {"init"}))
      BY <3>1 DEF Active
    <3>3. Usable(u, {"init"}) \in SUBSET Sid /\ Usable(u, {"init"}) # {}
      BY <3>1 DEF Usable
    <3>4. a \in Usable(u, {"init"}) /\ rows[u][q].born <= rows[u][a].born
      BY <3>1, <3>2, <3>3, NewestIsOne
    <3>5. rows[u][a].role = "init" /\ a \in Sid
      BY <3>4 DEF Usable
    <3>6. rows[u][q].born = q /\ rows[u][a].born = a
      BY <3>5 DEF Copied, IsCopy
    <3>7. ~(q < a)
      BY <3>1, <3>5 DEF LastAlive, IsCopy
    <3> QED
      BY <3>4, <3>5, <3>6, <3>7 DEF Sid
  <2> HIDE DEF a, w
  <2>5. \A v \in User, x \in Tab :
          enc'[v][x] = enc[v][x] \/ (v = u /\ x = t /\ enc'[v][x] = w)
    BY <2>1 DEF ChainTyped
  <2>6. \A y \in Tab : enc[u][y].at = "off"
    BY <1>1 DEF Begin, Locked
  <2>7. \A v \in User, q \in Sid : Alive(v, q)' => Alive(v, q)
    <3> SUFFICES ASSUME NEW v \in User, NEW q \in Sid, Alive(v, q)' PROVE Alive(v, q)
      OBVIOUS
    <3>1. <<v, q>> \notin back
      BY <2>1 DEF Alive
    <3>2. CASE rows'[v][q].role = "init" /\ ~rows'[v][q].retired
      BY <2>1, <3>1, <3>2 DEF Alive
    <3>3. ASSUME NEW y \in Tab, enc'[v][y].at = "loaded", enc'[v][y].sid = q,
                 enc'[v][y].row.role = "init"
          PROVE  Alive(v, q)
      <4>1. CASE enc'[v][y] = enc[v][y]
        BY <3>1, <3>3, <4>1 DEF Alive
      <4>2. CASE v = u /\ enc'[v][y] = w
        <5>1. q = a /\ rows[u][a].role = "init"
          BY <2>2, <3>3, <4>2
        <5>2. ~rows[u][a].retired
          BY <2>3, <5>1 DEF Usable
        <5> QED
          BY <3>1, <4>2, <5>1, <5>2 DEF Alive
      <4> QED
        BY <2>5, <4>1, <4>2
    <3> QED
      BY <3>2, <3>3 DEF Alive
  <2>8. Copied' /\ LastAlive'
    <3>1. \A v \in User, x \in Tab : \/ enc'[v][x] = enc[v][x] \/ enc'[v][x].at = "off"
                                    \/ (enc'[v][x].sid \in Sid =>
                                          enc'[v][x].row = rows[v][enc'[v][x].sid])
      <4> TAKE v \in User, x \in Tab
      <4>1. CASE enc'[v][x] = enc[v][x]
        BY <4>1
      <4>2. CASE v = u /\ enc'[v][x] = w
        <5>1. enc'[v][x].sid = a /\ (a \in Sid => enc'[v][x].row = rows[v][a])
          BY <2>2, <4>2
        <5> QED
          BY <5>1
      <4> QED
        BY <2>5, <4>1, <4>2
    <3> QED
      BY <2>1, <2>7, <3>1, MovedKeeps
  <2>9. Waiting'
    <3> SUFFICES ASSUME NEW v \in User, NEW x \in Tab, NEW q \in Sid, Alive(v, q)'
                 PROVE  /\ enc'[v][x].at # "fresh"
                        /\ enc'[v][x].at = "loaded" => enc'[v][x].sid = q
      BY DEF Waiting
    <3>1. Alive(v, q)
      BY <2>7
    <3>2. CASE enc'[v][x] = enc[v][x]
      BY <3>1, <3>2 DEF Waiting
    <3>3. CASE v = u /\ enc'[v][x] = w
      <4>1. rows[u][q].role = "init" /\ ~rows[u][q].retired /\ <<u, q>> \notin back
        BY <2>6, <3>1, <3>3 DEF Alive
      <4> QED
        BY <2>2, <2>4, <3>3, <4>1
    <3> QED
      BY <2>5, <3>2, <3>3
  <2> QED
    BY <2>8, <2>9
<1>2. CASE Retire(u, t)
  <2> DEFINE s == enc[u][t].sid
             row == [enc[u][t].row EXCEPT !.retired = TRUE]
             w == [Idle EXCEPT !.at = "fresh"]
  <2>1. /\ rows' = [rows EXCEPT ![u][s] = row]
        /\ enc' = [enc EXCEPT ![u][t] = w]
        /\ UNCHANGED <<dec, sealed, backup, back>>
        /\ enc[u][t].at = "loaded" /\ s # 0
    BY <1>2 DEF Retire
  <2>2. s \in Sid
    BY <1>0, <2>1 DEF Sid
  <2>3. IsCopy(u, s, enc[u][t].row)
    BY <2>1 DEF IsCopy
  <2>4. /\ row.next = enc[u][t].row.next /\ row.seen = enc[u][t].row.seen
        /\ row.role = enc[u][t].row.role /\ row.born = enc[u][t].row.born /\ row.retired
    BY <1>0 DEF StoredRow
  <2>5. w.at = "fresh"
    BY DEF Idle
  <2> HIDE DEF s, row, w
  <2>6. \A v \in User, x \in Tab :
          enc'[v][x] = enc[v][x] \/ (v = u /\ x = t /\ enc'[v][x] = w)
    BY <2>1 DEF ChainTyped
  <2>7. /\ Copied' /\ LastAlive'
        /\ \A v \in User, q \in Sid : Alive(v, q)' => Alive(v, q)
    <3>1. /\ row.next <= Cardinality(sealed) /\ row.seen <= Cardinality(sealed)
          /\ row.role = "init" => row.born = s
      BY <2>2, <2>3, <2>4 DEF Copied
    <3>2. Kept(u, s, row)
      BY <2>3, <2>4 DEF Kept
    <3>3. /\ Cardinality(sealed) \in Nat /\ Cardinality(sealed)' = Cardinality(sealed)
          /\ Cardinality(sealed) <= Cardinality(sealed)
      BY <2>1, SizeIsNumber
    <3>4. \A v \in User, x \in Tab : enc'[v][x] = enc[v][x] \/ enc'[v][x].at # "loaded"
      BY <2>5, <2>6
    <3>5. \A v \in User, q \in Sid :
            rows'[v][q] = rows[v][q] \/ (v = u /\ q = s /\ rows'[v][q] = row)
      BY <2>1, <2>2 DEF ChainTyped
    <3>6. /\ row.role = "init" /\ ~row.retired /\ <<u, s>> \notin back' => Alive(u, s)
          /\ \A d \in dec' : d \in dec
          /\ back \subseteq back'
      BY <2>1, <2>4
    <3>7. /\ Cardinality(sealed)' \in Nat /\ row.next <= Cardinality(sealed)'
          /\ row.seen <= Cardinality(sealed)' /\ Cardinality(sealed) <= Cardinality(sealed)'
      BY <3>1, <3>3
    <3> QED
      BY <2>1, <2>2, <3>1, <3>2, <3>3, <3>4, <3>5, <3>6, <3>7, WrittenKeeps
  <2>8. Waiting'
    <3> SUFFICES ASSUME NEW v \in User, NEW x \in Tab, NEW q \in Sid, Alive(v, q)'
                 PROVE  /\ enc'[v][x].at # "fresh"
                        /\ enc'[v][x].at = "loaded" => enc'[v][x].sid = q
      BY DEF Waiting
    <3>1. Alive(v, q)
      BY <2>7
    <3>2. CASE enc'[v][x] = enc[v][x]
      BY <3>1, <3>2 DEF Waiting
    <3>3. CASE v = u
      <4>1. q = s
        BY <2>1, <3>1, <3>3 DEF Waiting, s
      <4>2. rows'[u][s] = row
        BY <2>1, <2>2 DEF ChainTyped
      <4>3. \A y \in Tab : enc'[u][y].at # "loaded"
        <5>1. enc'[u][t] = w
          BY <2>1 DEF ChainTyped
        <5>2. \A y \in Tab : y # t => enc[u][y].at = "off"
          BY <2>1 DEF NonceInv, OneTab
        <5> QED
          BY <2>5, <2>6, <5>1, <5>2
      <4> QED
        BY <2>4, <3>3, <4>1, <4>2, <4>3 DEF Alive
    <3> QED
      BY <2>6, <3>2, <3>3
  <2> QED
    BY <2>7, <2>8
<1>3. CASE Abandon(u, t)
  <2>1. enc' = [enc EXCEPT ![u][t] = Idle]
        /\ UNCHANGED <<rows, dec, sealed, backup, back>>
    BY <1>3 DEF Abandon
  <2>2. \A v \in User, x \in Tab : enc'[v][x] = enc[v][x] \/ enc'[v][x].at = "off"
    BY <2>1 DEF ChainTyped, Idle
  <2>3. \A v \in User, q \in Sid : Alive(v, q)' => Alive(v, q)
    BY <2>1, <2>2 DEF Alive
  <2> QED
    BY <2>1, <2>2, <2>3, MovedKeeps, StillWaiting
<1>4. CASE SealNext(u, t)
  <2> DEFINE e == [sid |-> enc[u][t].sid, init |-> FALSE, row |-> enc[u][t].row]
  <2>1. SealOn(u, t, e) /\ enc[u][t].at = "loaded" /\ enc[u][t].sid # 0
    BY <1>4 DEF SealNext
  <2>2. e.sid \in Sid /\ e.row \in StoredRow
    BY <1>0, <2>1 DEF Sid
  <2>3. IsCopy(u, e.sid, e.row)
    BY <2>1 DEF IsCopy
  <2>4. e.row.role = "init" /\ <<u, e.sid>> \notin back => Alive(u, e.sid)
    BY <2>1 DEF Alive
  <2> HIDE DEF e
  <2>5. /\ e.row.next <= Cardinality(sealed) /\ e.row.seen <= Cardinality(sealed)
        /\ e.row.role = "init" => e.row.born = e.sid
    BY <2>2, <2>3 DEF Copied
  <2>6. Cardinality(sealed)' = Cardinality(sealed) + 1 /\ Cardinality(sealed) \in Nat
    BY <2>1, <2>2, <2>5, SealGrows, SizeIsNumber
  <2> DEFINE row == Burned(e.row)
  <2>7. /\ row.next = e.row.next + 1 /\ row.seen = e.row.seen /\ row.role = e.row.role
        /\ row.born = e.row.born /\ row.next \in Nat /\ e.row.seen \in Nat
    BY <2>2 DEF Burned, StoredRow
  <2>8. /\ rows' = [rows EXCEPT ![u][e.sid] = row]
        /\ enc' = [enc EXCEPT ![u][t] = Idle]
        /\ UNCHANGED <<dec, backup, back>>
    BY <2>1 DEF SealOn
  <2> HIDE DEF row
  <2>9. \A v \in User, x \in Tab : enc'[v][x] = enc[v][x] \/ enc'[v][x].at = "off"
    BY <2>8 DEF ChainTyped, Idle
  <2>10. /\ Copied' /\ LastAlive'
         /\ \A v \in User, q \in Sid : Alive(v, q)' => Alive(v, q)
    <3>1. row.next <= Cardinality(sealed)' /\ row.seen <= Cardinality(sealed)'
      <4>1. e.row.next \in Nat
        BY <2>2 DEF StoredRow
      <4> QED
        BY <2>5, <2>6, <2>7, <4>1
    <3>2. Kept(u, e.sid, row)
      BY <2>3, <2>7 DEF Kept
    <3>3. Cardinality(sealed) <= Cardinality(sealed)' /\ Cardinality(sealed)' \in Nat
      BY <2>6
    <3>4. \A v \in User, x \in Tab : enc'[v][x] = enc[v][x] \/ enc'[v][x].at # "loaded"
      BY <2>9
    <3>5. \A v \in User, q \in Sid :
            rows'[v][q] = rows[v][q] \/ (v = u /\ q = e.sid /\ rows'[v][q] = row)
      BY <2>2, <2>8 DEF ChainTyped
    <3> QED
      BY <2>2, <2>4, <2>5, <2>6, <2>7, <2>8, <3>1, <3>2, <3>3, <3>4, <3>5, WrittenKeeps
  <2> QED
    BY <2>9, <2>10, StillWaiting
<1>5. CASE SealFirst(u, t)
  <2> DEFINE e == NewSession(u)
             s == minted + 1
             row == Burned(e.row)
  <2>1. SealOn(u, t, e) /\ minted' = minted + 1 /\ minted < MaxSid
        /\ (enc[u][t].at = "fresh" \/ (enc[u][t].at = "loaded" /\ enc[u][t].sid = 0))
    BY <1>5 DEF SealFirst
  <2>2. /\ e.sid = s /\ e.row = [Absent EXCEPT !.role = "init", !.born = minted + 1]
        /\ row = [e.row EXCEPT !.next = @ + 1]
    BY DEF NewSession, Burned
  <2>3. s \in Sid /\ minted \in Nat
    BY <2>1, ConstantsTyped DEF Sid, ChainTyped
  <2> HIDE DEF e, row
  <2>4. /\ e.row.next = 0 /\ e.row.role = "init"
        /\ row.next = 1 /\ row.seen = 0 /\ row.role = "init" /\ row.born = s
    BY <2>2 DEF Absent
  <2>5. e.row \in StoredRow
    <3>1. \A b \in 0..(MaxSid + 1) : [Absent EXCEPT !.role = "init", !.born = b] \in StoredRow
      BY RowUpdates
    <3>2. minted + 1 \in 0..(MaxSid + 1)
      BY <2>1, <2>3, ConstantsTyped
    <3> QED
      BY <2>2, <3>1, <3>2
  <2>6. /\ rows' = [rows EXCEPT ![u][s] = row]
        /\ enc' = [enc EXCEPT ![u][t] = Idle]
        /\ UNCHANGED <<dec, backup, back>>
    BY <2>1, <2>2 DEF SealOn, row
  <2>7. Cardinality(sealed)' = Cardinality(sealed) + 1 /\ Cardinality(sealed) \in Nat
    <3>1. Cardinality(sealed) \in Nat /\ e.row.next <= Cardinality(sealed)
      BY <2>4, SizeIsNumber
    <3>2. e.sid \in Sid
      BY <2>2, <2>3
    <3> QED
      BY <2>1, <2>5, <3>1, <3>2, SealGrows
  <2>8. \A v \in User, x \in Tab : enc'[v][x] = enc[v][x] \/ enc'[v][x].at = "off"
    BY <2>6 DEF ChainTyped, Idle
  <2>9. \A v \in User, q \in Sid :
          rows'[v][q] = rows[v][q] \/ (v = u /\ q = s /\ rows'[v][q] = row)
    BY <2>3, <2>6 DEF ChainTyped
  <2> HIDE DEF s
  <2>10. \A v \in User, q \in Sid : \A x :
           IsCopy(v, q, x)' => IsCopy(v, q, x) \/ (v = u /\ q = s /\ x = row)
    <3>1. \A v \in User, x \in Tab : enc'[v][x] = enc[v][x] \/ enc'[v][x].at # "loaded"
      BY <2>8
    <3>2. (\A d \in dec' : d \in dec) /\ backup' = backup
      BY <2>6
    <3> QED
      BY <2>3, <2>9, <3>1, <3>2, WrittenCopies
  <2>11. \A q \in Sid : ~Alive(u, q)
    <3> SUFFICES ASSUME NEW q \in Sid, Alive(u, q) PROVE FALSE
      OBVIOUS
    <3>1. enc[u][t].at # "fresh" /\ (enc[u][t].at = "loaded" => enc[u][t].sid = q)
      BY DEF Waiting
    <3> QED
      BY <2>1, <3>1 DEF Sid
  <2>12. \A v \in User, q \in Sid : Alive(v, q)' => Alive(v, q) \/ (v = u /\ q = s)
    BY <2>6, <2>8, <2>9 DEF Alive
  <2>13. Copied'
    <3> SUFFICES ASSUME NEW v \in User, NEW q \in Sid, NEW x, IsCopy(v, q, x)'
                 PROVE  /\ x.next <= Cardinality(sealed)' /\ x.seen <= Cardinality(sealed)'
                        /\ x.role = "init" => x.born = q
      BY DEF Copied
    <3>1. CASE IsCopy(v, q, x)
      <4>1. x.next \in Nat /\ x.seen \in Nat
        BY <3>1, CopyTyped
      <4>2. x.next <= Cardinality(sealed) /\ x.seen <= Cardinality(sealed)
            /\ (x.role = "init" => x.born = q)
        BY <3>1 DEF Copied
      <4> QED
        BY <2>7, <4>1, <4>2
    <3>2. CASE v = u /\ q = s /\ x = row
      BY <2>4, <2>7, <3>2
    <3> QED
      BY <2>10, <3>1, <3>2
  <2>14. LastAlive'
    <3> SUFFICES ASSUME NEW v \in User, NEW q \in Sid, NEW r \in Sid, Alive(v, q)', q < r,
                        NEW x, IsCopy(v, r, x)', x.role = "init"
                 PROVE  FALSE
      BY DEF LastAlive
    <3>1. CASE v = u
      <4>1. q = s
        BY <2>11, <2>12, <3>1
      <4>2. IsCopy(v, r, x) /\ minted < r
        BY <2>3, <2>10, <4>1 DEF s, Sid
      <4>3. CASE x = rows[v][r] \/ x = backup[v][r]
        BY <4>2, <4>3, <2>3 DEF Minted, Sid
      <4>4. ASSUME NEW d \in dec, d.env.sid = r PROVE FALSE
        BY <4>2, <4>4, <2>3 DEF Minted, Sid
      <4>5. ASSUME NEW y \in Tab, enc[v][y].at = "loaded", enc[v][y].sid = r PROVE FALSE
        BY <4>2, <4>5, <2>3 DEF Minted, Sid
      <4> QED
        BY <4>2, <4>3, <4>4, <4>5 DEF IsCopy
    <3>2. CASE v # u
      BY <2>10, <2>12, <3>2 DEF LastAlive
    <3> QED
      BY <3>1, <3>2
  <2>15. Waiting'
    <3> SUFFICES ASSUME NEW v \in User, NEW x \in Tab, NEW q \in Sid, Alive(v, q)'
                 PROVE  /\ enc'[v][x].at # "fresh"
                        /\ enc'[v][x].at = "loaded" => enc'[v][x].sid = q
      BY DEF Waiting
    <3>1. CASE v = u
      <4>1. enc'[u][x].at = "off"
        <5>1. CASE x = t
          BY <2>6, <5>1 DEF ChainTyped, Idle
        <5>2. CASE x # t
          <6>1. enc[u][x].at = "off"
            BY <2>1, <5>2 DEF NonceInv, OneTab
          <6> QED
            BY <2>8, <6>1
        <5> QED
          BY <5>1, <5>2
      <4> QED
        BY <3>1, <4>1
    <3>2. CASE v # u
      BY <2>8, <2>12, <3>2 DEF Waiting
    <3> QED
      BY <3>1, <3>2
  <2> QED
    BY <2>13, <2>14, <2>15
<1> QED
  BY <1>1, <1>2, <1>3, <1>4, <1>5

LEMMA DecryptLastOne ==
  ASSUME ChainInv, Sized, LastOne, Decrypt
  PROVE  LastOne'
<1> USE DEF copies, hist, LastOne, ChainInv
<1>1. ASSUME NEW u \in User, NEW env \in net, Read(u, env)  PROVE LastOne'
  <2>1. /\ \A d \in dec' : d \in dec \/ d.row = rows[d.by][d.env.sid]
        /\ UNCHANGED <<rows, enc, sealed, backup, back>>
    BY <1>1 DEF Read
  <2>2. \A v \in User, s \in Sid : Alive(v, s)' => Alive(v, s)
    BY <2>1 DEF Alive
  <2> QED
    BY <2>1, <2>2, MovedKeeps, StillWaiting
<1>2. ASSUME NEW d \in dec, Give(d)  PROVE LastOne'
  <2>1. dec' \subseteq dec /\ UNCHANGED <<rows, enc, sealed, backup, back>>
    BY <1>2 DEF Give
  <2>2. \A v \in User, s \in Sid : Alive(v, s)' => Alive(v, s)
    BY <2>1 DEF Alive
  <2> QED
    BY <2>1, <2>2, MovedKeeps, StillWaiting
<1>3. ASSUME NEW d \in dec, Accept(d)  PROVE LastOne'
  <2> DEFINE u == d.by
             s == d.env.sid
             row == [Absent EXCEPT !.role = "resp", !.born = Clock(d.by)]
             open == [d EXCEPT !.at = "known", !.row = row]
  <2>1. d \in Opening /\ u \in User /\ s \in Sid
    BY DEF ChainTyped, Opening, Header
  <2>2. open.by = u /\ open.env = d.env /\ open.row = row
    BY <2>1 DEF Opening
  <2>3. row.role = "resp" /\ row.next = 0 /\ row.seen = 0
    BY DEF Absent
  <2>4. /\ rows' = [rows EXCEPT ![u][s] = row]
        /\ dec' = (dec \ {d}) \cup {open}
        /\ UNCHANGED <<enc, sealed, backup>> /\ back \subseteq back'
    BY <1>3 DEF Accept
  <2> HIDE DEF row, open
  <2>5. \A o \in dec' : o \in dec \/ (o.by = u /\ o.env.sid = s /\ o.row = row)
    BY <2>2, <2>4
  <2> HIDE DEF u, s
  <2>6. \A v \in User, q \in Sid :
          rows'[v][q] = rows[v][q] \/ (v = u /\ q = s /\ rows'[v][q] = row)
    BY <2>1, <2>4 DEF ChainTyped
  <2>7. Kept(u, s, row)
    BY <2>3 DEF Kept
  <2>8. /\ Cardinality(sealed) \in Nat /\ Cardinality(sealed)' \in Nat
        /\ Cardinality(sealed) <= Cardinality(sealed)'
        /\ row.next <= Cardinality(sealed)' /\ row.seen <= Cardinality(sealed)'
    BY <2>3, <2>4, SizeIsNumber
  <2>9. /\ Copied' /\ LastAlive'
        /\ \A v \in User, q \in Sid : Alive(v, q)' => Alive(v, q)
    <3>1. /\ row.role = "init" => row.born = s
          /\ row.role = "init" /\ ~row.retired /\ <<u, s>> \notin back' => Alive(u, s)
      BY <2>3
    <3>2. /\ \A v \in User, t \in Tab : enc'[v][t] = enc[v][t] \/ enc'[v][t].at # "loaded"
          /\ backup' = backup /\ back \subseteq back'
      BY <2>4
    <3> QED
      BY <2>1, <2>5, <2>6, <2>7, <2>8, <3>1, <3>2, WrittenKeeps
  <2> QED
    BY <2>4, <2>9, StillWaiting
<1>4. ASSUME NEW d \in dec, Finish(d)  PROVE LastOne'
  <2> DEFINE u == d.by
             s == d.env.sid
             row == [d.row EXCEPT !.seen = d.env.ctr + 1]
  <2>1. d \in Opening /\ u \in User /\ s \in Sid /\ d.row \in StoredRow /\ d.env.ctr \in Nat
    BY DEF ChainTyped, Opening, Header
  <2>2. /\ row.role = d.row.role /\ row.next = d.row.next /\ row.retired = d.row.retired
        /\ row.born = d.row.born /\ row.seen = d.env.ctr + 1
    BY <2>1 DEF StoredRow
  <2>3. dec' \subseteq dec /\ UNCHANGED <<enc, sealed, backup>> /\ back \subseteq back'
    BY <1>4 DEF Finish
  <2>4. \/ rows' = rows
        \/ /\ rows' = [rows EXCEPT ![u][s] = row]
           /\ \/ /\ rows[u][s].retired = d.row.retired /\ rows[u][s].role = d.row.role
              \/ <<u, s>> \in back'
    BY <1>4 DEF Finish
  <2>5. IsCopy(u, s, d.row)
    BY DEF IsCopy
  <2>6. CASE rows' = rows
    <3>1. \A v \in User, q \in Sid : Alive(v, q)' => Alive(v, q)
      BY <2>3, <2>6 DEF Alive
    <3> QED
      BY <2>3, <2>6, <3>1, MovedKeeps, StillWaiting
  <2>7. CASE /\ rows' = [rows EXCEPT ![u][s] = row]
             /\ \/ /\ rows[u][s].retired = d.row.retired /\ rows[u][s].role = d.row.role
                \/ <<u, s>> \in back'
    <3>1. /\ d.env.ctr < Cardinality(sealed) /\ Cardinality(sealed) \in Nat
          /\ Cardinality(sealed)' = Cardinality(sealed)
      BY <2>3, SizeIsNumber DEF Sized
    <3>2. d.row.next <= Cardinality(sealed) /\ (d.row.role = "init" => d.row.born = s)
      BY <2>1, <2>5 DEF Copied
    <3> HIDE DEF row, u, s
    <3>3. /\ row.next <= Cardinality(sealed)' /\ row.seen <= Cardinality(sealed)'
          /\ row.role = "init" => row.born = s
          /\ Cardinality(sealed) <= Cardinality(sealed)'
      BY <2>1, <2>2, <3>1, <3>2
    <3>4. Kept(u, s, row)
      BY <2>2, <2>5 DEF Kept
    <3>5. row.role = "init" /\ ~row.retired /\ <<u, s>> \notin back' => Alive(u, s)
      BY <2>2, <2>3, <2>7 DEF Alive
    <3>6. \A v \in User, q \in Sid :
            rows'[v][q] = rows[v][q] \/ (v = u /\ q = s /\ rows'[v][q] = row)
      BY <2>1, <2>7 DEF ChainTyped
    <3>7. /\ Copied' /\ LastAlive'
          /\ \A v \in User, q \in Sid : Alive(v, q)' => Alive(v, q)
      BY <2>1, <2>3, <3>1, <3>3, <3>4, <3>5, <3>6, WrittenKeeps
    <3> QED
      BY <2>3, <3>7, StillWaiting
  <2> QED
    BY <2>4, <2>6, <2>7
<1> QED
  BY <1>1, <1>2, <1>3, <1>4 DEF Decrypt

LEMMA KeepLastOne ==
  ASSUME ChainInv, Sized, LastOne, NEW u \in User, Keep(u)
  PROVE  LastOne'
<1> USE DEF copies, hist, store, LastOne, ChainInv
<1>1. CASE Shred(u)
  <2>1. UNCHANGED <<enc, dec, sealed, backup, back>>
    BY <1>1 DEF Shred
  <2>2. \A v \in User, s \in Sid : rows'[v][s] = Absent \/ rows'[v][s] = rows[v][s]
    BY <1>1 DEF Shred, Nothing, ChainTyped
  <2>3. Absent.role = "none"
    BY DEF Absent
  <2>4. \A v \in User, s \in Sid : Alive(v, s)' => Alive(v, s)
    BY <2>1, <2>2, <2>3 DEF Alive
  <2> QED
    BY <2>1, <2>2, <2>4, MovedKeeps, StillWaiting
<1>2. CASE BackUp(u)
  <2>1. UNCHANGED <<rows, enc, dec, sealed, back>>
        /\ \E kept \in {rows[u], backup[u]} : backup' = [backup EXCEPT ![u] = kept]
    BY <1>2 DEF BackUp
  <2>2. \A v \in User, s \in Sid : backup'[v][s] \in {rows[v][s], backup[v][s]}
    BY <2>1 DEF ChainTyped
  <2>3. \A v \in User, s \in Sid : Alive(v, s)' => Alive(v, s)
    BY <2>1 DEF Alive
  <2> QED
    BY <2>1, <2>2, <2>3, MovedKeeps, StillWaiting
<1>3. CASE Restore(u)
  <2>1. /\ UNCHANGED <<sealed, backup>> /\ dec' \subseteq dec /\ back \subseteq back'
        /\ rows' = [rows EXCEPT ![u] = backup[u]]
        /\ enc' = [enc EXCEPT ![u] = [t \in Tab |-> Idle]]
        /\ \A s \in Sid : backup[u][s].role # "none" /\ backup[u][s] # rows[u][s]
                          => <<u, s>> \in back'
    BY <1>3 DEF Restore
  <2>2. \A v \in User, t \in Tab : enc'[v][t] = enc[v][t] \/ enc'[v][t].at = "off"
    BY <2>1 DEF ChainTyped, Idle
  <2>3. \A v \in User, s \in Sid : IF v = u THEN rows'[v][s] = backup[v][s]
                                  ELSE rows'[v][s] = rows[v][s]
    BY <2>1 DEF ChainTyped
  <2>4. \A v \in User, s \in Sid : Alive(v, s)' => Alive(v, s)
    <3> SUFFICES ASSUME NEW v \in User, NEW s \in Sid, Alive(v, s)' PROVE Alive(v, s)
      OBVIOUS
    <3>1. <<v, s>> \notin back /\ <<v, s>> \notin back'
      BY <2>1 DEF Alive
    <3>2. CASE rows'[v][s].role = "init" /\ ~rows'[v][s].retired
      <4>1. rows'[v][s] = rows[v][s]
        <5>1. CASE v = u
          BY <2>1, <2>3, <3>1, <3>2, <5>1
        <5>2. CASE v # u
          BY <2>3, <5>2
        <5> QED
          BY <5>1, <5>2
      <4> QED
        BY <3>1, <3>2, <4>1 DEF Alive
    <3>3. CASE \E t \in Tab : /\ enc'[v][t].at = "loaded" /\ enc'[v][t].sid = s
                              /\ enc'[v][t].row.role = "init"
      BY <2>2, <3>1, <3>3 DEF Alive
    <3> QED
      BY <3>2, <3>3 DEF Alive
  <2> QED
    BY <2>1, <2>2, <2>3, <2>4, MovedKeeps, StillWaiting
<1> QED
  BY <1>1, <1>2, <1>3 DEF Keep

-----------------------------------------------------------------------------
(* Sizes and room. *)

LEMMA EncryptRoomy ==
  ASSUME ChainInv, Copied, Sized, Roomy, NEW u \in User, NEW t \in Tab,
         Begin(u, t) \/ Retire(u, t) \/ Abandon(u, t) \/ SealNext(u, t) \/ SealFirst(u, t)
  PROVE  Sized' /\ Roomy'
<1> USE DEF copies, hist, ChainInv
<1>0. /\ enc[u][t] \in Work /\ enc[u][t].row \in StoredRow /\ enc[u][t].sid \in 0..MaxSid
      /\ Idle.at = "off" /\ Idle.row = Absent
  BY DEF ChainTyped, Work, Idle
<1>1. ASSUME NEW w, w.at # "loaded" \/ w.sid = 0 => w.row = Absent,
             enc' = [enc EXCEPT ![u][t] = w], UNCHANGED <<dec, moves, back, cut>>,
             due' \in [User -> BOOLEAN]
      PROVE  Roomy'
  <2>1. \A v \in User, x \in Tab : enc'[v][x] = enc[v][x] \/ enc'[v][x] = w
    BY <1>1 DEF ChainTyped
  <2>2. \A v \in User, x \in Tab :
          enc'[v][x].at # "loaded" \/ enc'[v][x].sid = 0 => enc'[v][x].row = Absent
    BY <1>1, <2>1 DEF Roomy
  <2> QED
    BY <1>1, <2>2 DEF Roomy
<1>2. CASE Begin(u, t)
  <2> DEFINE w == [at |-> "loaded", sid |-> Active(u),
                   row |-> IF Active(u) = 0 THEN Absent ELSE rows[u][Active(u)]]
  <2>1. w.at # "loaded" \/ w.sid = 0 => w.row = Absent
    OBVIOUS
  <2>2. enc' = [enc EXCEPT ![u][t] = w]
        /\ UNCHANGED <<rows, dec, net, sealed, due, backup, moves, back, cut>>
    BY <1>2 DEF Begin
  <2> HIDE DEF w
  <2>3. due' \in [User -> BOOLEAN]
    BY <2>2 DEF Roomy
  <2>4. Roomy'
    BY <1>1, <2>1, <2>2, <2>3
  <2> QED
    BY <2>2, <2>4 DEF Sized
<1>3. CASE Retire(u, t) \/ Abandon(u, t)
  <2>1. PICK w : /\ w \in {Idle, [Idle EXCEPT !.at = "fresh"]}
                 /\ enc' = [enc EXCEPT ![u][t] = w]
    BY <1>3 DEF Retire, Abandon
  <2>2. w.at # "loaded" /\ w.row = Absent
    BY <2>1 DEF Idle
  <2>3. UNCHANGED <<dec, net, sealed, due, moves, back, cut>>
    BY <1>3 DEF Retire, Abandon
  <2>4. due' \in [User -> BOOLEAN]
    BY <2>3 DEF Roomy
  <2>5. Roomy'
    BY <1>1, <2>1, <2>2, <2>3, <2>4
  <2> QED
    BY <2>3, <2>5 DEF Sized
<1>4. ASSUME NEW e, SealOn(u, t, e), e.init \in BOOLEAN  PROVE Roomy'
  <2>1. /\ enc' = [enc EXCEPT ![u][t] = Idle] /\ UNCHANGED <<dec, moves, back, cut>>
        /\ due' = [due EXCEPT ![u] = @ \/ e.init]
    BY <1>4 DEF SealOn
  <2>2. due' \in [User -> BOOLEAN]
    BY <2>1 DEF Roomy
  <2> QED
    BY <1>0, <1>1, <2>1, <2>2
<1>5. CASE SealNext(u, t)
  <2> DEFINE e == [sid |-> enc[u][t].sid, init |-> FALSE, row |-> enc[u][t].row]
  <2>1. SealOn(u, t, e) /\ enc[u][t].at = "loaded" /\ enc[u][t].sid # 0
    BY <1>5 DEF SealNext
  <2>2. e.sid \in Sid /\ e.row \in StoredRow /\ e.init \in BOOLEAN
    BY <1>0, <2>1 DEF Sid
  <2>3. IsCopy(u, e.sid, e.row)
    BY <2>1 DEF IsCopy
  <2> HIDE DEF e
  <2>4. e.row.next <= Cardinality(sealed)
    BY <2>2, <2>3 DEF Copied
  <2>5. Sized'
    BY <2>1, <2>2, <2>4, SealGrows
  <2> QED
    BY <1>4, <2>1, <2>2, <2>5
<1>6. CASE SealFirst(u, t)
  <2> DEFINE e == NewSession(u)
  <2>1. SealOn(u, t, e) /\ minted < MaxSid
    BY <1>6 DEF SealFirst
  <2>2. /\ e.sid = minted + 1 /\ e.init = TRUE
        /\ e.row = [Absent EXCEPT !.role = "init", !.born = minted + 1]
    BY DEF NewSession
  <2>3. minted + 1 \in Sid /\ minted + 1 \in 0..(MaxSid + 1)
    BY <2>1, ConstantsTyped DEF Sid, ChainTyped
  <2> HIDE DEF e
  <2>4. e.row \in StoredRow
    <3>1. \A b \in 0..(MaxSid + 1) : [Absent EXCEPT !.role = "init", !.born = b] \in StoredRow
      BY RowUpdates
    <3> QED
      BY <2>2, <2>3, <3>1
  <2>5. e.row.next <= Cardinality(sealed)
    <3>1. e.row.next = 0
      BY <2>2 DEF Absent
    <3> QED
      BY <3>1, SizeIsNumber
  <2>6. Sized'
    BY <2>1, <2>2, <2>3, <2>4, <2>5, SealGrows
  <2> QED
    BY <1>4, <2>1, <2>2, <2>6
<1> QED
  BY <1>2, <1>3, <1>5, <1>6

\* Reads that go on and steps that only drop some.
LEMMA DroppedRoomy ==
  ASSUME ChainTyped, Sized, Roomy, UNCHANGED <<net, sealed>>, dec' \subseteq dec,
         \A v \in User, x \in Tab : enc'[v][x] = enc[v][x] \/ enc'[v][x] = Idle,
         due' \in [User -> BOOLEAN], moves' \in 0..MaxMoves,
         back' \subseteq User \X Sid, cut' \subseteq User \X Sid
  PROVE  Sized' /\ Roomy'
<1>1. IsFiniteSet(dec') /\ Cardinality(dec') <= Cardinality(dec)
  BY FS_Subset DEF Roomy
<1>2. Cardinality(dec) \in Nat /\ Cardinality(dec') \in Nat /\ Cardinality(dec) <= MaxReads
  BY <1>1, FS_CardinalityType DEF Roomy
<1>3. Cardinality(dec') <= MaxReads
  <2>1. MaxReads \in Nat
    OBVIOUS
  <2> QED
    BY <1>1, <1>2, <2>1
<1>4. \A v \in User, x \in Tab :
        enc'[v][x].at # "loaded" \/ enc'[v][x].sid = 0 => enc'[v][x].row = Absent
  BY DEF Roomy, Idle
<1>5. Roomy'
  BY <1>1, <1>3, <1>4 DEF Roomy
<1>6. Sized'
  BY DEF Sized
<1> QED
  BY <1>5, <1>6

\* One read more, or one that took another's place.
LEMMA PutRoomy ==
  ASSUME ChainTyped, Sized, Roomy, UNCHANGED <<net, sealed, enc, moves, cut>>,
         NEW D \in SUBSET dec, NEW d, dec' = D \cup {d}, Cardinality(D) < MaxReads,
         d.env.ctr < Cardinality(sealed),
         due' \in [User -> BOOLEAN], back' \subseteq User \X Sid
  PROVE  Sized' /\ Roomy'
<1>1. IsFiniteSet(D) /\ Cardinality(D) \in Nat
  BY FS_Subset, FS_CardinalityType DEF Roomy
<1>2. /\ IsFiniteSet(D \cup {d})
      /\ Cardinality(D \cup {d}) = Cardinality(D) \/ Cardinality(D \cup {d}) = Cardinality(D) + 1
  <2>1. CASE d \in D
    BY <1>1, <2>1, FS_AddElement
  <2>2. CASE d \notin D
    BY <1>1, <2>2, FS_AddElement
  <2> QED
    BY <2>1, <2>2
<1>3. Cardinality(dec') <= MaxReads
  <2>1. MaxReads \in Nat
    OBVIOUS
  <2> QED
    BY <1>1, <1>2, <2>1
<1>4. Roomy'
  BY <1>2, <1>3 DEF Roomy
<1>5. Sized'
  BY DEF Sized
<1> QED
  BY <1>4, <1>5

LEMMA DecryptRoomy ==
  ASSUME ChainTyped, Sized, Roomy, Decrypt
  PROVE  Sized' /\ Roomy'
<1> USE DEF copies, hist
<1>0. /\ due \in [User -> BOOLEAN] /\ moves \in 0..MaxMoves
      /\ back \subseteq User \X Sid /\ cut \subseteq User \X Sid
      /\ IsFiniteSet(dec) /\ Cardinality(dec) <= MaxReads
  BY DEF Roomy
<1>1. ASSUME NEW u \in User, NEW env \in net, Read(u, env)  PROVE Sized' /\ Roomy'
  <2> DEFINE d == [by |-> u, env |-> env, row |-> rows[u][env.sid],
                   at |-> IF rows[u][env.sid].role = "none" THEN "loaded" ELSE "known"]
  <2>1. /\ dec' = dec \cup {d} /\ Cardinality(dec) < MaxReads
        /\ UNCHANGED <<net, sealed, enc, due, moves, back, cut>>
    BY <1>1 DEF Read
  <2>2. d.env = env
    OBVIOUS
  <2> HIDE DEF d
  <2>3. d.env.ctr < Cardinality(sealed)
    BY <2>2 DEF Sized
  <2>4. due' \in [User -> BOOLEAN] /\ back' \subseteq User \X Sid
    BY <1>0, <2>1
  <2>5. dec \in SUBSET dec /\ enc' = enc /\ UNCHANGED <<net, sealed, enc, moves, cut>>
    BY <2>1
  <2> QED
    BY <2>1, <2>3, <2>4, <2>5, PutRoomy
<1>2. ASSUME NEW d \in dec, Accept(d)  PROVE Sized' /\ Roomy'
  <2> DEFINE row == [Absent EXCEPT !.role = "resp", !.born = Clock(d.by)]
             open == [d EXCEPT !.at = "known", !.row = row]
             D == dec \ {d}
  <2>1. d \in Opening /\ <<d.by, d.env.sid>> \in User \X Sid
    BY DEF ChainTyped, Opening, Header
  <2>2. open.env = d.env
    BY <2>1 DEF Opening
  <2>3. /\ dec' = D \cup {open}
        /\ due' = [due EXCEPT ![d.by] = TRUE]
        /\ back' \subseteq back \cup {<<d.by, d.env.sid>>}
        /\ UNCHANGED <<net, sealed, enc, moves, cut>>
    BY <1>2 DEF Accept
  <2> HIDE DEF row, open
  <2>4. Cardinality(D) < MaxReads
    <3>1. Cardinality(D) = Cardinality(dec) - 1 /\ Cardinality(dec) \in Nat
      BY <1>0, FS_RemoveElement, FS_CardinalityType
    <3>2. MaxReads \in Nat
      OBVIOUS
    <3> QED
      BY <1>0, <3>1, <3>2
  <2>5. open.env.ctr < Cardinality(sealed)
    BY <2>2 DEF Sized
  <2>6. due' \in [User -> BOOLEAN] /\ back' \subseteq User \X Sid
    BY <1>0, <2>1, <2>3
  <2>7. D \in SUBSET dec
    OBVIOUS
  <2> HIDE DEF D
  <2> QED
    BY <2>3, <2>4, <2>5, <2>6, <2>7, PutRoomy
<1>3. ASSUME NEW d \in dec, Finish(d) \/ Give(d)  PROVE Sized' /\ Roomy'
  <2>1. <<d.by, d.env.sid>> \in User \X Sid
    BY DEF ChainTyped, Opening, Header
  <2>2. /\ dec' \subseteq dec /\ UNCHANGED <<net, sealed, enc, due, moves>>
        /\ back' \subseteq back \cup {<<d.by, d.env.sid>>}
        /\ cut' \subseteq cut \cup {<<d.by, d.env.sid>>}
    BY <1>3 DEF Finish, Give
  <2>3. /\ due' \in [User -> BOOLEAN] /\ moves' \in 0..MaxMoves
        /\ back' \subseteq User \X Sid /\ cut' \subseteq User \X Sid
    BY <1>0, <2>1, <2>2
  <2> QED
    BY <2>2, <2>3, DroppedRoomy
<1> QED
  BY <1>1, <1>2, <1>3 DEF Decrypt

LEMMA KeepRoomy ==
  ASSUME ChainTyped, Sized, Roomy, NEW u \in User, Keep(u)
  PROVE  Sized' /\ Roomy'
<1> USE DEF copies, hist, store
<1>0. /\ due \in [User -> BOOLEAN] /\ moves \in 0..MaxMoves /\ MaxMoves \in Nat
      /\ back \subseteq User \X Sid /\ cut \subseteq User \X Sid
  BY DEF Roomy
<1>1. /\ UNCHANGED <<net, sealed>> /\ dec' \subseteq dec
      /\ moves' = moves \/ (moves < MaxMoves /\ moves' = moves + 1)
      /\ \E b \in BOOLEAN : due' = [due EXCEPT ![u] = b]
  BY DEF Keep, Shred, BackUp, Restore
<1>2. enc' = enc \/ enc' = [enc EXCEPT ![u] = [t \in Tab |-> Idle]]
  BY DEF Keep, Shred, BackUp, Restore
<1>3. \A v \in User, x \in Tab : enc'[v][x] = enc[v][x] \/ enc'[v][x] = Idle
  <2> TAKE v \in User, x \in Tab
  <2>1. CASE enc' = enc
    BY <2>1
  <2>2. CASE enc' = [enc EXCEPT ![u] = [t \in Tab |-> Idle]]
    BY <2>2 DEF ChainTyped
  <2> QED
    BY <1>2, <2>1, <2>2
<1>4. \A s \in Sid : <<u, s>> \in User \X Sid
  OBVIOUS
<1>5. /\ \A p \in back' : p \in back \/ \E s \in Sid : p = <<u, s>>
      /\ \A p \in cut' : p \in cut \/ \E s \in Sid : p = <<u, s>>
  BY DEF Keep, Shred, BackUp, Restore, Held
<1>6. back' \subseteq User \X Sid /\ cut' \subseteq User \X Sid
  BY <1>0, <1>4, <1>5
<1>7. due' \in [User -> BOOLEAN] /\ moves' \in 0..MaxMoves
  BY <1>0, <1>1
<1> QED
  BY <1>1, <1>3, <1>6, <1>7, DroppedRoomy

-----------------------------------------------------------------------------
(* The rows and what they count, always. *)

RowInv == ChainInv /\ Sized /\ Roomy /\ LastOne

LEMMA InitRows == Init => RowInv
<1> SUFFICES ASSUME Init PROVE RowInv
  OBVIOUS
<1>1. ChainInv
  BY InitChain
<1>2. Cardinality({}) = 0 /\ IsFiniteSet({})
  BY FS_EmptySet
<1>3. /\ MaxSealed \in Nat /\ MaxReads \in Nat /\ MaxMoves \in Nat
  OBVIOUS
<1>4. Sized
  BY <1>2, <1>3 DEF Init, Sized
<1>5. /\ \A u \in User, t \in Tab : enc[u][t] = Idle
      /\ dec = {} /\ due \in [User -> BOOLEAN] /\ moves = 0 /\ back = {} /\ cut = {}
  BY DEF Init
<1>6. Roomy
  BY <1>2, <1>3, <1>5 DEF Roomy, Idle
<1>7. \A u \in User, s \in Sid : rows[u][s] = Absent /\ backup[u][s] = Absent
  BY DEF Init, Nothing
<1>8. \A u \in User, s \in Sid : \A x : IsCopy(u, s, x) => x = Absent
  BY <1>5, <1>7 DEF IsCopy, Idle
<1>9. Copied
  BY <1>2, <1>8 DEF Copied, Absent, Init
<1>10. \A u \in User, s \in Sid : ~Alive(u, s)
  BY <1>5, <1>7 DEF Alive, Absent, Idle
<1> QED
  BY <1>1, <1>4, <1>6, <1>9, <1>10 DEF RowInv, LastOne, LastAlive, Waiting

LEMMA StillRows ==
  ASSUME RowInv, UNCHANGED vars
  PROVE  RowInv'
<1> USE DEF vars, store, copies, hist
<1>1. ChainInv'
  BY ChainStep DEF RowInv
<1>2. Sized' /\ Roomy'
  BY DEF RowInv, Sized, Roomy
<1>3. Copied' /\ LastAlive' /\ Waiting'
  BY DEF RowInv, LastOne, Copied, LastAlive, Waiting, Alive, IsCopy
<1> QED
  BY <1>1, <1>2, <1>3 DEF RowInv, LastOne

LEMMA NextRows ==
  ASSUME RowInv, Next
  PROVE  RowInv'
<1> USE DEF RowInv
<1>1. ChainInv'
  BY ChainStep
<1>2. CASE Decrypt
  BY <1>1, <1>2, DecryptRoomy, DecryptLastOne DEF ChainInv
<1>3. ASSUME NEW u \in User, Encrypt(u)  PROVE RowInv'
  <2>1. PICK t \in Tab : Begin(u, t) \/ Retire(u, t) \/ Abandon(u, t) \/ SealNext(u, t)
                         \/ SealFirst(u, t)
    BY <1>3 DEF Encrypt
  <2> QED
    BY <1>1, <2>1, EncryptRoomy, EncryptLastOne DEF LastOne
<1>4. ASSUME NEW u \in User, Keep(u)  PROVE RowInv'
  BY <1>1, <1>4, KeepRoomy, KeepLastOne DEF ChainInv
<1> QED
  BY <1>2, <1>3, <1>4 DEF Next

\* Of two own sessions alive the younger would be a copy the older one forbids.
LEMMA RowsHaveOneSending ==
  ASSUME RowInv
  PROVE  OneSendingSession
<1> SUFFICES ASSUME NEW u \in User, NEW s \in Usable(u, {"init"}), NEW r \in Usable(u, {"init"}),
                    s # r, <<u, s>> \notin back, <<u, r>> \notin back
             PROVE  FALSE
  BY DEF OneSendingSession
<1>1. /\ s \in Sid /\ r \in Sid /\ Alive(u, s) /\ Alive(u, r)
      /\ rows[u][s].role = "init" /\ rows[u][r].role = "init"
  BY DEF Usable, Alive
<1>2. ~(s < r) /\ ~(r < s)
  BY <1>1 DEF RowInv, LastOne, LastAlive, IsCopy
<1> QED
  BY <1>1, <1>2, ConstantsTyped DEF Sid

LEMMA RowsAreTyped ==
  ASSUME RowInv
  PROVE  TypeOK
<1> USE DEF RowInv, ChainInv, LastOne
<1> DEFINE c == Cardinality(sealed)
<1>1. c \in Nat /\ c <= MaxSealed /\ MaxSealed \in Nat
  BY SizeIsNumber DEF Sized
<1> HIDE DEF c
<1>2. \A u \in User, s \in Sid : \A x : IsCopy(u, s, x) => x \in Row
  <2> SUFFICES ASSUME NEW u \in User, NEW s \in Sid, NEW x, IsCopy(u, s, x) PROVE x \in Row
    OBVIOUS
  <2>1. x \in StoredRow /\ x.next \in Nat /\ x.seen \in Nat
    BY CopyTyped
  <2>2. x.next <= c /\ x.seen <= c
    BY DEF Copied, c
  <2>3. x.next \in 0..MaxSealed /\ x.seen \in 0..MaxSealed
    BY <1>1, <2>1, <2>2
  <2> QED
    BY <2>1, <2>3 DEF StoredRow, Row
<1>3. Absent \in Row
  BY <1>1 DEF Absent, Row
<1>4. rows \in [User -> [Sid -> Row]] /\ backup \in [User -> [Sid -> Row]]
  <2>1. \A u \in User, s \in Sid : rows[u][s] \in Row /\ backup[u][s] \in Row
    BY <1>2 DEF IsCopy
  <2> QED
    BY <2>1 DEF ChainTyped
<1>5. \A u \in User, t \in Tab : /\ enc[u][t].at \in {"off", "loaded", "fresh"}
                                /\ enc[u][t].sid \in 0..MaxSid /\ enc[u][t].row \in Row
  <2> TAKE u \in User, t \in Tab
  <2>1. enc[u][t].at \in {"off", "loaded", "fresh"} /\ enc[u][t].sid \in 0..MaxSid
    BY DEF ChainTyped, Work
  <2>2. CASE enc[u][t].at = "loaded" /\ enc[u][t].sid # 0
    <3>1. enc[u][t].sid \in Sid
      BY <2>1, <2>2 DEF Sid
    <3>2. IsCopy(u, enc[u][t].sid, enc[u][t].row)
      BY <2>2 DEF IsCopy
    <3> QED
      BY <1>2, <2>1, <3>1, <3>2
  <2>3. CASE ~(enc[u][t].at = "loaded" /\ enc[u][t].sid # 0)
    BY <1>3, <2>1, <2>3 DEF Roomy
  <2> QED
    BY <2>2, <2>3
<1>6. \A u \in User : Cardinality({t \in Tab : enc[u][t].at # "off"}) <= 1
  <2> TAKE u \in User
  <2> DEFINE busy == {t \in Tab : enc[u][t].at # "off"}
  <2>1. CASE busy = {}
    <3>1. Cardinality(busy) = 0
      BY <2>1, FS_EmptySet, Zenon
    <3> QED
      BY <3>1
  <2>2. ASSUME NEW t \in busy  PROVE Cardinality(busy) <= 1
    <3>1. busy = {t}
      BY DEF NonceInv, OneTab
    <3>2. Cardinality(busy) = 1
      BY <3>1, FS_Singleton, Zenon
    <3> QED
      BY <3>2
  <2> QED
    BY <2>1, <2>2
<1>7. \A e \in Header : e.ctr < c => e \in Envelope
  <2> SUFFICES ASSUME NEW e \in Header, e.ctr < c PROVE e \in Envelope
    OBVIOUS
  <2>1. e.ctr \in 0..MaxSealed
    BY <1>1 DEF Header
  <2> QED
    BY <2>1 DEF Header, Envelope
<1>8. \A d \in dec : d.by \in User /\ d.env \in Envelope /\ d.row \in Row
                     /\ d.at \in {"loaded", "known"}
  <2> TAKE d \in dec
  <2>1. d \in Opening /\ d.env \in Header /\ d.env.sid \in Sid /\ d.env.ctr < c
    BY DEF ChainTyped, Opening, Header, Sized, c
  <2>2. d.row \in Row
    <3>1. d.by \in User /\ IsCopy(d.by, d.env.sid, d.row)
      BY <2>1 DEF Opening, IsCopy
    <3> QED
      BY <1>2, <2>1, <3>1
  <2> QED
    BY <1>7, <2>1, <2>2 DEF Opening
<1>9. net \subseteq Envelope
  BY <1>7 DEF ChainTyped, Sized, c
<1>10. sealed \subseteq [sid : Sid, from : User, ctr : 0..MaxSealed, n : 1..MaxSealed]
  <2> SUFFICES ASSUME NEW m \in sealed
               PROVE  m \in [sid : Sid, from : User, ctr : 0..MaxSealed, n : 1..MaxSealed]
    OBVIOUS
  <2>1. /\ m \in [sid : Sid, from : User, ctr : Nat, n : Nat]
        /\ m.ctr < c /\ 0 < m.n /\ m.n <= c
    BY DEF Sized, c
  <2>2. m.ctr \in 0..MaxSealed /\ m.n \in 1..MaxSealed
    BY <1>1, <2>1
  <2> QED
    BY <2>1, <2>2
<1>11. c <= MaxSealed /\ minted \in 0..MaxSid
  BY <1>1 DEF ChainTyped
<1> QED
  BY <1>4, <1>5, <1>6, <1>8, <1>9, <1>10, <1>11 DEF TypeOK, Roomy, c

-----------------------------------------------------------------------------
HIDE ChainSessionsAssumption

\* The ratchet counts as this module does.
LEMMA SameCardinality == \A S : V2!Cardinality(S) = Cardinality(S)
BY DEF V2!Cardinality, Cardinality

LEMMA Bounds ==
  /\ IsFiniteSet(User) /\ Cardinality(User) = 2
  /\ {MaxInits, MaxRatcheted, MaxShreds, MaxSkip, MaxStored} \subseteq Nat
BY EndToEndAssumption, ChainSessionsAssumption

-----------------------------------------------------------------------------
(* The list of skipped keys. *)

Entries(q) == {q[j] : j \in DOMAIN q}
Apart(q) == \A i, j \in DOMAIN q : i # j => q[i].mk # q[j].mk

LEMMA Joined ==
  ASSUME NEW q \in Seq(V2!SkippedKey), NEW r \in Seq(V2!SkippedKey), Apart(q), Apart(r),
         \A e \in Entries(q), f \in Entries(r) : e.mk # f.mk
  PROVE  /\ q \o r \in Seq(V2!SkippedKey)
         /\ Apart(q \o r) /\ Len(q \o r) = Len(q) + Len(r)
         /\ Entries(q \o r) = Entries(q) \cup Entries(r)
<1>1. /\ q \o r \in Seq(V2!SkippedKey)
      /\ Len(q \o r) = Len(q) + Len(r)
      /\ \A i \in 1..Len(q) + Len(r) : (q \o r)[i] = IF i <= Len(q) THEN q[i] ELSE r[i - Len(q)]
  BY ConcatProperties
<1>2. /\ Len(q) \in Nat /\ DOMAIN q = 1..Len(q) /\ Len(r) \in Nat /\ DOMAIN r = 1..Len(r)
      /\ DOMAIN (q \o r) = 1..(Len(q) + Len(r))
  BY <1>1, LenProperties
<1>3. \A i \in DOMAIN (q \o r) :
        \/ i \in DOMAIN q /\ (q \o r)[i] = q[i]
        \/ i - Len(q) \in DOMAIN r /\ (q \o r)[i] = r[i - Len(q)]
  BY <1>1, <1>2
<1>4. Entries(q \o r) \subseteq Entries(q) \cup Entries(r)
  BY <1>3 DEF Entries
<1>5. \A i \in DOMAIN q : i \in DOMAIN (q \o r) /\ (q \o r)[i] = q[i]
  BY <1>1, <1>2
<1>6. \A i \in DOMAIN r : i + Len(q) \in DOMAIN (q \o r) /\ (q \o r)[i + Len(q)] = r[i]
  BY <1>1, <1>2
<1>7. Entries(q) \cup Entries(r) \subseteq Entries(q \o r)
  <2>1. \A i \in DOMAIN q : q[i] \in Entries(q \o r)
    BY <1>5 DEF Entries
  <2>2. \A i \in DOMAIN r : r[i] \in Entries(q \o r)
    BY <1>6 DEF Entries
  <2> QED
    BY <2>1, <2>2 DEF Entries
<1>8. Apart(q \o r)
  <2> SUFFICES ASSUME NEW i \in DOMAIN (q \o r), NEW j \in DOMAIN (q \o r), i # j
               PROVE  (q \o r)[i].mk # (q \o r)[j].mk
    BY DEF Apart
  <2>1. i \in Int /\ j \in Int
    BY <1>2
  <2>2. CASE i \in DOMAIN q /\ (q \o r)[i] = q[i] /\ j \in DOMAIN q /\ (q \o r)[j] = q[j]
    BY <2>2 DEF Apart
  <2>3. CASE /\ i - Len(q) \in DOMAIN r /\ (q \o r)[i] = r[i - Len(q)]
             /\ j - Len(q) \in DOMAIN r /\ (q \o r)[j] = r[j - Len(q)]
    <3>1. i - Len(q) # j - Len(q)
      BY <1>2, <2>1
    <3> QED
      BY <2>3, <3>1 DEF Apart
  <2>4. CASE /\ i \in DOMAIN q /\ (q \o r)[i] = q[i]
             /\ j - Len(q) \in DOMAIN r /\ (q \o r)[j] = r[j - Len(q)]
    BY <2>4 DEF Entries
  <2>5. CASE /\ j \in DOMAIN q /\ (q \o r)[j] = q[j]
             /\ i - Len(q) \in DOMAIN r /\ (q \o r)[i] = r[i - Len(q)]
    BY <2>5 DEF Entries
  <2> QED
    BY <1>3, <2>2, <2>3, <2>4, <2>5
<1> QED
  BY <1>1, <1>4, <1>7, <1>8

\* Dropping the oldest keeps the rest.
LEMMA Dropped ==
  ASSUME NEW q \in Seq(V2!SkippedKey), NEW n \in Nat, Apart(q)
  PROVE  /\ SubSeq(q, n + 1, Len(q)) \in Seq(V2!SkippedKey)
         /\ Apart(SubSeq(q, n + 1, Len(q)))
         /\ Entries(SubSeq(q, n + 1, Len(q))) \subseteq Entries(q)
         /\ n <= Len(q) => Len(SubSeq(q, n + 1, Len(q))) = Len(q) - n
<1> DEFINE r == SubSeq(q, n + 1, Len(q))
<1>1. Len(q) \in Nat /\ DOMAIN q = 1..Len(q) /\ \A i \in 1..Len(q) : q[i] \in V2!SkippedKey
  BY LenProperties
<1>2. /\ n + 1 \in Int /\ Len(q) \in Int
      /\ \A i \in (n + 1)..Len(q) : q[i] \in V2!SkippedKey
  BY <1>1
<1>3. /\ r \in Seq(V2!SkippedKey)
      /\ Len(r) = IF n + 1 <= Len(q) THEN Len(q) - (n + 1) + 1 ELSE 0
      /\ \A i \in 1..(Len(q) - (n + 1) + 1) : r[i] = q[(n + 1) + i - 1]
  BY <1>2, SubSeqProperties
<1> HIDE DEF r
<1>4. DOMAIN r = 1..Len(r)
  BY <1>3, LenProperties
<1>5. \A i \in DOMAIN r : i + n \in DOMAIN q /\ r[i] = q[i + n]
  <2> SUFFICES ASSUME NEW i \in DOMAIN r PROVE i + n \in DOMAIN q /\ r[i] = q[i + n]
    OBVIOUS
  <2>1. i \in 1..(Len(q) - (n + 1) + 1)
    <3>1. CASE n + 1 <= Len(q)
      BY <1>1, <1>3, <1>4, <3>1
    <3>2. CASE ~(n + 1 <= Len(q))
      <4>1. i \in 1..0
        BY <1>3, <1>4, <3>2
      <4> QED
        BY <4>1
    <3> QED
      BY <3>1, <3>2
  <2>2. (n + 1) + i - 1 = i + n /\ i + n \in 1..Len(q)
    BY <1>1, <2>1
  <2> QED
    BY <1>1, <1>3, <2>1, <2>2
<1>6. \A i, j \in DOMAIN r : i # j => i + n # j + n
  BY <1>4
<1>7. Apart(r)
  BY <1>5, <1>6 DEF Apart
<1>8. Entries(r) \subseteq Entries(q)
  BY <1>5 DEF Entries
<1>9. n <= Len(q) => Len(r) = Len(q) - n
  <2>1. \A k \in Nat : n <= k => (IF n + 1 <= k THEN k - (n + 1) + 1 ELSE 0) = k - n
    OBVIOUS
  <2> QED
    BY <1>1, <1>3, <2>1
<1> QED
  BY <1>3, <1>7, <1>8, <1>9 DEF r

\* Taking one out leaves the others, and no copy of it.
LEMMA TakenOut ==
  ASSUME NEW q \in Seq(V2!SkippedKey), NEW i \in DOMAIN q, Apart(q)
  PROVE  /\ V2!RemoveAt(q, i) \in Seq(V2!SkippedKey)
         /\ Apart(V2!RemoveAt(q, i))
         /\ Entries(V2!RemoveAt(q, i)) \subseteq Entries(q)
         /\ \A e \in Entries(V2!RemoveAt(q, i)) : e.mk # q[i].mk
         /\ Len(V2!RemoveAt(q, i)) <= Len(q)
<1> DEFINE a == SubSeq(q, 1, i - 1)
           b == SubSeq(q, i + 1, Len(q))
<1>1. Len(q) \in Nat /\ DOMAIN q = 1..Len(q) /\ \A j \in 1..Len(q) : q[j] \in V2!SkippedKey
  BY LenProperties
<1>2. i \in 1..Len(q)
  BY <1>1
<1>3. /\ a \in Seq(V2!SkippedKey)
      /\ Len(a) = IF 1 <= i - 1 THEN i - 1 - 1 + 1 ELSE 0
      /\ \A j \in 1..(i - 1 - 1 + 1) : a[j] = q[1 + j - 1]
  <2>1. 1 \in Int /\ i - 1 \in Int /\ \A j \in 1..(i - 1) : q[j] \in V2!SkippedKey
    BY <1>1, <1>2
  <2> QED
    BY <2>1, SubSeqProperties
<1>4. /\ b \in Seq(V2!SkippedKey)
      /\ Len(b) = IF i + 1 <= Len(q) THEN Len(q) - (i + 1) + 1 ELSE 0
      /\ \A j \in 1..(Len(q) - (i + 1) + 1) : b[j] = q[(i + 1) + j - 1]
  <2>1. i + 1 \in Int /\ Len(q) \in Int /\ \A j \in (i + 1)..Len(q) : q[j] \in V2!SkippedKey
    BY <1>1, <1>2
  <2> QED
    BY <2>1, SubSeqProperties
<1> HIDE DEF a, b
<1>5. DOMAIN a = 1..Len(a) /\ DOMAIN b = 1..Len(b)
  BY <1>3, <1>4, LenProperties
<1>6. \A j \in DOMAIN a : j \in DOMAIN q /\ j < i /\ a[j] = q[j]
  <2> SUFFICES ASSUME NEW j \in DOMAIN a PROVE j \in DOMAIN q /\ j < i /\ a[j] = q[j]
    OBVIOUS
  <2>1. j \in 1..(i - 1 - 1 + 1) /\ 1 + j - 1 = j
    BY <1>2, <1>3, <1>5
  <2> QED
    BY <1>1, <1>2, <1>3, <2>1
<1>7. \A j \in DOMAIN b : j + i \in DOMAIN q /\ j + i > i /\ b[j] = q[j + i]
  <2> SUFFICES ASSUME NEW j \in DOMAIN b PROVE j + i \in DOMAIN q /\ j + i > i /\ b[j] = q[j + i]
    OBVIOUS
  <2>1. j \in 1..(Len(q) - (i + 1) + 1) /\ (i + 1) + j - 1 = j + i
    BY <1>1, <1>2, <1>4, <1>5
  <2>2. b[j] = q[j + i]
    BY <1>4, <2>1
  <2> QED
    BY <1>1, <1>2, <2>1, <2>2
<1>8. Apart(a) /\ Apart(b)
  <2>1. Apart(a)
    BY <1>6 DEF Apart
  <2>2. \A j, k \in DOMAIN b : j # k => j + i # k + i
    BY <1>2, <1>5
  <2> QED
    BY <1>7, <2>1, <2>2 DEF Apart
<1>9. \A e \in Entries(a), f \in Entries(b) : e.mk # f.mk
  <2> SUFFICES ASSUME NEW j \in DOMAIN a, NEW k \in DOMAIN b PROVE a[j].mk # b[k].mk
    BY DEF Entries
  <2>1. j # k + i
    BY <1>2, <1>5, <1>6, <1>7
  <2> QED
    BY <1>6, <1>7, <2>1 DEF Apart
<1>10. \A e \in Entries(a) \cup Entries(b) : e \in Entries(q) /\ e.mk # q[i].mk
  <2>1. \A j \in DOMAIN a : a[j] \in Entries(q) /\ a[j].mk # q[i].mk
    BY <1>2, <1>5, <1>6 DEF Apart, Entries
  <2>2. \A j \in DOMAIN b : j + i # i
    BY <1>1, <1>2, <1>5
  <2>3. \A j \in DOMAIN b : b[j] \in Entries(q) /\ b[j].mk # q[i].mk
    BY <1>7, <2>2 DEF Apart, Entries
  <2> QED
    BY <2>1, <2>3 DEF Entries
<1>11. V2!RemoveAt(q, i) = a \o b
  BY DEF V2!RemoveAt, a, b
<1>12. Len(a) + Len(b) <= Len(q)
  BY <1>1, <1>2, <1>3, <1>4
<1>13. /\ a \o b \in Seq(V2!SkippedKey) /\ Apart(a \o b) /\ Len(a \o b) = Len(a) + Len(b)
       /\ Entries(a \o b) = Entries(a) \cup Entries(b)
  BY <1>3, <1>4, <1>8, <1>9, Joined
<1> QED
  BY <1>10, <1>11, <1>12, <1>13

-----------------------------------------------------------------------------
(* skipUntil and ratchetDecrypt on one state. *)

\* A key agreement adds one to a root.
LEMMA Derived ==
  ASSUME NEW root \in V2!KeyRoot, NEW p \in V2!KeyPair, NEW q \in V2!KeyPair
  PROVE  /\ V2!Derive(root, p, q) \in V2!KeyRoot
         /\ V2!Derive(root, p, q).sid = root.sid
         /\ Len(root.path) \in Nat
         /\ Len(V2!Derive(root, p, q).path) = Len(root.path) + 1
<1>1. root.path \in Seq(SUBSET V2!KeyPair) /\ root.sid \in V2!Sid /\ {p, q} \in SUBSET V2!KeyPair
  BY DEF V2!KeyRoot
<1>2. /\ Append(root.path, {p, q}) \in Seq(SUBSET V2!KeyPair)
      /\ Len(Append(root.path, {p, q})) = Len(root.path) + 1
      /\ Append(root.path, {p, q})[Len(root.path) + 1] = {p, q}
  BY <1>1, AppendProperties
<1>3. Len(root.path) \in Nat
  BY <1>1, LenProperties
<1>4. V2!Derive(root, p, q) = [sid |-> root.sid, path |-> Append(root.path, {p, q})]
  BY DEF V2!Derive, V2!Root
<1> QED
  BY <1>1, <1>2, <1>3, <1>4 DEF V2!KeyRoot

\* Is p in the last agreement of a root?
Agreed(root, p) == p \in V2!Last(root.path)

LEMMA AgreedLast ==
  ASSUME NEW root \in V2!KeyRoot, NEW p \in V2!KeyPair, NEW q \in V2!KeyPair, NEW x
  PROVE  Agreed(V2!Derive(root, p, q), x) <=> (x = p \/ x = q)
<1>1. root.path \in Seq(SUBSET V2!KeyPair) /\ {p, q} \in SUBSET V2!KeyPair
  BY DEF V2!KeyRoot
<1>2. /\ Len(Append(root.path, {p, q})) = Len(root.path) + 1
      /\ Append(root.path, {p, q})[Len(root.path) + 1] = {p, q}
  BY <1>1, AppendProperties
<1>3. V2!Derive(root, p, q) = [sid |-> root.sid, path |-> Append(root.path, {p, q})]
  BY DEF V2!Derive, V2!Root
<1>4. V2!Last(V2!Derive(root, p, q).path) = {p, q}
  BY <1>2, <1>3 DEF V2!Last
<1> QED
  BY <1>4 DEF Agreed


\* The keys passed over when the chain ckr, heard under the pair dhr, moves on to until.
Passing(st, until, e) ==
  /\ st.ckr # None /\ e.dh = st.dhr /\ e.mk = V2!MessageKey(st.ckr, e.n)
  /\ e.n \in Nat /\ st.nr <= e.n /\ e.n < until

\* What is known of a state's receiving side.
Listed(st) ==
  /\ Apart(st.skipped)
  /\ st.ckr # None => st.dhr \in V2!KeyPair
  /\ \A e \in Entries(st.skipped) : e.mk.n = e.n /\ (e.mk.chain = st.ckr => e.n < st.nr)

\* All but the receiving chain's place and the skipped keys.
SameKeys(st, next) ==
  /\ next.dhs = st.dhs /\ next.dhr = st.dhr /\ next.rk = st.rk /\ next.cks = st.cks
  /\ next.ckr = st.ckr /\ next.ns = st.ns /\ next.pn = st.pn

LEMMA PassedTyped ==
  ASSUME NEW st \in V2!State, NEW until \in Nat, st.ckr # None, st.dhr \in V2!KeyPair,
         st.nr < until
  PROVE  /\ V2!PassedBy(st, until) \in Seq(V2!SkippedKey)
         /\ Apart(V2!PassedBy(st, until))
         /\ \A e \in Entries(V2!PassedBy(st, until)) : Passing(st, until, e)
<1> DEFINE q == V2!PassedBy(st, until)
           len == until - st.nr
<1>1. st.nr \in Nat /\ st.ckr \in V2!KeyRoot
  BY DEF V2!State
<1>2. len \in Nat
  BY <1>1
<1>3. \A j \in 1..len : st.nr + j - 1 \in Nat /\ st.nr <= st.nr + j - 1 /\ st.nr + j - 1 < until
  BY <1>1
<1>4. \A n \in Nat : V2!MessageKey(st.ckr, n) \in V2!SealingKey /\ V2!MessageKey(st.ckr, n).n = n
  BY <1>1 DEF V2!MessageKey, V2!SealingKey
<1>5. \A n \in Nat : [dh |-> st.dhr, n |-> n, mk |-> V2!MessageKey(st.ckr, n)] \in V2!SkippedKey
  BY <1>4 DEF V2!SkippedKey
<1>6. q = [j \in 1..len |-> [dh |-> st.dhr, n |-> st.nr + j - 1,
                             mk |-> V2!MessageKey(st.ckr, st.nr + j - 1)]]
  BY DEF V2!PassedBy
<1> HIDE DEF q, len
<1>7. q \in [1..len -> V2!SkippedKey] /\ DOMAIN q = 1..len
  BY <1>3, <1>5, <1>6
<1>8. q \in Seq(V2!SkippedKey)
  BY <1>2, <1>7, SeqDef
<1>9. \A j \in 1..len : /\ q[j].n = st.nr + j - 1 /\ q[j].dh = st.dhr
                        /\ q[j].mk = V2!MessageKey(st.ckr, st.nr + j - 1)
  BY <1>6
<1>10. Apart(q)
  <2> SUFFICES ASSUME NEW i \in 1..len, NEW j \in 1..len, i # j PROVE q[i].mk # q[j].mk
    BY <1>7 DEF Apart
  <2>1. q[i].mk.n = st.nr + i - 1 /\ q[j].mk.n = st.nr + j - 1
    BY <1>3, <1>4, <1>9
  <2>2. st.nr + i - 1 # st.nr + j - 1
    BY <1>1
  <2> QED
    BY <2>1, <2>2
<1>11. \A e \in Entries(q) : Passing(st, until, e)
  <2> SUFFICES ASSUME NEW j \in 1..len PROVE Passing(st, until, q[j])
    BY <1>7 DEF Entries
  <2> QED
    BY <1>3, <1>9 DEF Passing
<1> QED
  BY <1>8, <1>10, <1>11 DEF q

LEMMA SkipEffect ==
  ASSUME NEW st \in V2!State, NEW until \in Nat, Listed(st)
  PROVE  /\ V2!SkipUntil(st, until) \in V2!State
         /\ SameKeys(st, V2!SkipUntil(st, until))
         /\ V2!SkipUntil(st, until).nr = IF st.ckr = None \/ until <= st.nr THEN st.nr ELSE until
         /\ Apart(V2!SkipUntil(st, until).skipped)
         /\ \A e \in Entries(V2!SkipUntil(st, until).skipped) :
              e \in Entries(st.skipped) \/ Passing(st, until, e)
         /\ Len(st.skipped) <= MaxStored => Len(V2!SkipUntil(st, until).skipped) <= MaxStored
<1>1. CASE st.ckr = None \/ until <= st.nr
  BY <1>1 DEF V2!SkipUntil, SameKeys, Listed
<1>2. CASE ~(st.ckr = None \/ until <= st.nr)
  <2> DEFINE all == st.skipped \o V2!PassedBy(st, until)
             over == IF Len(all) > MaxStored THEN Len(all) - MaxStored ELSE 0
             kept == SubSeq(all, over + 1, Len(all))
  <2>1. V2!SkipUntil(st, until) = [st EXCEPT !.skipped = kept, !.nr = until]
    BY <1>2 DEF V2!SkipUntil
  <2>2. st.nr \in Nat /\ st.ckr # None /\ st.nr < until /\ st.dhr \in V2!KeyPair
        /\ st.skipped \in Seq(V2!SkippedKey)
    BY <1>2 DEF V2!State, Listed
  <2>3. /\ V2!PassedBy(st, until) \in Seq(V2!SkippedKey)
        /\ Apart(V2!PassedBy(st, until))
        /\ \A e \in Entries(V2!PassedBy(st, until)) : Passing(st, until, e)
    BY <2>2, PassedTyped
  <2>4. \A e \in Entries(st.skipped), f \in Entries(V2!PassedBy(st, until)) : e.mk # f.mk
    <3> SUFFICES ASSUME NEW e \in Entries(st.skipped), NEW f \in Entries(V2!PassedBy(st, until)),
                        e.mk = f.mk
                 PROVE  FALSE
      OBVIOUS
    <3>1. f.mk.chain = st.ckr /\ f.mk.n = f.n /\ f.n \in Nat /\ st.nr <= f.n
      <4>1. f.mk = V2!MessageKey(st.ckr, f.n) /\ f.n \in Nat /\ st.nr <= f.n
        BY <2>3 DEF Passing
      <4> QED
        BY <4>1 DEF V2!MessageKey
    <3>2. e.mk.n = e.n /\ e.n < st.nr
      BY <3>1 DEF Listed
    <3> QED
      BY <2>2, <3>1, <3>2
  <2>5. /\ all \in Seq(V2!SkippedKey) /\ Apart(all)
        /\ Entries(all) = Entries(st.skipped) \cup Entries(V2!PassedBy(st, until))
    BY <2>2, <2>3, <2>4, Joined DEF Listed
  <2> HIDE DEF all
  <2>6. Len(all) \in Nat /\ over \in Nat
    BY <2>5, LenProperties, Bounds
  <2>10. /\ over <= Len(all) /\ Len(all) - over <= MaxStored
    BY <2>6, Bounds
  <2> HIDE DEF over
  <2>7. /\ kept \in Seq(V2!SkippedKey) /\ Apart(kept) /\ Entries(kept) \subseteq Entries(all)
        /\ Len(kept) = Len(all) - over
    BY <2>5, <2>6, <2>10, Dropped
  <2> HIDE DEF kept
  <2>8. /\ V2!SkipUntil(st, until) \in V2!State /\ SameKeys(st, V2!SkipUntil(st, until))
        /\ V2!SkipUntil(st, until).nr = until /\ V2!SkipUntil(st, until).skipped = kept
    BY <2>1, <2>7 DEF V2!State, SameKeys
  <2>9. \A e \in Entries(kept) : e \in Entries(st.skipped) \/ Passing(st, until, e)
    BY <2>3, <2>5, <2>7
  <2>11. Len(kept) <= MaxStored
    BY <2>7, <2>10
  <2> QED
    BY <1>2, <2>7, <2>8, <2>9, <2>11
<1> QED
  BY <1>1, <1>2

\* The chains a session's state knows are shorter than its root, which the sending chain is.
Shape(s, st) ==
  /\ Listed(st)
  /\ st.rk.sid = s
  /\ st.ckr # None => st.ckr.sid = s /\ Len(st.ckr.path) < Len(st.rk.path)
  /\ \A e \in Entries(st.skipped) :
       e.mk.chain.sid = s /\ Len(e.mk.chain.path) < Len(st.rk.path)

\* A pair and a number stand for one skipped key.
Alone(st) ==
  \A i, j \in DOMAIN st.skipped :
    st.skipped[i].dh = st.skipped[j].dh /\ st.skipped[i].n = st.skipped[j].n => i = j

\* The three ways ratchetDecrypt comes by m's key.
FromSkipped(st, m, next) ==
  /\ V2!SkippedAt(st, m) # {}
  /\ SameKeys(st, next) /\ next.nr = st.nr
  /\ \E e \in Entries(st.skipped) : e.mk = m.key
  /\ Entries(next.skipped) \subseteq Entries(st.skipped)
  /\ \A e \in Entries(next.skipped) : e.mk # m.key

FromChain(st, m, next) ==
  /\ V2!SkippedAt(st, m) = {}
  /\ SameKeys(st, next) /\ next.nr = m.n + 1
  /\ st.ckr # None /\ m.dh = st.dhr /\ m.key.chain = st.ckr /\ st.nr <= m.n
  /\ \A e \in Entries(next.skipped) : e \in Entries(st.skipped) \/ Passing(st, m.n, e)

Leading(m, e) ==
  e.dh = m.dh /\ e.mk = V2!MessageKey(m.key.chain, e.n) /\ e.n \in Nat /\ e.n < m.n

FromTurn(st, m, mine, next) ==
  /\ V2!SkippedAt(st, m) = {} /\ m.dh # st.dhr
  /\ m.key.chain = V2!Derive(st.rk, st.dhs, m.dh)
  /\ next.dhs = mine /\ next.dhr = m.dh /\ next.ckr = m.key.chain
  /\ next.rk = V2!Derive(m.key.chain, mine, m.dh) /\ next.cks = next.rk
  /\ next.ns = 0 /\ next.nr = m.n + 1 /\ next.pn = st.ns
  /\ \A e \in Entries(next.skipped) :
       e \in Entries(st.skipped) \/ Passing(st, m.pn, e) \/ Leading(m, e)

LEMMA SkippedStep ==
  ASSUME NEW s, NEW st \in V2!State, NEW m \in V2!Message, NEW mine, Shape(s, st), Alone(st),
         V2!SkippedAt(st, m) # {}, V2!Opens(st, m, mine)
  PROVE  /\ V2!Stepped(st, m, mine) \in V2!State
         /\ Apart(V2!Stepped(st, m, mine).skipped)
         /\ FromSkipped(st, m, V2!Stepped(st, m, mine))
         /\ Len(st.skipped) <= MaxStored => Len(V2!Stepped(st, m, mine).skipped) <= MaxStored
<1> DEFINE i == CHOOSE j \in V2!SkippedAt(st, m) : TRUE
           q == V2!RemoveAt(st.skipped, i)
<1>1. i \in V2!SkippedAt(st, m)
  OBVIOUS
<1>2. V2!Stepped(st, m, mine) = [st EXCEPT !.skipped = q]
  BY DEF V2!Stepped
<1> HIDE DEF i
<1>3. PICK j \in V2!SkippedAt(st, m) : st.skipped[j].mk = m.key
  BY DEF V2!Opens
<1>4. i \in DOMAIN st.skipped /\ i = j
  BY <1>1 DEF V2!SkippedAt, Alone
<1>5. st.skipped \in Seq(V2!SkippedKey) /\ Apart(st.skipped)
  BY DEF V2!State, Shape, Listed
<1>6. /\ q \in Seq(V2!SkippedKey) /\ Apart(q) /\ Entries(q) \subseteq Entries(st.skipped)
      /\ \A e \in Entries(q) : e.mk # m.key
      /\ Len(q) <= Len(st.skipped)
  BY <1>3, <1>4, <1>5, TakenOut
<1> HIDE DEF q
<1>7. /\ V2!Stepped(st, m, mine) \in V2!State /\ SameKeys(st, V2!Stepped(st, m, mine))
      /\ V2!Stepped(st, m, mine).nr = st.nr /\ V2!Stepped(st, m, mine).skipped = q
  BY <1>2, <1>6 DEF V2!State, SameKeys
<1>8. st.skipped[i] \in Entries(st.skipped) /\ st.skipped[i].mk = m.key
  BY <1>3, <1>4 DEF Entries
<1>9. Len(st.skipped) <= MaxStored => Len(q) <= MaxStored
  <2>1. Len(q) \in Nat /\ Len(st.skipped) \in Nat /\ MaxStored \in Nat
    BY <1>5, <1>6, LenProperties, Bounds
  <2> QED
    BY <1>6, <2>1
<1>10. FromSkipped(st, m, V2!Stepped(st, m, mine))
  BY <1>6, <1>7, <1>8 DEF FromSkipped
<1> QED
  BY <1>6, <1>7, <1>9, <1>10

LEMMA OnChainStep ==
  ASSUME NEW s, NEW st \in V2!State, NEW m \in V2!Message, NEW mine, Shape(s, st),
         V2!SkippedAt(st, m) = {}, V2!Opens(st, m, mine), m.dh = st.dhr
  PROVE  /\ V2!Stepped(st, m, mine) \in V2!State
         /\ Apart(V2!Stepped(st, m, mine).skipped)
         /\ FromChain(st, m, V2!Stepped(st, m, mine))
         /\ Len(st.skipped) <= MaxStored => Len(V2!Stepped(st, m, mine).skipped) <= MaxStored
<1> DEFINE got == V2!SkipUntil(st, m.n)
<1>1. V2!Stepped(st, m, mine) = [got EXCEPT !.nr = @ + 1] /\ V2!Caught(st, m, mine) = got
  BY DEF V2!Stepped, V2!Caught
<1>2. m.n \in Nat /\ m.key \in V2!SealingKey /\ m.key.chain \in V2!KeyRoot
  BY DEF V2!Message, V2!SealingKey
<1>3. /\ got \in V2!State /\ SameKeys(st, got) /\ Apart(got.skipped)
      /\ got.nr = IF st.ckr = None \/ m.n <= st.nr THEN st.nr ELSE m.n
      /\ \A e \in Entries(got.skipped) : e \in Entries(st.skipped) \/ Passing(st, m.n, e)
      /\ Len(st.skipped) <= MaxStored => Len(got.skipped) <= MaxStored
  BY <1>2, SkipEffect DEF Shape
<1>4. ~(m.n < st.nr) /\ V2!MessageKey(got.ckr, m.n) = m.key
  BY <1>1 DEF V2!Opens, V2!Refused
<1> HIDE DEF got
<1>5. m.key.chain = st.ckr /\ st.ckr # None
  <2>1. m.key.chain = got.ckr
    BY <1>4 DEF V2!MessageKey
  <2> QED
    BY <1>2, <1>3, <2>1, NoneAssumption DEF SameKeys
<1>6. st.nr \in Nat /\ st.nr <= m.n /\ got.nr = m.n
  <2>1. st.nr \in Nat
    BY DEF V2!State
  <2> QED
    BY <1>2, <1>3, <1>4, <1>5, <2>1
<1> DEFINE next == V2!Stepped(st, m, mine)
<1>7. next \in V2!State /\ SameKeys(got, next) /\ next.skipped = got.skipped /\ next.nr = m.n + 1
  <2>1. next = [got EXCEPT !.nr = m.n + 1] /\ m.n + 1 \in Nat
    BY <1>1, <1>2, <1>6
  <2> HIDE DEF next
  <2> QED
    BY <1>3, <2>1 DEF V2!State, SameKeys
<1> HIDE DEF next
<1>8. SameKeys(st, next)
  BY <1>3, <1>7 DEF SameKeys
<1> QED
  BY <1>3, <1>5, <1>6, <1>7, <1>8 DEF FromChain, next

\* What a turn comes to, up to the step of m's key.
LEMMA TurnCaught ==
  ASSUME NEW s, NEW st \in V2!State, NEW m \in V2!Message, NEW mine \in V2!KeyPair, Shape(s, st),
         m.dh # st.dhr, NEW got, got = V2!Caught(st, m, mine)
  PROVE  /\ got \in V2!State /\ Apart(got.skipped)
         /\ got.dhs = mine /\ got.dhr = m.dh /\ got.ckr = V2!Derive(st.rk, st.dhs, m.dh)
         /\ got.rk = V2!Derive(got.ckr, mine, m.dh) /\ got.cks = got.rk
         /\ got.ns = 0 /\ got.nr = m.n /\ got.pn = st.ns
         /\ \A e \in Entries(got.skipped) :
              \/ e \in Entries(st.skipped) \/ Passing(st, m.pn, e)
              \/ e.dh = m.dh /\ e.mk = V2!MessageKey(got.ckr, e.n) /\ e.n \in Nat /\ e.n < m.n
         /\ Len(st.skipped) <= MaxStored => Len(got.skipped) <= MaxStored
<1> DEFINE old == V2!SkipUntil(st, m.pn)
           recv == V2!Derive(old.rk, old.dhs, m.dh)
           send == V2!Derive(recv, mine, m.dh)
           new == V2!DhRatchet(old, m.dh, mine)
<1>1. got = V2!SkipUntil(new, m.n)
  BY DEF V2!Caught
<1>2. m.n \in Nat /\ m.pn \in Nat /\ m.dh \in V2!KeyPair
  BY DEF V2!Message
<1>3. /\ old \in V2!State /\ SameKeys(st, old) /\ Apart(old.skipped)
      /\ \A e \in Entries(old.skipped) : e \in Entries(st.skipped) \/ Passing(st, m.pn, e)
      /\ Len(st.skipped) <= MaxStored => Len(old.skipped) <= MaxStored
  BY <1>2, SkipEffect DEF Shape
<1>5. new = [old EXCEPT !.pn = old.ns, !.ns = 0, !.nr = 0, !.dhr = m.dh,
                        !.ckr = recv, !.dhs = mine, !.rk = send, !.cks = send]
  BY DEF V2!DhRatchet
<1> HIDE DEF old, new
<1>6. old.rk \in V2!KeyRoot /\ old.dhs \in V2!KeyPair /\ old.ns \in Nat
  BY <1>3 DEF V2!State
<1>7. /\ recv \in V2!KeyRoot /\ send \in V2!KeyRoot /\ Len(old.rk.path) \in Nat
      /\ Len(recv.path) = Len(old.rk.path) + 1
  BY <1>2, <1>6, Derived
<1>8. recv = V2!Derive(st.rk, st.dhs, m.dh) /\ old.rk = st.rk
  BY <1>3 DEF SameKeys
<1> HIDE DEF recv, send
<1>9. /\ new \in V2!State /\ new.skipped = old.skipped /\ new.nr = 0 /\ new.ns = 0
      /\ new.pn = old.ns /\ new.dhs = mine /\ new.dhr = m.dh /\ new.ckr = recv /\ new.rk = send /\ new.cks = send
  BY <1>2, <1>3, <1>5, <1>6, <1>7 DEF V2!State
<1>10. \A e \in Entries(old.skipped) : e.mk.n = e.n /\ e.mk.chain # recv
  <2> SUFFICES ASSUME NEW e \in Entries(old.skipped) PROVE e.mk.n = e.n /\ e.mk.chain # recv
    OBVIOUS
  <2>1. CASE e \in Entries(st.skipped)
    <3>1. st.skipped \in Seq(V2!SkippedKey)
      BY DEF V2!State
    <3>2. e \in V2!SkippedKey
      BY <2>1, <3>1, LenProperties DEF Entries
    <3>3. e.mk.chain.path \in Seq(SUBSET V2!KeyPair)
      BY <3>2 DEF V2!SkippedKey, V2!SealingKey, V2!KeyRoot
    <3>4. Len(e.mk.chain.path) \in Nat
      BY <3>3, LenProperties
    <3>5. e.mk.n = e.n /\ Len(e.mk.chain.path) < Len(st.rk.path)
      BY <2>1 DEF Shape, Listed
    <3> QED
      BY <1>7, <1>8, <3>4, <3>5
  <2>2. CASE Passing(st, m.pn, e)
    <3>1. e.mk = V2!MessageKey(st.ckr, e.n) /\ st.ckr # None
      BY <2>2 DEF Passing
    <3>2. e.mk.n = e.n /\ e.mk.chain = st.ckr
      BY <3>1 DEF V2!MessageKey
    <3>3. st.ckr \in V2!KeyRoot
      BY <3>1 DEF V2!State
    <3>4. Len(st.ckr.path) \in Nat
      BY <3>3, LenProperties DEF V2!KeyRoot
    <3>5. Len(st.ckr.path) < Len(st.rk.path)
      BY <3>1 DEF Shape
    <3> QED
      BY <1>7, <1>8, <3>2, <3>4, <3>5
  <2> QED
    BY <1>3, <2>1, <2>2
<1>11. Listed(new)
  BY <1>2, <1>3, <1>9, <1>10 DEF Listed
<1>12. recv # None
  BY <1>7, NoneAssumption
<1>13. /\ got \in V2!State /\ SameKeys(new, got) /\ Apart(got.skipped)
       /\ got.nr = IF m.n <= 0 THEN 0 ELSE m.n
       /\ \A e \in Entries(got.skipped) : e \in Entries(old.skipped) \/ Passing(new, m.n, e)
       /\ Len(old.skipped) <= MaxStored => Len(got.skipped) <= MaxStored
  <2>1. /\ got \in V2!State /\ SameKeys(new, got) /\ Apart(got.skipped)
        /\ got.nr = IF new.ckr = None \/ m.n <= new.nr THEN new.nr ELSE m.n
        /\ \A e \in Entries(got.skipped) : e \in Entries(new.skipped) \/ Passing(new, m.n, e)
        /\ Len(new.skipped) <= MaxStored => Len(got.skipped) <= MaxStored
    BY <1>1, <1>2, <1>9, <1>11, SkipEffect
  <2> QED
    BY <1>9, <1>12, <2>1
<1>14. got.nr = m.n
  BY <1>2, <1>13
<1>15. /\ got.dhs = mine /\ got.dhr = m.dh /\ got.ckr = recv /\ got.ns = 0
       /\ got.rk = send /\ got.cks = send /\ got.pn = old.ns /\ old.ns = st.ns
  BY <1>3, <1>9, <1>13 DEF SameKeys
<1>16. \A e \in Entries(got.skipped) :
         \/ e \in Entries(st.skipped) \/ Passing(st, m.pn, e)
         \/ e.dh = m.dh /\ e.mk = V2!MessageKey(got.ckr, e.n) /\ e.n \in Nat /\ e.n < m.n
  BY <1>3, <1>9, <1>13, <1>15 DEF Passing
<1>17. got.rk = V2!Derive(got.ckr, mine, m.dh)
  BY <1>15 DEF send
<1>18. Len(st.skipped) <= MaxStored => Len(got.skipped) <= MaxStored
  BY <1>3, <1>9, <1>13
<1> QED
  BY <1>8, <1>13, <1>14, <1>15, <1>16, <1>17, <1>18

LEMMA TurnStep ==
  ASSUME NEW s, NEW st \in V2!State, NEW m \in V2!Message, NEW mine \in V2!KeyPair, Shape(s, st),
         V2!SkippedAt(st, m) = {}, V2!Opens(st, m, mine), m.dh # st.dhr
  PROVE  /\ V2!Stepped(st, m, mine) \in V2!State
         /\ Apart(V2!Stepped(st, m, mine).skipped)
         /\ FromTurn(st, m, mine, V2!Stepped(st, m, mine))
         /\ Len(st.skipped) <= MaxStored => Len(V2!Stepped(st, m, mine).skipped) <= MaxStored
<1> DEFINE got == V2!Caught(st, m, mine)
           next == V2!Stepped(st, m, mine)
<1>1. next = [got EXCEPT !.nr = @ + 1] /\ V2!MessageKey(got.ckr, m.n) = m.key
  BY DEF V2!Stepped, V2!Opens
<1>2. /\ got \in V2!State /\ Apart(got.skipped)
      /\ got.dhs = mine /\ got.dhr = m.dh /\ got.ckr = V2!Derive(st.rk, st.dhs, m.dh)
      /\ got.rk = V2!Derive(got.ckr, mine, m.dh) /\ got.cks = got.rk
      /\ got.ns = 0 /\ got.nr = m.n /\ got.pn = st.ns
      /\ \A e \in Entries(got.skipped) :
           \/ e \in Entries(st.skipped) \/ Passing(st, m.pn, e)
           \/ e.dh = m.dh /\ e.mk = V2!MessageKey(got.ckr, e.n) /\ e.n \in Nat /\ e.n < m.n
      /\ Len(st.skipped) <= MaxStored => Len(got.skipped) <= MaxStored
  BY TurnCaught
<1> HIDE DEF got
<1>3. m.key.chain = got.ckr
  BY <1>1 DEF V2!MessageKey
<1>4. next \in V2!State /\ SameKeys(got, next) /\ next.skipped = got.skipped /\ next.nr = m.n + 1
  <2>1. next = [got EXCEPT !.nr = m.n + 1] /\ m.n + 1 \in Nat
    BY <1>1, <1>2 DEF V2!Message
  <2> HIDE DEF next
  <2> QED
    BY <1>2, <2>1 DEF V2!State, SameKeys
<1> HIDE DEF next
<1>5. /\ next.dhs = mine /\ next.dhr = m.dh /\ next.ckr = m.key.chain /\ next.ns = 0
      /\ next.rk = V2!Derive(m.key.chain, mine, m.dh) /\ next.cks = next.rk /\ next.pn = st.ns
      /\ m.key.chain = V2!Derive(st.rk, st.dhs, m.dh)
  BY <1>2, <1>3, <1>4 DEF SameKeys
<1>6. \A e \in Entries(next.skipped) :
        e \in Entries(st.skipped) \/ Passing(st, m.pn, e) \/ Leading(m, e)
  BY <1>2, <1>3, <1>4 DEF Leading
<1>7. FromTurn(st, m, mine, next)
  BY <1>4, <1>5, <1>6 DEF FromTurn
<1> QED
  BY <1>2, <1>4, <1>7 DEF next

LEMMA Lengths ==
  ASSUME NEW root \in V2!KeyRoot
  PROVE  Len(root.path) \in Nat
<1>1. root.path \in Seq(SUBSET V2!KeyPair)
  BY DEF V2!KeyRoot
<1> QED
  BY <1>1, LenProperties

LEMMA EntryTyped ==
  ASSUME NEW st \in V2!State, NEW e \in Entries(st.skipped)
  PROVE  e \in V2!SkippedKey /\ e.n \in Nat /\ e.dh \in V2!KeyPair /\ e.mk \in V2!SealingKey
         /\ e.mk.chain \in V2!KeyRoot
<1>1. st.skipped \in Seq(V2!SkippedKey)
  BY DEF V2!State
<1>2. e \in V2!SkippedKey
  BY <1>1, LenProperties DEF Entries
<1> QED
  BY <1>2 DEF V2!SkippedKey, V2!SealingKey

\* A root the step turns through is longer than what the state knows.
LEMMA Turned ==
  ASSUME NEW st \in V2!State, NEW m \in V2!Message, NEW mine \in V2!KeyPair, NEW next,
         FromTurn(st, m, mine, next)
  PROVE  /\ m.key.chain \in V2!KeyRoot /\ m.key.chain.sid = st.rk.sid
         /\ Len(st.rk.path) \in Nat
         /\ Len(m.key.chain.path) = Len(st.rk.path) + 1
         /\ \A x : Agreed(m.key.chain, x) <=> (x = st.dhs \/ x = m.dh)
         /\ next.rk \in V2!KeyRoot /\ next.rk.sid = st.rk.sid
         /\ Len(next.rk.path) = Len(st.rk.path) + 2
         /\ \A x : Agreed(next.rk, x) <=> (x = mine \/ x = m.dh)
<1>1. st.rk \in V2!KeyRoot /\ st.dhs \in V2!KeyPair /\ m.dh \in V2!KeyPair
  BY DEF V2!State, V2!Message
<1> DEFINE recv == V2!Derive(st.rk, st.dhs, m.dh)
           send == V2!Derive(recv, mine, m.dh)
<1>2. m.key.chain = recv /\ next.rk = send
  BY DEF FromTurn
<1>3. /\ recv \in V2!KeyRoot /\ recv.sid = st.rk.sid /\ Len(st.rk.path) \in Nat
      /\ Len(recv.path) = Len(st.rk.path) + 1 
  BY <1>1, Derived
<1>4. \A x : Agreed(recv, x) <=> (x = st.dhs \/ x = m.dh)
  BY <1>1, AgreedLast
<1> HIDE DEF recv
<1>5. /\ send \in V2!KeyRoot /\ send.sid = recv.sid
      /\ Len(send.path) = Len(recv.path) + 1 
  BY <1>1, <1>3, Derived
<1>6. \A x : Agreed(send, x) <=> (x = mine \/ x = m.dh)
  BY <1>1, <1>3, AgreedLast
<1> HIDE DEF send
<1> QED
  BY <1>2, <1>3, <1>4, <1>5, <1>6

LEMMA NextShape ==
  ASSUME NEW s, NEW st \in V2!State, NEW m \in V2!Message, NEW mine \in V2!KeyPair, NEW next \in V2!State,
         Shape(s, st), Apart(next.skipped),
         FromSkipped(st, m, next) \/ FromChain(st, m, next) \/ FromTurn(st, m, mine, next)
  PROVE  Shape(s, next)
<1>1. m.n \in Nat /\ m.key \in V2!SealingKey /\ st.nr \in Nat /\ st.rk \in V2!KeyRoot
      /\ Len(st.rk.path) \in Nat
  BY Lengths DEF V2!Message, V2!State
<1>2. \A e \in Entries(st.skipped) : e.n \in Nat /\ Len(e.mk.chain.path) \in Nat
  BY EntryTyped, Lengths
<1>3. ASSUME NEW e, NEW until, Passing(st, until, e)
      PROVE  /\ e.mk.chain = st.ckr /\ e.mk.n = e.n /\ e.n \in Nat /\ e.n < until
             /\ e.mk.chain.sid = s /\ Len(st.ckr.path) \in Nat /\ Len(st.ckr.path) < Len(st.rk.path)
  <2>1. st.ckr # None /\ e.mk = V2!MessageKey(st.ckr, e.n) /\ e.n \in Nat /\ e.n < until
    BY <1>3 DEF Passing
  <2>2. e.mk.chain = st.ckr /\ e.mk.n = e.n
    BY <2>1 DEF V2!MessageKey
  <2>3. st.ckr \in V2!KeyRoot
    BY <2>1 DEF V2!State
  <2> QED
    BY <2>1, <2>2, <2>3, Lengths DEF Shape
<1>4. CASE FromSkipped(st, m, next)
  BY <1>4 DEF FromSkipped, SameKeys, Shape, Listed
<1>5. CASE FromChain(st, m, next)
  <2>1. /\ next.ckr = st.ckr /\ next.dhr = st.dhr /\ next.rk = st.rk /\ next.nr = m.n + 1
        /\ st.nr <= m.n
        /\ \A e \in Entries(next.skipped) : e \in Entries(st.skipped) \/ Passing(st, m.n, e)
    BY <1>5 DEF FromChain, SameKeys
  <2>2. \A e \in Entries(next.skipped) :
          /\ e.mk.n = e.n /\ (e.mk.chain = next.ckr => e.n < next.nr)
          /\ e.mk.chain.sid = s /\ Len(e.mk.chain.path) < Len(st.rk.path)
    <3> SUFFICES ASSUME NEW e \in Entries(next.skipped)
                 PROVE  /\ e.mk.n = e.n /\ (e.mk.chain = next.ckr => e.n < next.nr)
                        /\ e.mk.chain.sid = s /\ Len(e.mk.chain.path) < Len(st.rk.path)
      OBVIOUS
    <3>1. CASE e \in Entries(st.skipped)
      BY <1>1, <1>2, <2>1, <3>1 DEF Shape, Listed
    <3>2. CASE Passing(st, m.n, e)
      BY <1>1, <1>3, <2>1, <3>2
    <3> QED
      BY <2>1, <3>1, <3>2
  <2> QED
    BY <2>1, <2>2 DEF Shape, Listed
<1>6. CASE FromTurn(st, m, mine, next)
  <2>1. /\ next.ckr = m.key.chain /\ next.dhr = m.dh /\ next.nr = m.n + 1 /\ m.dh \in V2!KeyPair
        /\ \A e \in Entries(next.skipped) :
             e \in Entries(st.skipped) \/ Passing(st, m.pn, e) \/ Leading(m, e)
    BY <1>6 DEF FromTurn, V2!Message
  <2>2. /\ m.key.chain.sid = s /\ Len(m.key.chain.path) = Len(st.rk.path) + 1
        /\ next.rk.sid = s /\ Len(next.rk.path) = Len(st.rk.path) + 2
    BY <1>6, Turned DEF Shape
  <2>3. \A e \in Entries(next.skipped) :
          /\ e.mk.n = e.n /\ (e.mk.chain = next.ckr => e.n < next.nr)
          /\ e.mk.chain.sid = s /\ Len(e.mk.chain.path) < Len(next.rk.path)
    <3> SUFFICES ASSUME NEW e \in Entries(next.skipped)
                 PROVE  /\ e.mk.n = e.n /\ (e.mk.chain = next.ckr => e.n < next.nr)
                        /\ e.mk.chain.sid = s /\ Len(e.mk.chain.path) < Len(next.rk.path)
      OBVIOUS
    <3>1. CASE e \in Entries(st.skipped)
      <4>1. e.mk.n = e.n /\ e.mk.chain.sid = s /\ Len(e.mk.chain.path) < Len(st.rk.path)
        BY <3>1 DEF Shape, Listed
      <4> QED
        <5>1. Len(e.mk.chain.path) \in Nat
          BY <1>2, <3>1
        <5>2. e.mk.chain # next.ckr
          BY <1>1, <2>1, <2>2, <4>1, <5>1
        <5> QED
          BY <1>1, <2>2, <4>1, <5>1, <5>2
    <3>2. CASE Passing(st, m.pn, e)
      <4>1. /\ e.mk.chain = st.ckr /\ e.mk.n = e.n
            /\ e.mk.chain.sid = s /\ Len(st.ckr.path) \in Nat /\ Len(st.ckr.path) < Len(st.rk.path)
        BY <1>3, <3>2
      <4>2. e.mk.chain # next.ckr
        BY <1>1, <2>1, <2>2, <4>1
      <4> QED
        BY <1>1, <2>2, <4>1, <4>2
    <3>3. CASE Leading(m, e)
      <4>1. e.mk = V2!MessageKey(m.key.chain, e.n) /\ e.n \in Nat /\ e.n < m.n
        BY <3>3 DEF Leading
      <4>2. e.mk.chain = m.key.chain /\ e.mk.n = e.n
        BY <4>1 DEF V2!MessageKey
      <4> QED
        BY <1>1, <2>1, <2>2, <4>1, <4>2
    <3> QED
      BY <2>1, <3>1, <3>2, <3>3
  <2>4. Len(next.ckr.path) < Len(next.rk.path)
    BY <1>1, <2>1, <2>2
  <2> QED
    BY <2>1, <2>2, <2>3, <2>4 DEF Shape, Listed
<1> QED
  BY <1>4, <1>5, <1>6

-----------------------------------------------------------------------------
(* The invariant. *)

Filed == [slot : V2!Sid \X User \X Nat, text : Nat]

Kinds ==
  /\ ratchet \in [User -> [V2!Sid -> V2!Row \cup {None}]]
  /\ pairs \in [User -> Nat]
  /\ started \in Nat
  /\ frames \subseteq written
  /\ written \subseteq V2!Message
  /\ IsFiniteSet(written)
  /\ used \in [User -> SUBSET V2!SealingKey]
  /\ lost \in [User -> SUBSET V2!Sid]
  /\ evicted = [v \in User |-> evicted[v]]
  /\ vault \in [User -> SUBSET Filed]
  /\ shredded \in [User -> SUBSET Filed]

\* A message's text is its number, and what is filed was sealed before.
Numbered ==
  /\ \A m \in written : m.text <= Cardinality(written)
  /\ \A m, k \in written : m.text = k.text => m = k
  /\ \A u \in User : \A e \in vault[u] \cup shredded[u] : e.text <= Cardinality(written)

\* Generated already.
Known(p) == p.k <= pairs[p.of]

\* A message's key belongs to its session and number, its chain is agreed with pairs that
\* exist, and those of a session's first chain announce it.
Marked ==
  \A m \in written :
    /\ m.key.n = m.n /\ m.key.chain.sid = m.sid /\ m.sid <= started
    /\ Known(m.dh)
    /\ \A p \in V2!KeyPair : Agreed(m.key.chain, p) => Known(p)
    /\ Len(m.key.chain.path) > 0
    /\ Len(m.key.chain.path) = 1 => m.init

\* The pair a message carries stands for the chain it was sealed on.
OneChain == \A m, k \in written : m.dh = k.dh => m.key.chain = k.key.chain

\* A held state's own pair and root exist, and it sends on its root.
Own(u, st) ==
  /\ st.dhs.of = u /\ Known(st.dhs)
  /\ st.cks = st.rk /\ Len(st.rk.path) > 0
  /\ \A p \in V2!KeyPair : Agreed(st.rk, p) => Known(p)

\* What it receives on is what a message was sealed on.
Heard(st) ==
  /\ st.ckr # None => \E k \in written : k.dh = st.dhr /\ k.key.chain = st.ckr
  /\ \A e \in Entries(st.skipped) : \E k \in written : k.dh = e.dh /\ k.key.chain = e.mk.chain

\* Its sending chain is used up to ns, and its pair is not seen with another.
Sending(st) ==
  \A m \in written :
    /\ m.key.chain = st.rk => m.n < st.ns
    /\ m.dh = st.dhs => m.key.chain = st.rk

\* An initiator still on its first chain sends the init block.
Announces(row) == Len(row.state.rk.path) = 1 => V2!Rides(row)

Session(u, s, row) ==
  /\ s <= started
  /\ Shape(s, row.state) /\ Own(u, row.state) /\ Heard(row.state) /\ Sending(row.state)
  /\ Announces(row)

Sessions ==
  \A u \in User, s \in V2!Sid : ratchet[u][s] # None => Session(u, s, ratchet[u][s])

\* No two states send with one pair or on one chain.
Unlike(u, s, st) ==
  \A v \in User, r \in V2!Sid :
    ratchet[v][r] # None /\ (u # v \/ s # r) =>
      ratchet[v][r].state.dhs # st.dhs /\ ratchet[v][r].state.rk # st.rk

Separate ==
  \A u \in User, s \in V2!Sid : ratchet[u][s] # None => Unlike(u, s, ratchet[u][s].state)

\* No key the user has used on the session can be derived from its state.
Spent(u, s, st) ==
  \A key \in used[u] : key.chain.sid = s =>
    /\ Len(key.chain.path) <= Len(st.rk.path)
    /\ key.chain = st.rk => key.n < st.ns
    /\ key.chain = st.ckr => key.n < st.nr
    /\ \A e \in Entries(st.skipped) : e.mk # key

Secret ==
  \A u \in User, s \in V2!Sid : s \notin lost[u] =>
    IF ratchet[u][s] = None THEN \A key \in used[u] : key.chain.sid # s
    ELSE Spent(u, s, ratchet[u][s].state)

UsedStarted == \A u \in User : \A key \in used[u] : key.chain.sid <= started

\* Of what the user has shredded, a state opens the first flight at most.
Shut(u, st) ==
  \A m \in written : V2!Entry(m) \in shredded[u] =>
    /\ m.key.chain = st.ckr => m.init
    /\ \A e \in Entries(st.skipped) : e.mk = m.key => m.init
    /\ Agreed(m.key.chain, st.dhs) => Len(st.rk.path) = 0

Forgotten ==
  \A u \in User, s \in V2!Sid : ratchet[u][s] # None => Shut(u, ratchet[u][s].state)

RatchetInv ==
  /\ Kinds /\ Numbered /\ Marked /\ OneChain /\ V2!KeyOnce
  /\ Sessions /\ Separate /\ Secret /\ UsedStarted /\ Forgotten
  /\ V2!OnlyFirstFlightReopens

-----------------------------------------------------------------------------
(* Sealing. *)

\* The session row a message is sealed on, by what it will be once the step is over.
Ready(u, s, row) ==
  /\ s <= started' /\ Shape(s, row.state) /\ Own(u, row.state)'
  /\ Heard(row.state) /\ Sending(row.state) /\ Announces(row)
  /\ Unlike(u, s, row.state) /\ Shut(u, row.state)
  /\ s \notin lost[u] => Spent(u, s, row.state)

\* More sessions, pairs and messages.
Grown ==
  /\ started' \in Nat /\ started <= started'
  /\ pairs' \in [User -> Nat] /\ \A v \in User : pairs[v] <= pairs'[v]

\* What SealOn does: m is the message and new the row after it.
Seals(u, s, row, m, new) ==
  /\ m.sid = s /\ m.from = u /\ m.dh = row.state.dhs /\ m.n = row.state.ns
  /\ m.ctr = row.total /\ m.pn = row.state.pn
  /\ m.key = V2!MessageKey(row.state.rk, m.n) /\ m.key.chain = row.state.rk /\ m.key.n = m.n
  /\ m.text = Cardinality(written) + 1 /\ m.init = V2!Rides(row)
  /\ new.state.dhs = row.state.dhs /\ new.state.dhr = row.state.dhr
  /\ new.state.rk = row.state.rk /\ new.state.cks = row.state.rk
  /\ new.state.ckr = row.state.ckr /\ new.state.nr = row.state.nr /\ new.state.skipped = row.state.skipped
  /\ new.state.ns = row.state.ns + 1 /\ new.state.pn = row.state.pn
  /\ new.role = row.role /\ new.replied = row.replied /\ new.total = row.total + 1
  /\ ratchet' = [ratchet EXCEPT ![u][s] = new]
  /\ vault' = [vault EXCEPT ![u] = V2!Stored(u, m)]
  /\ written' = written \cup {m} /\ frames' = frames \cup {m}
  /\ used' = [used EXCEPT ![u] = @ \cup {m.key}]
  /\ UNCHANGED <<shredded, lost, evicted, shreds>> /\ Cardinality(written) < MaxRatcheted

LEMMA SealEffect ==
  ASSUME Kinds, NEW u \in User, NEW s \in V2!Sid, NEW row \in V2!Row, V2!SealOn(u, s, row),
         row.state.cks = row.state.rk
  PROVE  \E m \in V2!Message, new \in V2!Row : Seals(u, s, row, m, new)
<1> DEFINE st == row.state
           m == [sid |-> s, from |-> u, ctr |-> row.total, dh |-> st.dhs, pn |-> st.pn,
                 n |-> st.ns, key |-> V2!MessageKey(st.cks, st.ns),
                 text |-> Cardinality(written) + 1, init |-> V2!Rides(row)]
           new == [row EXCEPT !.total = V2!NextCtr(row), !.state.ns = @ + 1]
<1>1. /\ ratchet' = [ratchet EXCEPT ![u][s] = new]
      /\ vault' = [vault EXCEPT ![u] = V2!Stored(u, m)]
      /\ written' = written \cup {m} /\ frames' = frames \cup {m}
      /\ used' = [used EXCEPT ![u] = @ \cup {m.key}]
      /\ UNCHANGED <<shredded, lost, evicted, shreds>> /\ Cardinality(written) < MaxRatcheted
  BY SameCardinality DEF V2!SealOn
<1>2. /\ st \in V2!State /\ st.ns \in Nat /\ st.rk \in V2!KeyRoot /\ st.dhs \in V2!KeyPair
      /\ st.pn \in Nat /\ row.total \in Nat
  BY DEF V2!Row, V2!State
<1>3. Cardinality(written) \in Nat
  BY FS_CardinalityType DEF Kinds
<1>4. V2!Rides(row) \in BOOLEAN /\ V2!MessageKey(st.rk, st.ns) \in V2!SealingKey
  BY <1>2 DEF V2!Rides, V2!MessageKey, V2!SealingKey
<1>5. m \in V2!Message
  BY <1>2, <1>3, <1>4 DEF V2!Message
<1>6. /\ m.sid = s /\ m.from = u /\ m.dh = st.dhs /\ m.n = st.ns
      /\ m.key = V2!MessageKey(st.rk, m.n) /\ m.key.chain = st.rk /\ m.key.n = m.n
      /\ m.text = Cardinality(written) + 1 /\ m.init = V2!Rides(row)
      /\ m.ctr = row.total /\ m.pn = st.pn
  BY DEF V2!MessageKey
<1>7. [st EXCEPT !.ns = @ + 1] \in V2!State
  BY <1>2 DEF V2!State
<1>8. new = [row EXCEPT !.total = row.total + 1, !.state = [st EXCEPT !.ns = @ + 1]]
  BY DEF V2!NextCtr, V2!Row
<1>9. /\ new \in V2!Row /\ new.state = [st EXCEPT !.ns = @ + 1]
      /\ new.role = row.role /\ new.replied = row.replied /\ new.total = row.total + 1
  <2> DEFINE st2 == [st EXCEPT !.ns = @ + 1]
  <2>1. st2 \in V2!State /\ new = [row EXCEPT !.total = row.total + 1, !.state = st2]
    BY <1>7, <1>8
  <2> HIDE DEF st2, new
  <2>2. row.total + 1 \in Nat
    BY <1>2
  <2>3. /\ new \in V2!Row /\ new.state = st2 /\ new.role = row.role /\ new.replied = row.replied
        /\ new.total = row.total + 1
    BY <2>1, <2>2 DEF V2!Row
  <2> QED
    BY <2>3 DEF st2
<1>10. /\ new.state.dhs = st.dhs /\ new.state.dhr = st.dhr /\ new.state.rk = st.rk
       /\ new.state.cks = st.rk /\ new.state.ckr = st.ckr
       /\ new.state.nr = st.nr /\ new.state.skipped = st.skipped
       /\ new.state.ns = st.ns + 1 /\ new.state.pn = st.pn
  BY <1>2, <1>9 DEF V2!State
<1> HIDE DEF m, new
<1>11. Seals(u, s, row, m, new)
  BY <1>1, <1>6, <1>9, <1>10 DEF Seals
<1> QED
  BY <1>5, <1>9, <1>11

LEMMA EntryFiled ==
  ASSUME NEW m \in V2!Message
  PROVE  V2!Entry(m) \in Filed /\ V2!Entry(m).text = m.text /\ V2!Entry(m).slot = <<m.sid, m.from, m.ctr>>
<1>1. m.sid \in V2!Sid /\ m.from \in User /\ m.ctr \in Nat /\ m.text \in Nat
  BY DEF V2!Message
<1>2. V2!Entry(m) = [slot |-> <<m.sid, m.from, m.ctr>>, text |-> m.text]
  BY DEF V2!Entry, V2!SlotOf
<1>3. <<m.sid, m.from, m.ctr>> \in V2!Sid \X User \X Nat
  BY <1>1
<1> QED
  BY <1>1, <1>2, <1>3 DEF Filed

LEMMA StoredFiled ==
  ASSUME Kinds, NEW u \in User, NEW m \in V2!Message
  PROVE  /\ V2!Stored(u, m) \in SUBSET Filed
         /\ \A e \in V2!Stored(u, m) : e \in vault[u] \/ e = V2!Entry(m)
BY EntryFiled DEF V2!Stored, Kinds

LEMMA SealKinds ==
  ASSUME Kinds, Grown, NEW u \in User, NEW s \in V2!Sid, NEW row \in V2!Row, NEW m \in V2!Message,
         NEW new \in V2!Row, Seals(u, s, row, m, new)
  PROVE  Kinds'
<1> USE DEF Seals
<1>1. IsFiniteSet(written')
  BY FS_AddElement DEF Kinds
<1>2. ratchet' \in [User -> [V2!Sid -> V2!Row \cup {None}]]
  BY DEF Kinds
<1>3. used' \in [User -> SUBSET V2!SealingKey]
  <2>1. m.key \in V2!SealingKey
    BY DEF V2!Message
  <2> QED
    BY <2>1 DEF Kinds
<1>4. vault' \in [User -> SUBSET Filed]
  BY StoredFiled DEF Kinds
<1>5. frames' \subseteq written' /\ written' \subseteq V2!Message
  BY DEF Kinds
<1> QED
  BY <1>1, <1>2, <1>3, <1>4, <1>5 DEF Kinds, Grown

\* Pairs and sessions that exist go on existing.
LEMMA KnownKept ==
  ASSUME Kinds, Grown, NEW p \in V2!KeyPair, Known(p)
  PROVE  Known(p)'
<1>1. p.k \in Nat /\ p.of \in User
  BY DEF V2!KeyPair
<1>2. pairs[p.of] \in Nat /\ pairs'[p.of] \in Nat /\ pairs[p.of] <= pairs'[p.of]
  BY <1>1 DEF Kinds, Grown
<1> QED
  BY <1>1, <1>2 DEF Known

LEMMA StartedKept ==
  ASSUME Kinds, Grown, NEW s \in V2!Sid, s <= started
  PROVE  s <= started'
<1>1. s \in Nat
  BY Bounds DEF V2!Sid
<1> QED
  BY <1>1 DEF Kinds, Grown

LEMMA SealNumbered ==
  ASSUME RatchetInv, NEW u \in User, NEW s \in V2!Sid, NEW row \in V2!Row, NEW m \in V2!Message,
         NEW new \in V2!Row, Seals(u, s, row, m, new)
  PROVE  /\ Cardinality(written) \in Nat /\ Cardinality(written)' = Cardinality(written) + 1
         /\ m \notin written
         /\ Numbered'
<1> USE DEF RatchetInv
<1>1. IsFiniteSet(written) /\ Cardinality(written) \in Nat
  BY FS_CardinalityType DEF Kinds
<1>2. written' = written \cup {m} /\ m.text = Cardinality(written) + 1
      /\ vault' = [vault EXCEPT ![u] = V2!Stored(u, m)] /\ shredded' = shredded
  BY DEF Seals
<1>3. \A k \in written : k.text <= Cardinality(written) /\ k.text \in Nat
  BY DEF Numbered, Kinds, V2!Message
<1>4. m \notin written
  BY <1>1, <1>2, <1>3
<1>5. Cardinality(written)' = Cardinality(written) + 1
  BY <1>1, <1>2, <1>4, FS_AddElement
<1>6. \A k \in written' : k.text <= Cardinality(written)'
  BY <1>1, <1>2, <1>3, <1>5
<1>7. \A k, l \in written' : k.text = l.text => k = l
  <2>1. \A k \in written : k.text # m.text
    BY <1>1, <1>2, <1>3
  <2> QED
    BY <1>2, <2>1 DEF Numbered
<1>8. \A v \in User : \A e \in vault'[v] \cup shredded'[v] : e.text <= Cardinality(written)'
  <2> SUFFICES ASSUME NEW v \in User, NEW e \in vault'[v] \cup shredded'[v]
               PROVE  e.text <= Cardinality(written)'
    OBVIOUS
  <2>1. CASE e \in vault[v] \cup shredded[v]
    <3>1. e.text <= Cardinality(written) /\ e.text \in Nat
      BY <2>1 DEF Numbered, Kinds, Filed
    <3> QED
      BY <1>1, <1>5, <3>1
  <2>2. CASE e = V2!Entry(m)
    BY <1>1, <1>2, <1>5, <2>2, EntryFiled
  <2>3. e \in vault[v] \cup shredded[v] \/ e = V2!Entry(m)
    BY <1>2, StoredFiled DEF Kinds
  <2> QED
    BY <2>1, <2>2, <2>3
<1>9. Numbered'
  BY <1>6, <1>7, <1>8 DEF Numbered
<1> QED
  BY <1>1, <1>4, <1>5, <1>9

LEMMA SealMessages ==
  ASSUME RatchetInv, Grown, NEW u \in User, NEW s \in V2!Sid, NEW row \in V2!Row, NEW m \in V2!Message,
         NEW new \in V2!Row, Ready(u, s, row), Seals(u, s, row, m, new)
  PROVE  Marked' /\ OneChain' /\ V2!KeyOnce'
<1> USE DEF RatchetInv
<1> DEFINE st == row.state
<1>1. written' = written \cup {m} /\ m.sid = s /\ m.dh = st.dhs /\ m.n = st.ns
      /\ m.key.chain = st.rk /\ m.key.n = m.n /\ m.init = V2!Rides(row)
  BY DEF Seals
<1>2. /\ s <= started' /\ st.rk.sid = s /\ Known(st.dhs)' /\ Len(st.rk.path) > 0
      /\ \A p \in V2!KeyPair : Agreed(st.rk, p) => Known(p)'
      /\ Len(st.rk.path) = 1 => V2!Rides(row)
  BY DEF Ready, Shape, Own, Announces
<1>3. \A k \in written : /\ k.key.chain = st.rk => k.n < st.ns
                         /\ k.dh = st.dhs => k.key.chain = st.rk
  BY DEF Ready, Sending
<1> HIDE DEF st
<1>4. Marked'
  <2> SUFFICES ASSUME NEW k \in written'
               PROVE  /\ k.key.n = k.n /\ k.key.chain.sid = k.sid /\ k.sid <= started'
                      /\ Known(k.dh)'
                      /\ \A p \in V2!KeyPair : Agreed(k.key.chain, p) => Known(p)'
                      /\ Len(k.key.chain.path) > 0
                      /\ Len(k.key.chain.path) = 1 => k.init
    BY DEF Marked
  <2>1. CASE k = m
    BY <1>1, <1>2, <2>1
  <2>2. CASE k \in written
    <3>1. k.sid \in V2!Sid /\ k.dh \in V2!KeyPair
      BY <2>2 DEF Kinds, V2!Message
    <3>2. k.key.n = k.n /\ k.key.chain.sid = k.sid /\ k.sid <= started /\ Known(k.dh)
          /\ (\A p \in V2!KeyPair : Agreed(k.key.chain, p) => Known(p))
          /\ Len(k.key.chain.path) > 0 /\ (Len(k.key.chain.path) = 1 => k.init)
      BY <2>2 DEF Marked
    <3>3. k.sid <= started' /\ Known(k.dh)'
      BY <3>1, <3>2, StartedKept, KnownKept
    <3>4. \A p \in V2!KeyPair : Agreed(k.key.chain, p) => Known(p)'
      BY <3>2, KnownKept
    <3> QED
      BY <3>2, <3>3, <3>4
  <2> QED
    BY <1>1, <2>1, <2>2
<1>5. OneChain'
  BY <1>1, <1>3 DEF OneChain
<1>6. \A k \in written : k.key # m.key
  <2> SUFFICES ASSUME NEW k \in written, k.key = m.key PROVE FALSE
    OBVIOUS
  <2>1. k.key.n = k.n
    BY DEF Marked
  <2>2. k.n < st.ns /\ k.n = st.ns /\ k.n \in Nat
    BY <1>1, <1>3, <2>1 DEF Kinds, V2!Message
  <2> QED
    BY <2>2
<1>7. V2!KeyOnce'
  BY <1>1, <1>6 DEF V2!KeyOnce
<1> QED
  BY <1>4, <1>5, <1>7

\* A session no step touches stays as it was, when what else is sealed is on another chain.
LEMMA SessionKept ==
  ASSUME Kinds, Grown, NEW u \in User, NEW s \in V2!Sid, NEW row \in V2!Row, Session(u, s, row),
         written \subseteq written',
         \A m \in written' : m \in written \/ (m.key.chain # row.state.rk /\ m.dh # row.state.dhs)
  PROVE  Session(u, s, row)'
<1>1. row.state \in V2!State /\ row.state.dhs \in V2!KeyPair
  BY DEF V2!Row, V2!State
<1>2. s <= started'
  BY StartedKept DEF Session
<1>3. Known(row.state.dhs)'
  BY <1>1, KnownKept DEF Session, Own
<1>4. \A p \in V2!KeyPair : Agreed(row.state.rk, p) => Known(p)'
  BY KnownKept DEF Session, Own
<1>5. Own(u, row.state)'
  BY <1>3, <1>4 DEF Session, Own
<1>6. Heard(row.state)'
  BY DEF Session, Heard
<1>7. Sending(row.state)'
  BY DEF Session, Sending
<1>8. Shape(s, row.state) /\ Announces(row)
  BY DEF Session
<1> QED
  BY <1>2, <1>5, <1>6, <1>7, <1>8 DEF Session

LEMMA SealSessions ==
  ASSUME RatchetInv, Grown, NEW u \in User, NEW s \in V2!Sid, NEW row \in V2!Row, NEW m \in V2!Message,
         NEW new \in V2!Row, Ready(u, s, row), Seals(u, s, row, m, new)
  PROVE  Sessions' /\ Separate'
<1> USE DEF RatchetInv
<1> DEFINE st == row.state
<1>1. /\ written' = written \cup {m} /\ m.key.chain = st.rk /\ m.dh = st.dhs /\ m.n = st.ns
      /\ ratchet' = [ratchet EXCEPT ![u][s] = new]
      /\ new.state.dhs = st.dhs /\ new.state.dhr = st.dhr /\ new.state.rk = st.rk
      /\ new.state.cks = st.rk /\ new.state.ckr = st.ckr /\ new.state.nr = st.nr
      /\ new.state.skipped = st.skipped /\ new.state.ns = st.ns + 1
      /\ new.role = row.role /\ new.replied = row.replied
  BY DEF Seals
<1>2. st.ns \in Nat /\ \A k \in written : k.n \in Nat
  BY DEF V2!Row, V2!State, Kinds, V2!Message
<1>3. s <= started' /\ Shape(s, st) /\ Own(u, st)' /\ Heard(st) /\ Sending(st) /\ Announces(row)
      /\ Unlike(u, s, st)
  BY DEF Ready
<1> HIDE DEF st
<1>4. Session(u, s, new)'
  <2>1. Shape(s, new.state)
    BY <1>1, <1>3 DEF Shape, Listed
  <2>2. Own(u, new.state)'
    BY <1>1, <1>3 DEF Own
  <2>3. Heard(new.state)'
    BY <1>1, <1>3 DEF Heard
  <2>4. Sending(new.state)'
    BY <1>1, <1>2, <1>3 DEF Sending
  <2>5. Announces(new)
    BY <1>1, <1>3 DEF Announces, V2!Rides, st
  <2> QED
    BY <1>3, <2>1, <2>2, <2>3, <2>4, <2>5 DEF Session
<1>5. ratchet'[u][s] = new
  BY <1>1 DEF Kinds
<1>6. \A v \in User, r \in V2!Sid : v # u \/ r # s => ratchet'[v][r] = ratchet[v][r]
  BY <1>1 DEF Kinds
<1>7. \A v \in User, r \in V2!Sid : v # u \/ r # s =>
        \/ ratchet[v][r] = None
        \/ ratchet[v][r].state.dhs # st.dhs /\ ratchet[v][r].state.rk # st.rk
  BY <1>3 DEF Unlike
<1>8. Sessions'
  <2> SUFFICES ASSUME NEW v \in User, NEW r \in V2!Sid, ratchet'[v][r] # None
               PROVE  Session(v, r, ratchet[v][r])'
    BY DEF Sessions
  <2>1. CASE v = u /\ r = s
    BY <1>4, <1>5, <2>1
  <2>2. CASE v # u \/ r # s
    <3>1. ratchet[v][r] # None /\ ratchet[v][r] \in V2!Row
      BY <1>6, <2>2 DEF Kinds
    <3>2. PICK old \in V2!Row : old = ratchet[v][r]
      BY <3>1
    <3>3. Session(v, r, old)
      BY <3>1, <3>2 DEF Sessions
    <3>4. old.state.rk # st.rk /\ old.state.dhs # st.dhs
      BY <1>7, <2>2, <3>1, <3>2
    <3>5. Session(v, r, old)'
      BY <1>1, <3>3, <3>4, SessionKept
    <3>6. ratchet'[v][r] = old
      BY <1>6, <2>2, <3>2
    <3> QED
      BY <3>5, <3>6
  <2> QED
    BY <2>1, <2>2
<1>9. Separate'
  <2> SUFFICES ASSUME NEW v \in User, NEW r \in V2!Sid, NEW w \in User, NEW q \in V2!Sid,
                      ratchet'[v][r] # None, ratchet'[w][q] # None, v # w \/ r # q
               PROVE  ratchet'[w][q].state.dhs # ratchet'[v][r].state.dhs
                      /\ ratchet'[w][q].state.rk # ratchet'[v][r].state.rk
    BY DEF Separate, Unlike
  <2>1. CASE v = u /\ r = s
    BY <1>1, <1>5, <1>6, <1>7, <2>1
  <2>2. CASE w = u /\ q = s
    BY <1>1, <1>5, <1>6, <1>7, <2>2
  <2>3. CASE (v # u \/ r # s) /\ (w # u \/ q # s)
    BY <1>6, <2>3 DEF Separate, Unlike
  <2> QED
    BY <2>1, <2>2, <2>3
<1> QED
  BY <1>8, <1>9

LEMMA SealSecret ==
  ASSUME RatchetInv, Grown, NEW u \in User, NEW s \in V2!Sid, NEW row \in V2!Row, NEW m \in V2!Message,
         NEW new \in V2!Row, Ready(u, s, row), Seals(u, s, row, m, new)
  PROVE  Secret' /\ UsedStarted'
<1> USE DEF RatchetInv
<1> DEFINE st == row.state
<1>1. /\ m.key.chain = st.rk /\ m.key.n = m.n /\ m.n = st.ns
      /\ ratchet' = [ratchet EXCEPT ![u][s] = new]
      /\ new.state.dhs = st.dhs /\ new.state.dhr = st.dhr /\ new.state.rk = st.rk
      /\ new.state.cks = st.rk /\ new.state.ckr = st.ckr /\ new.state.nr = st.nr
      /\ new.state.skipped = st.skipped /\ new.state.ns = st.ns + 1
      /\ used' = [used EXCEPT ![u] = @ \cup {m.key}] /\ lost' = lost
  BY DEF Seals
<1>2. s <= started' /\ Shape(s, st) /\ (s \notin lost[u] => Spent(u, s, st))
  BY DEF Ready
<1>3. st \in V2!State /\ st.ns \in Nat /\ st.rk \in V2!KeyRoot /\ Len(st.rk.path) \in Nat
  BY Lengths DEF V2!Row, V2!State
<1> HIDE DEF st
<1>4. st.rk.sid = s
  BY <1>2 DEF Shape
<1>5. \A v \in User : \A key \in used'[v] : key \in used[v] \/ (v = u /\ key = m.key)
  BY <1>1 DEF Kinds
<1>6. \A v \in User : \A key \in used[v] : key \in V2!SealingKey /\ key.chain.sid \in V2!Sid /\ key.n \in Nat
  BY DEF Kinds, V2!SealingKey, V2!KeyRoot
<1>7. UsedStarted'
  <2> SUFFICES ASSUME NEW v \in User, NEW key \in used'[v] PROVE key.chain.sid <= started'
    BY DEF UsedStarted
  <2>1. CASE key \in used[v]
    BY <1>6, <2>1, StartedKept DEF UsedStarted
  <2>2. CASE key = m.key
    BY <1>1, <1>2, <1>4, <2>2
  <2> QED
    BY <1>5, <2>1, <2>2
<1>8. Secret'
  <2> SUFFICES ASSUME NEW v \in User, NEW r \in V2!Sid, r \notin lost[v]
               PROVE  IF ratchet'[v][r] = None THEN \A key \in used'[v] : key.chain.sid # r
                      ELSE Spent(v, r, ratchet[v][r].state)'
    BY <1>1 DEF Secret
  <2>1. CASE v = u /\ r = s
    <3>1. ratchet'[v][r] = new /\ new # None
      BY <1>1, <2>1, NoneAssumption DEF Kinds
    <3>2. m.key.chain # st.ckr
      <4>1. CASE st.ckr = None
        BY <1>1, <1>3, <4>1, NoneAssumption
      <4>2. CASE st.ckr # None
        <5>1. Len(st.ckr.path) < Len(st.rk.path) /\ Len(st.ckr.path) \in Nat
          BY <1>2, <1>3, <4>2, Lengths DEF Shape, V2!State
        <5> QED
          BY <1>1, <1>3, <5>1
      <4> QED
        BY <4>1, <4>2
    <3>3. \A e \in Entries(st.skipped) : e.mk # m.key
      <4> SUFFICES ASSUME NEW e \in Entries(st.skipped) PROVE e.mk.chain # st.rk
        BY <1>1
      <4>1. Len(e.mk.chain.path) < Len(st.rk.path) /\ Len(e.mk.chain.path) \in Nat
        BY <1>2, <1>3, EntryTyped, Lengths DEF Shape
      <4> QED
        BY <1>3, <4>1
    <3>4. Spent(u, s, new.state)'
      <4> SUFFICES ASSUME NEW key \in used'[u], key.chain.sid = s
                   PROVE  /\ Len(key.chain.path) <= Len(st.rk.path)
                          /\ key.chain = st.rk => key.n < st.ns + 1
                          /\ key.chain = st.ckr => key.n < st.nr
                          /\ \A e \in Entries(st.skipped) : e.mk # key
        BY <1>1 DEF Spent
      <4>1. CASE key \in used[u]
        <5>1. /\ Len(key.chain.path) <= Len(st.rk.path)
              /\ key.chain = st.rk => key.n < st.ns
              /\ key.chain = st.ckr => key.n < st.nr
              /\ \A e \in Entries(st.skipped) : e.mk # key
          BY <1>2, <2>1, <4>1 DEF Spent
        <5>2. key.n \in Nat
          BY <1>6, <4>1
        <5> QED
          BY <1>3, <5>1, <5>2
      <4>2. CASE key = m.key
        BY <1>1, <1>3, <3>2, <3>3, <4>2
      <4> QED
        BY <1>5, <4>1, <4>2
    <3> QED
      BY <2>1, <3>1, <3>4
  <2>2. CASE v # u \/ r # s
    <3>1. ratchet'[v][r] = ratchet[v][r]
      BY <1>1, <2>2 DEF Kinds
    <3>2. \A key \in used'[v] : key.chain.sid = r => key \in used[v]
      BY <1>1, <1>4, <1>5, <2>2
    <3>3. CASE ratchet[v][r] = None
      BY <3>1, <3>2, <3>3 DEF Secret
    <3>4. CASE ratchet[v][r] # None
      <4>1. PICK old : old = ratchet[v][r]
        OBVIOUS
      <4>2. Spent(v, r, old.state)
        BY <3>4, <4>1 DEF Secret
      <4>3. Spent(v, r, old.state)'
        BY <3>2, <4>2 DEF Spent
      <4> QED
        BY <3>1, <3>4, <4>1, <4>3
    <3> QED
      BY <3>3, <3>4
  <2> QED
    BY <2>1, <2>2
<1> QED
  BY <1>7, <1>8

LEMMA SealForgotten ==
  ASSUME RatchetInv, NEW u \in User, NEW s \in V2!Sid, NEW row \in V2!Row, NEW m \in V2!Message,
         NEW new \in V2!Row, Ready(u, s, row), Seals(u, s, row, m, new)
  PROVE  Forgotten' /\ V2!OnlyFirstFlightReopens'
<1> USE DEF RatchetInv
<1> DEFINE st == row.state
<1>1. /\ written' = written \cup {m} /\ m.text = Cardinality(written) + 1
      /\ vault' = [vault EXCEPT ![u] = V2!Stored(u, m)] /\ shredded' = shredded
      /\ ratchet' = [ratchet EXCEPT ![u][s] = new]
      /\ new.state.dhs = st.dhs /\ new.state.rk = st.rk /\ new.state.ckr = st.ckr
      /\ new.state.skipped = st.skipped
  BY DEF Seals
<1>2. Shut(u, st)
  BY DEF Ready
<1> HIDE DEF st
<1>3. Cardinality(written) \in Nat
  BY SealNumbered
<1>4. \A v \in User : V2!Entry(m) \notin shredded[v]
  <2> SUFFICES ASSUME NEW v \in User, V2!Entry(m) \in shredded[v] PROVE FALSE
    OBVIOUS
  <2>1. V2!Entry(m).text <= Cardinality(written)
    BY DEF Numbered
  <2> QED
    BY <1>1, <1>3, <2>1, EntryFiled
<1>5. Forgotten'
  <2> SUFFICES ASSUME NEW v \in User, NEW r \in V2!Sid, ratchet'[v][r] # None
               PROVE  Shut(v, ratchet[v][r].state)'
    BY DEF Forgotten
  <2>1. CASE v = u /\ r = s
    <3>1. ratchet'[v][r] = new
      BY <1>1, <2>1 DEF Kinds
    <3>2. Shut(u, new.state)'
      BY <1>1, <1>2, <1>4 DEF Shut
    <3> QED
      BY <2>1, <3>1, <3>2
  <2>2. CASE v # u \/ r # s
    <3>1. ratchet'[v][r] = ratchet[v][r]
      BY <1>1, <2>2 DEF Kinds
    <3>2. PICK old : old = ratchet[v][r]
      OBVIOUS
    <3>3. Shut(v, old.state)
      BY <3>1, <3>2 DEF Forgotten
    <3>4. Shut(v, old.state)'
      BY <1>1, <1>4, <3>3 DEF Shut
    <3> QED
      BY <3>1, <3>2, <3>4
  <2> QED
    BY <2>1, <2>2
<1>6. V2!OnlyFirstFlightReopens'
  <2> SUFFICES ASSUME NEW k \in written', NEW v \in User, V2!Entry(k) \in vault'[v] \cap shredded[v]
               PROVE  k.init /\ k.from # v
    BY <1>1 DEF V2!OnlyFirstFlightReopens
  <2>1. k # m
    BY <1>4
  <2>2. k \in written
    BY <1>1, <2>1
  <2>3. V2!Entry(k) # V2!Entry(m)
    BY <1>4
  <2>4. V2!Entry(k) \in vault[v]
    BY <1>1, <2>3, StoredFiled DEF Kinds
  <2> QED
    BY <2>2, <2>4 DEF V2!OnlyFirstFlightReopens
<1> QED
  BY <1>5, <1>6

-----------------------------------------------------------------------------
(* Send and SendFirst. *)

LEMMA PeerIsOther ==
  ASSUME NEW u \in User
  PROVE  V2!Peer(u) \in User /\ V2!Peer(u) # u
<1>1. \E v \in User : v # u
  <2> SUFFICES ASSUME \A v \in User : v = u PROVE FALSE
    OBVIOUS
  <2>1. User = {u}
    OBVIOUS
  <2>2. Cardinality(User) = 1
    BY <2>1, FS_Singleton
  <2> QED
    BY <2>2, Bounds
<1> QED
  BY <1>1 DEF V2!Peer

LEMMA TwoUsers ==
  ASSUME NEW a \in User, NEW b \in User, NEW c \in User, a # b
  PROVE  c = a \/ c = b
<1>1. IsFiniteSet({a}) /\ Cardinality({a}) = 1
  BY FS_Singleton
<1>2. IsFiniteSet({a} \cup {b}) /\ Cardinality({a} \cup {b}) = 2
  BY <1>1, FS_AddElement
<1>3. {a} \cup {b} \in SUBSET User
  OBVIOUS
<1>4. {a} \cup {b} = User
  BY <1>2, <1>3, Bounds, FS_Subset
<1> QED
  BY <1>4

LEMMA RatchetClockTyped ==
  ASSUME NEW u \in User
  PROVE  V2!Clock(u) \in 1..(MaxInits + 1)
<1>1. IsFiniteSet(V2!Sid) /\ Cardinality(V2!Sid) = MaxInits
  <2>1. 1 \in Int /\ MaxInits \in Int /\ MaxInits \in Nat
    BY Bounds
  <2>2. /\ IsFiniteSet(1..MaxInits)
        /\ Cardinality(1..MaxInits) = IF 1 > MaxInits THEN 0 ELSE MaxInits - 1 + 1
    BY <2>1, FS_Interval
  <2> QED
    BY <2>1, <2>2 DEF V2!Sid
<1>2. V2!Held(u) \in SUBSET V2!Sid
  BY DEF V2!Held
<1>3. /\ IsFiniteSet(V2!Held(u)) /\ Cardinality(V2!Held(u)) <= MaxInits
  BY <1>1, <1>2, FS_Subset
<1>4. Cardinality(V2!Held(u)) \in Nat
  BY <1>3, FS_CardinalityType
<1>5. V2!Clock(u) = 1 + Cardinality(V2!Held(u))
  BY SameCardinality DEF V2!Clock
<1>6. MaxInits \in Nat
  BY Bounds
<1> QED
  BY <1>3, <1>4, <1>5, <1>6

LEMMA LatestIsHeld ==
  ASSUME Kinds, NEW u \in User, V2!Held(u) # {}
  PROVE  V2!Latest(u) \in V2!Held(u)
<1> DEFINE Age(s) == (MaxInits + 1) - ratchet[u][s].born
           Ages == {Age(s) : s \in V2!Held(u)}
<1>1. \A s \in V2!Held(u) : ratchet[u][s].born \in 1..(MaxInits + 1)
  BY DEF Kinds, V2!Held, V2!Row
<1>2. \A s \in V2!Held(u) : Age(s) \in Nat
  BY <1>1, Bounds
<1>3. PICK x \in Ages : \A y \in Ages : x <= y
  <2>1. Ages \in SUBSET Nat /\ Ages # {}
    BY <1>2
  <2> HIDE DEF Ages
  <2> QED
    BY <2>1, Least
<1>4. PICK s \in V2!Held(u) : x = Age(s)
  BY <1>3
<1>5. \A r \in V2!Held(u) : Age(s) <= Age(r)
  BY <1>3, <1>4
<1>6. \A r \in V2!Held(u) : ratchet[u][r].born <= ratchet[u][s].born
  BY <1>1, <1>5, Bounds
<1> QED
  BY <1>6 DEF V2!Latest

\* A step that seals m on the row, and the row it finds: the one held, or an initiator's.
Sealing(u, s, row, m, new) == Grown /\ Ready(u, s, row) /\ Seals(u, s, row, m, new)

Continuing(u, s, row) == ratchet[u][s] = row /\ pairs' = pairs /\ started' = started

Starting(u, s, row) ==
  /\ ratchet[u][s] = None /\ s = started + 1 /\ started' = s /\ row.total = 0
  /\ row.state.rk = V2!Derive(V2!Root(s, <<>>), row.state.dhs, V2!Pair(V2!Peer(u), 0))
  /\ row.state.dhr = V2!Pair(V2!Peer(u), 0)
  /\ row.state.ckr = None /\ row.state.skipped = <<>>
  /\ row.state.ns = 0 /\ row.state.nr = 0 /\ row.state.pn = 0

LEMMA SealInv ==
  ASSUME RatchetInv, NEW u \in User, NEW s \in V2!Sid, NEW row \in V2!Row, NEW m \in V2!Message,
         NEW new \in V2!Row, Sealing(u, s, row, m, new)
  PROVE  RatchetInv'
<1>1. Grown /\ Ready(u, s, row) /\ Seals(u, s, row, m, new)
  BY DEF Sealing
<1>2. Kinds'
  BY <1>1, SealKinds DEF RatchetInv
<1>3. Numbered'
  BY <1>1, SealNumbered
<1>4. Marked' /\ OneChain' /\ V2!KeyOnce'
  BY <1>1, SealMessages
<1>5. Sessions' /\ Separate'
  BY <1>1, SealSessions
<1>6. Secret' /\ UsedStarted'
  BY <1>1, SealSecret
<1>7. Forgotten' /\ V2!OnlyFirstFlightReopens'
  BY <1>1, SealForgotten
<1> QED
  BY <1>2, <1>3, <1>4, <1>5, <1>6, <1>7 DEF RatchetInv

LEMMA SendStep ==
  ASSUME RatchetInv, NEW u \in User, V2!Send(u)
  PROVE  \E s \in V2!Sid, row \in V2!Row, m \in V2!Message, new \in V2!Row :
           Sealing(u, s, row, m, new) /\ Continuing(u, s, row)
<1> USE DEF RatchetInv
<1>1. V2!Latest(u) \in V2!Sid /\ ratchet[u][V2!Latest(u)] # None
  BY LatestIsHeld DEF V2!Send, V2!Held
<1>2. PICK s \in V2!Sid : s = V2!Latest(u)
  BY <1>1
<1>3. ratchet[u][s] \in V2!Row
  BY <1>1, <1>2 DEF Kinds
<1>4. PICK row \in V2!Row : row = ratchet[u][s]
  BY <1>3
<1>5. V2!SealOn(u, s, row) /\ pairs' = pairs /\ started' = started
  BY <1>2, <1>4 DEF V2!Send
<1>6. Grown
  BY <1>5 DEF Kinds, Grown
<1>7. Session(u, s, row) /\ Unlike(u, s, row.state) /\ Shut(u, row.state)
      /\ (s \notin lost[u] => Spent(u, s, row.state))
  BY <1>1, <1>2, <1>4 DEF Sessions, Separate, Forgotten, Secret
<1>8. Own(u, row.state)' /\ s <= started'
  BY <1>5, <1>7 DEF Session, Own, Known
<1>9. Ready(u, s, row) /\ row.state.cks = row.state.rk
  BY <1>7, <1>8 DEF Session, Ready, Own
<1>10. PICK m \in V2!Message, new \in V2!Row : Seals(u, s, row, m, new)
  BY <1>5, <1>9, SealEffect
<1> QED
  BY <1>4, <1>5, <1>6, <1>9, <1>10 DEF Sealing, Continuing

LEMMA SendFirstStep ==
  ASSUME RatchetInv, NEW u \in User, V2!SendFirst(u)
  PROVE  \E s \in V2!Sid, row \in V2!Row, m \in V2!Message, new \in V2!Row :
           Sealing(u, s, row, m, new) /\ Starting(u, s, row)
<1> USE DEF RatchetInv
<1>0. /\ started < MaxInits /\ started \in Nat /\ started + 1 \in V2!Sid
      /\ pairs[u] \in Nat /\ pairs[u] + 1 \in Nat
  BY Bounds DEF V2!SendFirst, Kinds, V2!Sid
<1>1. PICK s \in V2!Sid, fresh \in Nat, b \in 1..(MaxInits + 1) :
        s = started + 1 /\ fresh = pairs[u] + 1 /\ b = V2!Clock(u)
  BY <1>0, RatchetClockTyped
<1> DEFINE mine == V2!Pair(u, fresh)
           theirs == V2!Pair(V2!Peer(u), 0)
           base == V2!Root(s, <<>>)
           rk == V2!Derive(base, mine, theirs)
           st == V2!InitInitiator(s, u, fresh)
           row == [state |-> st, role |-> "init", born |-> b, total |-> 0, replied |-> FALSE]
<1>2. V2!SealOn(u, s, row) /\ started' = s /\ pairs' = [pairs EXCEPT ![u] = fresh]
  BY <1>1 DEF V2!SendFirst
<1>3. mine \in V2!KeyPair /\ theirs \in V2!KeyPair /\ mine.of = u /\ mine.k = fresh /\ theirs.k = 0
      /\ theirs.of \in User
  BY <1>1, PeerIsOther DEF V2!Pair, V2!KeyPair
<1>4. base \in V2!KeyRoot /\ base.sid = s /\ Len(base.path) = 0
  BY EmptySeq DEF V2!Root, V2!KeyRoot
<1>5. st = [dhs |-> mine, dhr |-> theirs, rk |-> rk, cks |-> rk, ckr |-> None,
            ns |-> 0, nr |-> 0, pn |-> 0, skipped |-> <<>>]
  BY DEF V2!InitInitiator
<1> HIDE DEF mine, theirs, base
<1>6. rk \in V2!KeyRoot /\ rk.sid = s /\ Len(rk.path) = 1
      /\ \A p \in V2!KeyPair : Agreed(rk, p) => p = mine \/ p = theirs
  <2>0. rk \in V2!KeyRoot /\ rk.sid = base.sid /\ Len(rk.path) = Len(base.path) + 1
    BY <1>3, <1>4, Derived
  <2>1. rk \in V2!KeyRoot /\ rk.sid = s /\ Len(rk.path) = 1
    BY <1>4, <2>0
  <2>2. \A p \in V2!KeyPair : Agreed(rk, p) <=> (p = mine \/ p = theirs)
    BY <1>3, <1>4, AgreedLast
  <2> QED
    BY <2>1, <2>2
<1> HIDE DEF rk, st
<1>7. st \in V2!State
  <2>1. <<>> \in Seq(V2!SkippedKey)
    BY EmptySeq
  <2> QED
    BY <1>3, <1>5, <1>6, <2>1 DEF V2!State
<1>9. row \in V2!Row /\ row.state = st /\ row.role = "init" /\ ~row.replied /\ row.total = 0
  BY <1>7 DEF V2!Row
<1> HIDE DEF row
<1>10. /\ st.dhs = mine /\ st.dhr = theirs /\ st.rk = rk /\ st.cks = rk /\ st.ckr = None
       /\ st.ns = 0 /\ st.nr = 0 /\ st.pn = 0 /\ st.skipped = <<>>
  BY <1>5
<1>11. Grown
  BY <1>0, <1>1, <1>2 DEF Grown, Kinds
<1>12. Entries(st.skipped) = {}
  BY <1>10 DEF Entries
<1>13. Shape(s, st)
  BY <1>6, <1>10, <1>12 DEF Shape, Listed, Apart
<1>14. Own(u, st)'
  <2>1. pairs'[u] = fresh /\ \A v \in User : pairs'[v] \in Nat
    BY <1>2, <1>11 DEF Kinds, Grown
  <2>2. mine.k <= pairs'[mine.of] /\ theirs.k <= pairs'[theirs.of]
    BY <1>3, <2>1
  <2>3. \A p \in V2!KeyPair : Agreed(rk, p) => p.k <= pairs'[p.of]
    BY <1>6, <2>2
  <2>4. st.dhs.of = u /\ st.dhs.k <= pairs'[st.dhs.of]
    BY <1>3, <1>10, <2>2
  <2>5. st.cks = st.rk /\ Len(st.rk.path) > 0
    <3>1. st.cks = st.rk /\ st.rk = rk
      BY <1>10
    <3>2. Len(rk.path) = 1
      BY <1>6
    <3>3. Len(st.rk.path) = 1
      BY <3>1, <3>2
    <3> QED
      BY <3>1, <3>3
  <2>6. \A p \in V2!KeyPair : Agreed(st.rk, p) => p.k <= pairs'[p.of]
    BY <1>10, <2>3
  <2> QED
    BY <2>4, <2>5, <2>6 DEF Own, Known
<1>15. ~Known(mine)
  BY <1>0, <1>1, <1>3 DEF Known
<1>16. \A k \in written : /\ k.key.chain.sid # s /\ k.dh # mine
                          /\ ~Agreed(k.key.chain, mine) /\ k.key.chain # None
  <2> SUFFICES ASSUME NEW k \in written
               PROVE  k.key.chain.sid # s /\ k.dh # mine /\ ~Agreed(k.key.chain, mine)
                      /\ k.key.chain # None
    OBVIOUS
  <2>1. k.key.chain.sid = k.sid /\ k.sid <= started /\ Known(k.dh)
        /\ (Agreed(k.key.chain, mine) => Known(mine))
    BY <1>3 DEF Marked
  <2>2. k \in V2!Message
    BY DEF Kinds
  <2>3. k.sid \in V2!Sid /\ k.key \in V2!SealingKey
    BY <2>2 DEF V2!Message
  <2>4. k.sid \in Nat
    BY <2>3, Bounds DEF V2!Sid
  <2>5. k.key.chain \in V2!KeyRoot
    BY <2>3 DEF V2!SealingKey
  <2> QED
    BY <1>0, <1>1, <1>15, <2>1, <2>4, <2>5, NoneAssumption
<1>17. Heard(st) /\ Sending(st)
  BY <1>6, <1>10, <1>12, <1>16 DEF Heard, Sending
<1>18. Unlike(u, s, st)
  <2> SUFFICES ASSUME NEW v \in User, NEW r \in V2!Sid, ratchet[v][r] # None
               PROVE  ratchet[v][r].state.dhs # mine /\ ratchet[v][r].state.rk # rk
    BY <1>10 DEF Unlike
  <2>1. r <= started /\ ratchet[v][r].state.rk.sid = r /\ Known(ratchet[v][r].state.dhs)
    BY DEF Sessions, Session, Shape, Own
  <2>2. r \in Nat
    BY Bounds DEF V2!Sid
  <2> QED
    BY <1>0, <1>1, <1>6, <1>15, <2>1, <2>2
<1>19. Shut(u, st)
  BY <1>10, <1>12, <1>16 DEF Shut
<1>20. Spent(u, s, st)
  <2>1. \A key \in used[u] : key.chain.sid <= started /\ key.chain.sid \in Nat
    BY Bounds DEF UsedStarted, Kinds, V2!SealingKey, V2!KeyRoot, V2!Sid
  <2>2. \A key \in used[u] : key.chain.sid # s
    BY <1>0, <1>1, <2>1
  <2> QED
    BY <2>2 DEF Spent
<1>21. Announces(row)
  BY <1>9 DEF Announces, V2!Rides
<1>22. Ready(u, s, row)
  <2>1. s <= started'
    BY <1>2, Bounds DEF V2!Sid
  <2>2. row.state = st
    BY <1>9
  <2> QED
    BY <1>13, <1>14, <1>17, <1>18, <1>19, <1>20, <1>21, <2>1, <2>2 DEF Ready
<1>23. PICK m \in V2!Message, new \in V2!Row : Seals(u, s, row, m, new)
  BY <1>2, <1>9, <1>10, SealEffect
<1>24. ratchet[u][s] = None
  BY DEF V2!SendFirst, V2!Held
<1>25. Starting(u, s, row)
  BY <1>1, <1>2, <1>9, <1>10, <1>24 DEF Starting, rk, base, theirs
<1> QED
  BY <1>9, <1>11, <1>22, <1>23, <1>25 DEF Sealing

-----------------------------------------------------------------------------
(* Receiving. *)

\* The row a message is opened on: one held, or a responder's that starts here.
Expecting(u, s, row) ==
  /\ s <= started /\ Shape(s, row.state) /\ Heard(row.state)
  /\ row.state.dhs.of = u /\ Known(row.state.dhs)
  /\ \/ row.state.ckr = None /\ row.state.skipped = <<>>
     \/ Session(u, s, row) /\ Unlike(u, s, row.state)
  /\ Shut(u, row.state)
  /\ s \notin lost[u] => Spent(u, s, row.state)

Came(st, m, mine, next) ==
  FromSkipped(st, m, next) \/ FromChain(st, m, next) \/ FromTurn(st, m, mine, next)

\* The key is still there, has been evicted, or is m's own.
Saved(u, m, next, key) == key \in V2!Keys(next) \/ key \in evicted'[u] \/ key = m.key

\* What Receive does: mine is the fresh pair it may take and new the row after it.
Receives(u, row, m, mine, new) ==
  /\ m \in written /\ m.from # u /\ ~V2!InVault(u, m)
  /\ mine.of = u /\ ~Known(mine) /\ (FromTurn(row.state, m, mine, new.state) => Known(mine)')
  /\ Came(row.state, m, mine, new.state) /\ Shape(m.sid, new.state)
  /\ ratchet' = [ratchet EXCEPT ![u][m.sid] = new]
  /\ vault' = [vault EXCEPT ![u] = V2!Stored(u, m)]
  /\ used' = [used EXCEPT ![u] = @ \cup {m.key}]
  /\ evicted' = [v \in User |-> evicted'[v]]
  /\ UNCHANGED <<started, frames, written, shredded, lost, shreds>>
  /\ new.total = row.total
  /\ Len(row.state.skipped) <= MaxStored => Len(new.state.skipped) <= MaxStored
  /\ \A key \in V2!Passed(row.state, m, new.state) : Saved(u, m, new.state, key)
  /\ \A v \in User : evicted[v] \subseteq evicted'[v]

\* A pair and a number stand for one skipped key.
LEMMA HeardAlone ==
  ASSUME OneChain, NEW s, NEW st \in V2!State, Shape(s, st), Heard(st)
  PROVE  Alone(st)
<1> SUFFICES ASSUME NEW i \in DOMAIN st.skipped, NEW j \in DOMAIN st.skipped,
                    st.skipped[i].dh = st.skipped[j].dh, st.skipped[i].n = st.skipped[j].n
             PROVE  i = j
  BY DEF Alone
<1> DEFINE e == st.skipped[i]
           f == st.skipped[j]
<1>1. e \in Entries(st.skipped) /\ f \in Entries(st.skipped)
  BY DEF Entries
<1>2. e.mk.chain = f.mk.chain
  BY <1>1 DEF Heard, OneChain
<1>3. e.mk.n = e.n /\ f.mk.n = f.n
  BY <1>1 DEF Shape, Listed
<1>4. e.mk \in V2!SealingKey /\ f.mk \in V2!SealingKey
  BY <1>1, EntryTyped
<1>5. e.mk = f.mk
  BY <1>2, <1>3, <1>4 DEF V2!SealingKey
<1> QED
  BY <1>5 DEF Shape, Listed, Apart

LEMMA ReceiveEffect ==
  ASSUME RatchetInv, NEW u \in User, NEW m \in frames, V2!Receive(u, m),
         NEW row \in V2!Row, row = V2!SessionFor(u, m), Expecting(u, m.sid, row)
  PROVE  \E mine \in V2!KeyPair, new \in V2!Row : Receives(u, row, m, mine, new) /\ Grown
<1> USE DEF RatchetInv
<1>0. pairs[u] \in Nat /\ pairs[u] + 1 \in Nat
  BY DEF Kinds
<1>1. PICK fresh \in Nat : fresh = pairs[u] + 1
  BY <1>0
<1> DEFINE mine == V2!Pair(u, fresh)
           st == row.state
           next == V2!Stepped(st, m, mine)
           new == [row EXCEPT !.state = next, !.replied = TRUE]
<1>2. /\ m.from # u /\ ~V2!InVault(u, m) /\ V2!Opens(st, m, mine)
      /\ ratchet' = [ratchet EXCEPT ![u][m.sid] = new]
      /\ pairs' = IF next.dhs = mine THEN [pairs EXCEPT ![u] = @ + 1] ELSE pairs
      /\ vault' = [vault EXCEPT ![u] = V2!Stored(u, m)]
      /\ used' = [used EXCEPT ![u] = @ \cup {m.key}]
      /\ UNCHANGED <<started, frames, written, shredded, lost, shreds>>
      /\ evicted' = [evicted EXCEPT ![u] =
                       @ \cup (V2!Passed(st, m, next) \ (V2!Keys(next) \cup {m.key}))]
  BY <1>1 DEF V2!Receive, V2!CanOpen
<1>3. mine \in V2!KeyPair /\ mine.of = u /\ mine.k = fresh
  BY DEF V2!Pair, V2!KeyPair
<1>4. m \in written /\ m \in V2!Message /\ st \in V2!State
  BY DEF Kinds, V2!Row
<1> HIDE DEF mine, st
<1>5. Shape(m.sid, st) /\ Heard(st)
  BY DEF Expecting, st
<1>6. Alone(st)
  BY <1>4, <1>5, HeardAlone
<1>7. next \in V2!State /\ Apart(next.skipped) /\ Came(st, m, mine, next)
      /\ (Len(st.skipped) <= MaxStored => Len(next.skipped) <= MaxStored)
  <2>1. CASE V2!SkippedAt(st, m) # {}
    BY <1>2, <1>4, <1>5, <1>6, <2>1, SkippedStep DEF Came
  <2>2. CASE V2!SkippedAt(st, m) = {} /\ m.dh = st.dhr
    BY <1>2, <1>4, <1>5, <2>2, OnChainStep DEF Came
  <2>3. CASE V2!SkippedAt(st, m) = {} /\ m.dh # st.dhr
    BY <1>2, <1>3, <1>4, <1>5, <2>3, TurnStep DEF Came
  <2> QED
    BY <2>1, <2>2, <2>3
<1> HIDE DEF next
<1>8. Shape(m.sid, next)
  BY <1>3, <1>4, <1>5, <1>7, NextShape DEF Came
<1>9. new \in V2!Row /\ new.state = next /\ new.total = row.total
  BY <1>7 DEF V2!Row
<1>10. Grown
  <2>1. pairs' \in [User -> Nat] /\ \A v \in User : pairs[v] <= pairs'[v]
    BY <1>0, <1>2 DEF Kinds
  <2> QED
    BY <1>2, <2>1 DEF Kinds, Grown
<1>11. ~Known(mine)
  BY <1>0, <1>1, <1>3 DEF Known
<1>12. FromTurn(st, m, mine, next) => mine.k <= pairs'[mine.of]
  <2> SUFFICES ASSUME FromTurn(st, m, mine, next) PROVE mine.k <= pairs'[mine.of]
    OBVIOUS
  <2>1. next.dhs = mine
    BY DEF FromTurn
  <2>2. pairs'[u] = pairs[u] + 1
    BY <1>2, <2>1 DEF Kinds
  <2> QED
    BY <1>0, <1>1, <1>3, <2>2
<1> HIDE DEF new
<1>13. /\ evicted' = [v \in User |-> evicted'[v]]
       /\ \A v \in User : evicted[v] \subseteq evicted'[v]
       /\ \A key \in V2!Passed(st, m, next) : Saved(u, m, next, key)
  BY <1>2 DEF Kinds, Saved
<1>14. Receives(u, row, m, mine, new)
  BY <1>2, <1>3, <1>4, <1>7, <1>8, <1>9, <1>11, <1>12, <1>13 DEF Receives, Known, st
<1> QED
  BY <1>3, <1>9, <1>10, <1>14

LEMMA ReceiveKinds ==
  ASSUME RatchetInv, Grown, NEW u \in User, NEW row \in V2!Row, NEW m \in V2!Message,
         NEW mine \in V2!KeyPair, NEW new \in V2!Row, Receives(u, row, m, mine, new)
  PROVE  Kinds' /\ Numbered' /\ Marked' /\ OneChain' /\ V2!KeyOnce'
<1> USE DEF RatchetInv, Receives
<1>1. m.sid \in V2!Sid /\ m.key \in V2!SealingKey
  BY DEF V2!Message
<1>2. Kinds'
  <2>1. ratchet' \in [User -> [V2!Sid -> V2!Row \cup {None}]]
    BY <1>1 DEF Kinds
  <2>2. used' \in [User -> SUBSET V2!SealingKey]
    BY <1>1 DEF Kinds
  <2>3. vault' \in [User -> SUBSET Filed]
    BY StoredFiled DEF Kinds
  <2> QED
    BY <2>1, <2>2, <2>3 DEF Kinds, Grown
<1>3. Numbered'
  <2>1. m \in written /\ V2!Entry(m).text = m.text
    BY EntryFiled
  <2>2. \A v \in User : \A e \in vault'[v] : e \in vault[v] \/ e = V2!Entry(m)
    BY StoredFiled DEF Kinds
  <2>3. \A v \in User : \A e \in vault'[v] \cup shredded'[v] : e.text <= Cardinality(written)
    BY <2>1, <2>2 DEF Numbered
  <2> QED
    BY <2>3 DEF Numbered
<1>4. Marked'
  <2> SUFFICES ASSUME NEW k \in written
               PROVE  /\ Known(k.dh)' /\ k.sid <= started'
                      /\ \A p \in V2!KeyPair : Agreed(k.key.chain, p) => Known(p)'
    BY DEF Marked
  <2>1. k.dh \in V2!KeyPair /\ Known(k.dh) /\ k.sid <= started
        /\ \A p \in V2!KeyPair : Agreed(k.key.chain, p) => Known(p)
    BY DEF Marked, Kinds, V2!Message
  <2>2. Known(k.dh)'
    BY <2>1, KnownKept
  <2>3. \A p \in V2!KeyPair : Agreed(k.key.chain, p) => Known(p)'
    BY <2>1, KnownKept
  <2> QED
    BY <2>1, <2>2, <2>3
<1>5. OneChain' /\ V2!KeyOnce'
  BY DEF OneChain, V2!KeyOnce
<1> QED
  BY <1>2, <1>3, <1>4, <1>5

\* The new state's session is as a session should be.
LEMMA ReceivedSession ==
  ASSUME RatchetInv, Grown, NEW u \in User, NEW row \in V2!Row, NEW m \in V2!Message,
         NEW mine \in V2!KeyPair, NEW new \in V2!Row, Expecting(u, m.sid, row),
         Receives(u, row, m, mine, new)
  PROVE  Session(u, m.sid, new)' /\ Unlike(u, m.sid, new.state)
<1> USE DEF RatchetInv
<1> DEFINE st == row.state
           next == new.state
           s == m.sid
<1>1. st \in V2!State /\ next \in V2!State /\ s \in V2!Sid /\ m \in written /\ m.dh \in V2!KeyPair
  BY DEF V2!Row, V2!Message, Receives
<1>2. s <= started' /\ Shape(s, next)
  BY <1>1, StartedKept DEF Expecting, Receives
<1>3. /\ Heard(st) /\ st.dhs.of = u /\ Known(st.dhs) /\ Shape(s, st)
      /\ (st.ckr = None /\ st.skipped = <<>>) \/ (Session(u, s, row) /\ Unlike(u, s, st))
  BY DEF Expecting
<1>4. mine.of = u /\ ~Known(mine) /\ (FromTurn(st, m, mine, next) => Known(mine)')
      /\ written' = written /\ Came(st, m, mine, next)
  BY DEF Receives
<1> HIDE DEF st, next, s
<1>5. st.rk \in V2!KeyRoot /\ Len(st.rk.path) \in Nat
  BY <1>1, Lengths DEF V2!State
<1>6. ASSUME SameKeys(st, next), st.ckr # None \/ Entries(st.skipped) # {},
             \A e \in Entries(next.skipped) :
               e \in Entries(st.skipped) \/ \E until : Passing(st, until, e)
      PROVE  Session(u, s, new)' /\ Unlike(u, s, next)
  <2>1. Session(u, s, row) /\ Unlike(u, s, st)
    BY <1>3, <1>6 DEF Entries
  <2>2. Own(u, st)'
    <3>1. Known(st.dhs)'
      BY <1>1, <1>3, KnownKept DEF V2!State
    <3>2. \A p \in V2!KeyPair : Agreed(st.rk, p) => Known(p)'
      BY <2>1, KnownKept DEF Session, Own, st
    <3> QED
      BY <2>1, <3>1, <3>2 DEF Session, Own, st
  <2>3. Own(u, next)'
    BY <1>6, <2>2 DEF Own, SameKeys
  <2>4. Heard(next)
    <3>1. next.ckr # None => \E k \in written : k.dh = next.dhr /\ k.key.chain = next.ckr
      BY <1>3, <1>6 DEF Heard, SameKeys
    <3>2. ASSUME NEW e \in Entries(next.skipped)
          PROVE  \E k \in written : k.dh = e.dh /\ k.key.chain = e.mk.chain
      <4>1. CASE e \in Entries(st.skipped)
        BY <1>3, <4>1 DEF Heard
      <4>2. ASSUME NEW until, Passing(st, until, e)
            PROVE  \E k \in written : k.dh = e.dh /\ k.key.chain = e.mk.chain
        <5>1. st.ckr # None /\ e.dh = st.dhr /\ e.mk = V2!MessageKey(st.ckr, e.n)
          BY <4>2 DEF Passing
        <5>2. e.mk.chain = st.ckr
          BY <5>1 DEF V2!MessageKey
        <5> QED
          BY <1>3, <5>1, <5>2 DEF Heard
      <4> QED
        BY <1>6, <4>1, <4>2
    <3> QED
      BY <3>1, <3>2 DEF Heard
  <2>5. Heard(next)' /\ Sending(next)'
    <3>1. Sending(next)
      BY <1>6, <2>1 DEF Session, Sending, SameKeys, st
    <3> QED
      BY <1>4, <2>4, <3>1 DEF Heard, Sending
  <2>6. Len(st.rk.path) # 1
    <3>1. \A k \in written : Len(k.key.chain.path) > 0 /\ Len(k.key.chain.path) \in Nat
      BY Lengths DEF Marked, Kinds, V2!Message, V2!SealingKey
    <3>2. CASE st.ckr # None
      <4>1. PICK k \in written : k.key.chain = st.ckr
        BY <1>3, <3>2 DEF Heard
      <4>2. Len(k.key.chain.path) < Len(st.rk.path)
        BY <1>3, <3>2, <4>1 DEF Shape
      <4>3. Len(k.key.chain.path) > 0 /\ Len(k.key.chain.path) \in Nat
        BY <3>1, <4>1
      <4>4. \A a, b \in Nat : a > 0 /\ a < b => b # 1
        OBVIOUS
      <4> QED
        BY <1>5, <4>2, <4>3, <4>4
    <3>3. CASE Entries(st.skipped) # {}
      <4>1. PICK e \in Entries(st.skipped) : TRUE
        BY <3>3
      <4>2. PICK k \in written : k.key.chain = e.mk.chain
        BY <1>3, <4>1 DEF Heard
      <4>3. Len(k.key.chain.path) < Len(st.rk.path)
        BY <1>3, <4>1, <4>2 DEF Shape
      <4>4. Len(k.key.chain.path) > 0 /\ Len(k.key.chain.path) \in Nat
        BY <3>1, <4>2
      <4>5. \A a, b \in Nat : a > 0 /\ a < b => b # 1
        OBVIOUS
      <4> QED
        BY <1>5, <4>3, <4>4, <4>5
    <3> QED
      BY <1>6, <3>2, <3>3
  <2>7. Announces(new)
    BY <1>6, <2>6 DEF Announces, SameKeys, next
  <2>8. Unlike(u, s, next)
    BY <1>6, <2>1 DEF Unlike, SameKeys
  <2> QED
    BY <1>2, <2>3, <2>5, <2>7, <2>8 DEF Session, next
<1>7. CASE FromSkipped(st, m, next)
  BY <1>6, <1>7 DEF FromSkipped, s, next
<1>8. CASE FromChain(st, m, next)
  BY <1>6, <1>8 DEF FromChain, s, next
<1>9. CASE FromTurn(st, m, mine, next)
  <2>1. /\ next.dhs = mine /\ next.dhr = m.dh /\ next.ckr = m.key.chain /\ next.cks = next.rk
        /\ \A e \in Entries(next.skipped) :
             e \in Entries(st.skipped) \/ Passing(st, m.pn, e) \/ Leading(m, e)
    BY <1>9 DEF FromTurn
  <2>2. Len(next.rk.path) = Len(st.rk.path) + 2
        /\ \A x : Agreed(next.rk, x) <=> (x = mine \/ x = m.dh)
    <3>1. Len(next.rk.path) = Len(st.rk.path) + 2
      BY <1>1, <1>9, Turned
    <3>2. \A x : Agreed(next.rk, x) <=> (x = mine \/ x = m.dh)
      BY <1>1, <1>9, Turned
    <3> QED
      BY <3>1, <3>2
  <2>3. Known(mine)' /\ Known(m.dh)'
    <3>1. Known(m.dh)
      BY <1>1 DEF Marked
    <3> QED
      BY <1>1, <1>4, <1>9, <3>1, KnownKept
  <2>4. Own(u, next)'
    <3>1. \A p \in V2!KeyPair : Agreed(next.rk, p) => p.k <= pairs'[p.of]
      BY <2>2, <2>3 DEF Known
    <3>2. Len(next.rk.path) > 0
      BY <1>5, <2>2
    <3>3. next.dhs.of = u /\ next.dhs.k <= pairs'[next.dhs.of]
      BY <1>4, <2>1, <2>3 DEF Known
    <3> QED
      BY <2>1, <3>1, <3>2, <3>3 DEF Own, Known
  <2>5. Heard(next)
    <3>1. next.ckr # None => \E k \in written : k.dh = next.dhr /\ k.key.chain = next.ckr
      BY <1>1, <2>1
    <3>2. ASSUME NEW e \in Entries(next.skipped)
          PROVE  \E k \in written : k.dh = e.dh /\ k.key.chain = e.mk.chain
      <4>1. CASE e \in Entries(st.skipped)
        BY <1>3, <4>1 DEF Heard
      <4>2. CASE Passing(st, m.pn, e)
        <5>1. st.ckr # None /\ e.dh = st.dhr /\ e.mk = V2!MessageKey(st.ckr, e.n)
          BY <4>2 DEF Passing
        <5>2. e.mk.chain = st.ckr
          BY <5>1 DEF V2!MessageKey
        <5> QED
          BY <1>3, <5>1, <5>2 DEF Heard
      <4>3. CASE Leading(m, e)
        <5>1. e.dh = m.dh /\ e.mk.chain = m.key.chain
          BY <4>3 DEF Leading, V2!MessageKey
        <5> QED
          BY <1>1, <5>1
      <4> QED
        BY <2>1, <4>1, <4>2, <4>3
    <3> QED
      BY <3>1, <3>2 DEF Heard
  <2>6. Sending(next)
    <3> SUFFICES ASSUME NEW k \in written
                 PROVE  k.key.chain # next.rk /\ k.dh # next.dhs
      BY DEF Sending
    <3>1. Known(k.dh) /\ (Agreed(k.key.chain, mine) => Known(mine))
      BY DEF Marked
    <3> QED
      BY <1>4, <2>1, <2>2, <3>1
  <2>7. Heard(next)' /\ Sending(next)'
    BY <1>4, <2>5, <2>6 DEF Heard, Sending
  <2>8. Announces(new)
    <3>1. Len(next.rk.path) # 1
      BY <1>5, <2>2
    <3> QED
      BY <3>1 DEF Announces, next
  <2>9. Unlike(u, s, next)
    <3> SUFFICES ASSUME NEW v \in User, NEW r \in V2!Sid, ratchet[v][r] # None
                 PROVE  ratchet[v][r].state.dhs # mine /\ ratchet[v][r].state.rk # next.rk
      BY <2>1 DEF Unlike
    <3>1. Known(ratchet[v][r].state.dhs)
          /\ (Agreed(ratchet[v][r].state.rk, mine) => Known(mine))
      BY DEF Sessions, Session, Own
    <3> QED
      BY <1>4, <2>2, <3>1
  <2> QED
    BY <1>2, <2>4, <2>7, <2>8, <2>9 DEF Session, next, s
<1> QED
  BY <1>4, <1>7, <1>8, <1>9 DEF Came

LEMMA ReceiveSessions ==
  ASSUME RatchetInv, Grown, NEW u \in User, NEW row \in V2!Row, NEW m \in V2!Message,
         NEW mine \in V2!KeyPair, NEW new \in V2!Row, Expecting(u, m.sid, row),
         Receives(u, row, m, mine, new)
  PROVE  Sessions' /\ Separate'
<1> USE DEF RatchetInv
<1> DEFINE s == m.sid
<1>1. /\ s \in V2!Sid /\ written' = written
      /\ ratchet' = [ratchet EXCEPT ![u][s] = new]
  BY DEF Receives, V2!Message
<1>2. Session(u, s, new)' /\ Unlike(u, s, new.state)
  BY ReceivedSession
<1> HIDE DEF s
<1>3. ratchet'[u][s] = new
  BY <1>1 DEF Kinds
<1>4. \A v \in User, r \in V2!Sid : v # u \/ r # s => ratchet'[v][r] = ratchet[v][r]
  BY <1>1 DEF Kinds
<1>5. \A v \in User, r \in V2!Sid : v # u \/ r # s =>
        \/ ratchet[v][r] = None
        \/ ratchet[v][r].state.dhs # new.state.dhs /\ ratchet[v][r].state.rk # new.state.rk
  BY <1>2 DEF Unlike
<1>6. Sessions'
  <2> SUFFICES ASSUME NEW v \in User, NEW r \in V2!Sid, ratchet'[v][r] # None
               PROVE  Session(v, r, ratchet[v][r])'
    BY DEF Sessions
  <2>1. CASE v = u /\ r = s
    BY <1>2, <1>3, <2>1
  <2>2. CASE v # u \/ r # s
    <3>1. ratchet[v][r] # None /\ ratchet[v][r] \in V2!Row
      BY <1>4, <2>2 DEF Kinds
    <3>2. PICK old \in V2!Row : old = ratchet[v][r]
      BY <3>1
    <3>3. Session(v, r, old)
      BY <3>1, <3>2 DEF Sessions
    <3>4. Session(v, r, old)'
      BY <1>1, <3>3, SessionKept
    <3>5. ratchet'[v][r] = old
      BY <1>4, <2>2, <3>2
    <3> QED
      BY <3>4, <3>5
  <2> QED
    BY <2>1, <2>2
<1>7. Separate'
  <2> SUFFICES ASSUME NEW v \in User, NEW r \in V2!Sid, NEW w \in User, NEW q \in V2!Sid,
                      ratchet'[v][r] # None, ratchet'[w][q] # None, v # w \/ r # q
               PROVE  ratchet'[w][q].state.dhs # ratchet'[v][r].state.dhs
                      /\ ratchet'[w][q].state.rk # ratchet'[v][r].state.rk
    BY DEF Separate, Unlike
  <2>1. CASE v = u /\ r = s
    BY <1>3, <1>4, <1>5, <2>1
  <2>2. CASE w = u /\ q = s
    BY <1>3, <1>4, <1>5, <2>2
  <2>3. CASE (v # u \/ r # s) /\ (w # u \/ q # s)
    BY <1>4, <2>3 DEF Separate, Unlike
  <2> QED
    BY <2>1, <2>2, <2>3
<1> QED
  BY <1>6, <1>7

\* The step from st to next uses up m's key.
LEMMA ReceivedSpent ==
  ASSUME NEW s, NEW st \in V2!State, NEW next \in V2!State, NEW m \in V2!Message, NEW mine \in V2!KeyPair,
         Shape(s, st), Came(st, m, mine, next), m.key.n = m.n,
         NEW key \in V2!SealingKey,
         \/ key = m.key
         \/ /\ Len(key.chain.path) <= Len(st.rk.path)
            /\ key.chain = st.rk => key.n < st.ns
            /\ key.chain = st.ckr => key.n < st.nr
            /\ \A e \in Entries(st.skipped) : e.mk # key
  PROVE  /\ Len(key.chain.path) <= Len(next.rk.path)
         /\ key.chain = next.rk => key.n < next.ns
         /\ key.chain = next.ckr => key.n < next.nr
         /\ \A e \in Entries(next.skipped) : e.mk # key
<1>1. /\ st.rk \in V2!KeyRoot /\ Len(st.rk.path) \in Nat /\ st.nr \in Nat /\ st.ns \in Nat
      /\ m.n \in Nat /\ m.pn \in Nat /\ m.key \in V2!SealingKey
      /\ key.n \in Nat /\ key.chain \in V2!KeyRoot /\ Len(key.chain.path) \in Nat
      /\ key.chain # None /\ m.key.chain # None
  BY Lengths, NoneAssumption DEF V2!State, V2!Message, V2!SealingKey
<1>2. \A e \in Entries(st.skipped) :
        /\ e.n \in Nat /\ e.mk.n = e.n /\ Len(e.mk.chain.path) \in Nat
        /\ Len(e.mk.chain.path) < Len(st.rk.path)
        /\ e.mk.chain = st.ckr => e.n < st.nr
  BY EntryTyped, Lengths DEF Shape, Listed
<1>3. st.ckr # None => Len(st.ckr.path) < Len(st.rk.path) /\ Len(st.ckr.path) \in Nat
  BY Lengths DEF Shape, V2!State
<1>4. ASSUME NEW e, NEW until, Passing(st, until, e)
      PROVE  st.ckr # None /\ e.mk.chain = st.ckr /\ e.mk.n = e.n /\ e.n \in Nat /\ st.nr <= e.n
             /\ e.n < until
  <2>1. e.mk = V2!MessageKey(st.ckr, e.n) /\ e.n \in Nat /\ st.nr <= e.n /\ e.n < until /\ st.ckr # None
    BY <1>4 DEF Passing
  <2> QED
    BY <2>1 DEF V2!MessageKey
<1>5. CASE FromSkipped(st, m, next)
  <2>1. PICK f \in Entries(st.skipped) : f.mk = m.key
    BY <1>5 DEF FromSkipped
  <2>2. next.rk = st.rk /\ next.ckr = st.ckr /\ next.ns = st.ns /\ next.nr = st.nr
        /\ Entries(next.skipped) \subseteq Entries(st.skipped)
        /\ \A e \in Entries(next.skipped) : e.mk # m.key
    BY <1>5 DEF FromSkipped, SameKeys
  <2>3. CASE key = m.key
    <3>1. Len(key.chain.path) < Len(st.rk.path)
      BY <1>2, <2>1, <2>3
    <3>2. key.chain = st.ckr => key.n < st.nr
      BY <1>2, <2>1, <2>3
    <3> QED
      BY <1>1, <2>2, <2>3, <3>1, <3>2
  <2>4. CASE key # m.key
    BY <2>2, <2>4
  <2> QED
    BY <2>3, <2>4
<1>6. CASE FromChain(st, m, next)
  <2>1. next.rk = st.rk /\ next.ckr = st.ckr /\ next.ns = st.ns /\ next.nr = m.n + 1
        /\ m.key.chain = st.ckr /\ st.nr <= m.n
        /\ \A e \in Entries(next.skipped) : e \in Entries(st.skipped) \/ Passing(st, m.n, e)
    BY <1>6 DEF FromChain, SameKeys
  <2>2. CASE key = m.key
    <3>1. Len(key.chain.path) < Len(st.rk.path) /\ key.chain = st.ckr /\ key.n = m.n
      BY <1>1, <1>3, <2>1, <2>2
    <3>2. \A e \in Entries(next.skipped) : e.mk # key
      <4> SUFFICES ASSUME NEW e \in Entries(next.skipped), e.mk = key PROVE FALSE
        OBVIOUS
      <4>1. CASE e \in Entries(st.skipped)
        BY <1>1, <1>2, <2>1, <3>1, <4>1
      <4>2. CASE Passing(st, m.n, e)
        BY <1>1, <1>4, <3>1, <4>2
      <4> QED
        BY <2>1, <4>1, <4>2
    <3> QED
      BY <1>1, <2>1, <3>1, <3>2
  <2>3. CASE key # m.key
    <3>1. \A e \in Entries(next.skipped) : e.mk # key
      <4> SUFFICES ASSUME NEW e \in Entries(next.skipped), e.mk = key PROVE FALSE
        OBVIOUS
      <4>1. CASE e \in Entries(st.skipped)
        BY <2>3, <4>1
      <4>2. CASE Passing(st, m.n, e)
        BY <1>1, <1>4, <2>3, <4>2
      <4> QED
        BY <2>1, <4>1, <4>2
    <3> QED
      BY <1>1, <2>1, <2>3, <3>1
  <2> QED
    BY <2>2, <2>3
<1>7. CASE FromTurn(st, m, mine, next)
  <2>1. next.ckr = m.key.chain /\ next.ns = 0 /\ next.nr = m.n + 1
        /\ \A e \in Entries(next.skipped) :
             e \in Entries(st.skipped) \/ Passing(st, m.pn, e) \/ Leading(m, e)
    BY <1>7 DEF FromTurn
  <2>2. Len(m.key.chain.path) = Len(st.rk.path) + 1
    BY <1>7, Turned
  <2>3. Len(next.rk.path) = Len(st.rk.path) + 2
    BY <1>7, Turned
  <2>4. ASSUME NEW e, Leading(m, e)
        PROVE  e.mk.chain = m.key.chain /\ e.mk.n = e.n /\ e.n \in Nat /\ e.n < m.n
    <3>1. e.mk = V2!MessageKey(m.key.chain, e.n) /\ e.n \in Nat /\ e.n < m.n
      BY <2>4 DEF Leading
    <3> QED
      BY <3>1 DEF V2!MessageKey
  <2>5. CASE key = m.key
    <3>1. \A e \in Entries(next.skipped) : e.mk # key
      <4> SUFFICES ASSUME NEW e \in Entries(next.skipped), e.mk = key PROVE FALSE
        OBVIOUS
      <4>1. CASE e \in Entries(st.skipped)
        BY <1>1, <1>2, <2>2, <2>5, <4>1
      <4>2. CASE Passing(st, m.pn, e)
        BY <1>1, <1>3, <1>4, <2>2, <2>5, <4>2
      <4>3. CASE Leading(m, e)
        BY <1>1, <2>4, <2>5, <4>3
      <4> QED
        BY <2>1, <4>1, <4>2, <4>3
    <3>2. Len(m.key.chain.path) <= Len(next.rk.path) /\ m.key.chain # next.rk
      BY <1>1, <2>2, <2>3
    <3>3. m.key.n = m.n /\ m.n < next.nr
      BY <1>1, <2>1
    <3> QED
      BY <2>5, <3>1, <3>2, <3>3
  <2>6. CASE key # m.key
    <3>1. \A e \in Entries(next.skipped) : e.mk # key
      <4> SUFFICES ASSUME NEW e \in Entries(next.skipped), e.mk = key PROVE FALSE
        OBVIOUS
      <4>1. CASE e \in Entries(st.skipped)
        BY <2>6, <4>1
      <4>2. CASE Passing(st, m.pn, e)
        BY <1>1, <1>4, <2>6, <4>2
      <4>3. CASE Leading(m, e)
        BY <1>1, <2>2, <2>4, <2>6, <4>3
      <4> QED
        BY <2>1, <4>1, <4>2, <4>3
    <3>2. Len(key.chain.path) <= Len(st.rk.path)
      BY <2>6
    <3>3. Len(key.chain.path) <= Len(next.rk.path)
      BY <1>1, <2>3, <3>2
    <3>4. key.chain # next.rk
      BY <1>1, <2>3, <3>2
    <3>5. key.chain # m.key.chain
      BY <1>1, <2>2, <3>2
    <3> QED
      BY <2>1, <3>1, <3>3, <3>4, <3>5
  <2> QED
    BY <2>5, <2>6
<1> QED
  BY <1>5, <1>6, <1>7 DEF Came

LEMMA ReceiveSecret ==
  ASSUME RatchetInv, Grown, NEW u \in User, NEW row \in V2!Row, NEW m \in V2!Message,
         NEW mine \in V2!KeyPair, NEW new \in V2!Row, Expecting(u, m.sid, row),
         Receives(u, row, m, mine, new)
  PROVE  Secret' /\ UsedStarted'
<1> USE DEF RatchetInv
<1> DEFINE s == m.sid
<1>1. /\ s \in V2!Sid /\ m.key \in V2!SealingKey /\ m.key.chain.sid = s /\ m.key.n = m.n
      /\ ratchet' = [ratchet EXCEPT ![u][s] = new]
      /\ used' = [used EXCEPT ![u] = @ \cup {m.key}] /\ UNCHANGED <<lost, started>>
      /\ Came(row.state, m, mine, new.state)
  BY DEF Receives, V2!Message, Marked
<1>2. s <= started /\ Shape(s, row.state) /\ (s \notin lost[u] => Spent(u, s, row.state))
  BY DEF Expecting
<1> HIDE DEF s
<1>3. row.state \in V2!State /\ new.state \in V2!State
  BY DEF V2!Row
<1>4. \A v \in User : \A key \in used'[v] : key \in used[v] \/ (v = u /\ key = m.key)
  BY <1>1 DEF Kinds
<1>5. UsedStarted'
  BY <1>1, <1>2, <1>4 DEF UsedStarted
<1>6. Secret'
  <2> SUFFICES ASSUME NEW v \in User, NEW r \in V2!Sid, r \notin lost[v]
               PROVE  IF ratchet'[v][r] = None THEN \A key \in used'[v] : key.chain.sid # r
                      ELSE Spent(v, r, ratchet[v][r].state)'
    BY <1>1 DEF Secret
  <2>1. CASE v = u /\ r = s
    <3>1. ratchet'[v][r] = new /\ new # None
      BY <1>1, <2>1, NoneAssumption DEF Kinds
    <3>2. Spent(u, s, new.state)'
      <4> SUFFICES ASSUME NEW key \in used'[u], key.chain.sid = s
                   PROVE  /\ Len(key.chain.path) <= Len(new.state.rk.path)
                          /\ key.chain = new.state.rk => key.n < new.state.ns
                          /\ key.chain = new.state.ckr => key.n < new.state.nr
                          /\ \A e \in Entries(new.state.skipped) : e.mk # key
        BY DEF Spent
      <4>1. key \in V2!SealingKey
        BY <1>1, <1>4 DEF Kinds
      <4>2. \/ key = m.key
            \/ /\ Len(key.chain.path) <= Len(row.state.rk.path)
               /\ key.chain = row.state.rk => key.n < row.state.ns
               /\ key.chain = row.state.ckr => key.n < row.state.nr
               /\ \A e \in Entries(row.state.skipped) : e.mk # key
        BY <1>2, <1>4, <2>1 DEF Spent
      <4> QED
        BY <1>1, <1>2, <1>3, <4>1, <4>2, ReceivedSpent
    <3> QED
      BY <2>1, <3>1, <3>2
  <2>2. CASE v # u \/ r # s
    <3>1. ratchet'[v][r] = ratchet[v][r]
      BY <1>1, <2>2 DEF Kinds
    <3>2. \A key \in used'[v] : key.chain.sid = r => key \in used[v]
      BY <1>1, <1>4, <2>2
    <3>3. CASE ratchet[v][r] = None
      BY <3>1, <3>2, <3>3 DEF Secret
    <3>4. CASE ratchet[v][r] # None
      <4>1. PICK old : old = ratchet[v][r]
        OBVIOUS
      <4>2. Spent(v, r, old.state)
        BY <3>4, <4>1 DEF Secret
      <4>3. Spent(v, r, old.state)'
        BY <3>2, <4>2 DEF Spent
      <4> QED
        BY <3>1, <3>4, <4>1, <4>3
    <3> QED
      BY <3>3, <3>4
  <2> QED
    BY <2>1, <2>2
<1> QED
  BY <1>5, <1>6

\* What u has shredded and the chain or key m opens on are of a first flight.
LEMMA ReceiveForgotten ==
  ASSUME RatchetInv, Grown, NEW u \in User, NEW row \in V2!Row, NEW m \in V2!Message,
         NEW mine \in V2!KeyPair, NEW new \in V2!Row, Expecting(u, m.sid, row),
         Receives(u, row, m, mine, new)
  PROVE  Forgotten' /\ V2!OnlyFirstFlightReopens'
<1> USE DEF RatchetInv
<1> DEFINE st == row.state
           next == new.state
           s == m.sid
<1>1. /\ s \in V2!Sid /\ m \in written /\ m.from # u /\ ~Known(mine)
      /\ ratchet' = [ratchet EXCEPT ![u][s] = new]
      /\ vault' = [vault EXCEPT ![u] = V2!Stored(u, m)]
      /\ written' = written /\ shredded' = shredded
      /\ Came(st, m, mine, next)
  BY DEF Receives, V2!Message
<1>2. Shut(u, st)
  BY DEF Expecting
<1>3. st \in V2!State
  BY DEF V2!Row
<1> HIDE DEF st, next, s
<1>4. ASSUME NEW e, NEW until, Passing(st, until, e)
      PROVE  e.mk.chain = st.ckr
  <2>1. e.mk = V2!MessageKey(st.ckr, e.n)
    BY <1>4 DEF Passing
  <2> QED
    BY <2>1 DEF V2!MessageKey
<1>5. ASSUME NEW e, Leading(m, e)
      PROVE  e.mk.chain = m.key.chain
  <2>1. e.mk = V2!MessageKey(m.key.chain, e.n)
    BY <1>5 DEF Leading
  <2> QED
    BY <2>1 DEF V2!MessageKey
<1>6. ASSUME FromTurn(st, m, mine, next), NEW k \in written, V2!Entry(k) \in shredded[u],
             k.key.chain = m.key.chain
      PROVE  k.init
  <2>1. Agreed(k.key.chain, st.dhs)
    BY <1>3, <1>6, Turned
  <2>2. Len(st.rk.path) = 0
    BY <1>2, <1>6, <2>1 DEF Shut
  <2>3. Len(m.key.chain.path) = Len(st.rk.path) + 1
    BY <1>3, <1>6, Turned
  <2>4. Len(k.key.chain.path) = 1
    BY <1>6, <2>2, <2>3
  <2> QED
    BY <2>4 DEF Marked
<1>7. ASSUME V2!Entry(m) \in shredded[u] PROVE m.init
  <2>1. CASE FromSkipped(st, m, next)
    BY <1>1, <1>2, <1>7, <2>1 DEF FromSkipped, Shut
  <2>2. CASE FromChain(st, m, next)
    BY <1>1, <1>2, <1>7, <2>2 DEF FromChain, Shut
  <2>3. CASE FromTurn(st, m, mine, next)
    BY <1>1, <1>6, <1>7, <2>3
  <2> QED
    BY <1>1, <2>1, <2>2, <2>3 DEF Came
<1>8. Shut(u, next)
  <2> SUFFICES ASSUME NEW k \in written, V2!Entry(k) \in shredded[u]
               PROVE  /\ k.key.chain = next.ckr => k.init
                      /\ \A e \in Entries(next.skipped) : e.mk = k.key => k.init
                      /\ Agreed(k.key.chain, next.dhs) => Len(next.rk.path) = 0
    BY DEF Shut
  <2>1. /\ k.key.chain = st.ckr => k.init
        /\ \A e \in Entries(st.skipped) : e.mk = k.key => k.init
        /\ Agreed(k.key.chain, st.dhs) => Len(st.rk.path) = 0
    BY <1>2 DEF Shut
  <2>2. CASE FromSkipped(st, m, next)
    BY <2>1, <2>2 DEF FromSkipped, SameKeys
  <2>3. CASE FromChain(st, m, next)
    <3>1. next.ckr = st.ckr /\ next.dhs = st.dhs /\ next.rk = st.rk
          /\ \A e \in Entries(next.skipped) : e \in Entries(st.skipped) \/ Passing(st, m.n, e)
      BY <2>3 DEF FromChain, SameKeys
    <3>2. \A e \in Entries(next.skipped) : e.mk = k.key => k.init
      BY <1>4, <2>1, <3>1
    <3> QED
      BY <2>1, <3>1, <3>2
  <2>4. CASE FromTurn(st, m, mine, next)
    <3>1. next.ckr = m.key.chain /\ next.dhs = mine
          /\ \A e \in Entries(next.skipped) :
               e \in Entries(st.skipped) \/ Passing(st, m.pn, e) \/ Leading(m, e)
      BY <2>4 DEF FromTurn
    <3>2. k.key.chain = m.key.chain => k.init
      BY <1>6, <2>4
    <3>3. \A e \in Entries(next.skipped) : e.mk = k.key => k.init
      BY <1>4, <1>5, <2>1, <3>1, <3>2
    <3>4. ~Agreed(k.key.chain, mine)
      BY <1>1 DEF Marked
    <3> QED
      BY <3>1, <3>2, <3>3, <3>4
  <2> QED
    BY <1>1, <2>2, <2>3, <2>4 DEF Came
<1>9. Forgotten'
  <2> SUFFICES ASSUME NEW v \in User, NEW r \in V2!Sid, ratchet'[v][r] # None
               PROVE  Shut(v, ratchet[v][r].state)'
    BY DEF Forgotten
  <2>1. CASE v = u /\ r = s
    <3>1. ratchet'[v][r] = new
      BY <1>1, <2>1 DEF Kinds
    <3>2. Shut(u, new.state)'
      BY <1>1, <1>8 DEF Shut, next
    <3> QED
      BY <2>1, <3>1, <3>2
  <2>2. CASE v # u \/ r # s
    <3>1. ratchet'[v][r] = ratchet[v][r]
      BY <1>1, <2>2 DEF Kinds
    <3>2. PICK old : old = ratchet[v][r]
      OBVIOUS
    <3>3. Shut(v, old.state)
      BY <3>1, <3>2 DEF Forgotten
    <3>4. Shut(v, old.state)'
      BY <1>1, <3>3 DEF Shut
    <3> QED
      BY <3>1, <3>2, <3>4
  <2> QED
    BY <2>1, <2>2
<1>10. V2!OnlyFirstFlightReopens'
  <2> SUFFICES ASSUME NEW k \in written, NEW v \in User, V2!Entry(k) \in vault'[v] \cap shredded[v]
               PROVE  k.init /\ k.from # v
    BY <1>1 DEF V2!OnlyFirstFlightReopens
  <2>1. CASE V2!Entry(k) \in vault[v]
    BY <2>1 DEF V2!OnlyFirstFlightReopens
  <2>2. CASE V2!Entry(k) \notin vault[v]
    <3>1. v = u /\ V2!Entry(k) = V2!Entry(m)
      BY <1>1, <2>2, StoredFiled DEF Kinds
    <3>2. k \in V2!Message
      BY DEF Kinds
    <3>3. k = m
      BY <1>1, <3>1, <3>2, EntryFiled DEF Numbered
    <3> QED
      BY <1>1, <1>7, <3>1, <3>3
  <2> QED
    BY <2>1, <2>2
<1> QED
  BY <1>9, <1>10

\* The row a message finds: the one held, or a responder's.
Answering(u, s, row) ==
  \/ ratchet[u][s] = row
  \/ ratchet[u][s] = None /\ row.state = V2!InitResponder(s, u) /\ row.total = 0

Receiving(u, row, m, mine, new) ==
  Grown /\ Expecting(u, m.sid, row) /\ Receives(u, row, m, mine, new) /\ Answering(u, m.sid, row)

LEMMA ReceiveStep ==
  ASSUME RatchetInv, NEW u \in User, NEW m \in frames, V2!Receive(u, m)
  PROVE  \E row \in V2!Row, k \in V2!Message, mine \in V2!KeyPair, new \in V2!Row :
           Receiving(u, row, k, mine, new)
<1> USE DEF RatchetInv
<1>1. /\ m \in written /\ m \in V2!Message /\ m.sid \in V2!Sid /\ m.sid <= started
  BY DEF Kinds, Marked, V2!Message
<1>2. PICK s \in V2!Sid, b \in 1..(MaxInits + 1) : s = m.sid /\ b = V2!Clock(u)
  BY <1>1, RatchetClockTyped
<1>3. V2!SessionFor(u, m) # None
  BY DEF V2!Receive, V2!CanOpen
<1>4. \E row \in V2!Row :
        row = V2!SessionFor(u, m) /\ Expecting(u, s, row) /\ Answering(u, s, row)
  <2>1. CASE ratchet[u][s] # None
    <3>1. PICK row \in V2!Row : row = ratchet[u][s]
      BY <2>1 DEF Kinds
    <3>2. Session(u, s, row) /\ Unlike(u, s, row.state) /\ Shut(u, row.state)
          /\ (s \notin lost[u] => Spent(u, s, row.state))
      BY <2>1, <3>1 DEF Sessions, Separate, Forgotten, Secret
    <3>3. Expecting(u, s, row)
      BY <3>2 DEF Expecting, Session, Own
    <3> QED
      BY <1>2, <2>1, <3>1, <3>3 DEF V2!SessionFor, Answering
  <2>2. CASE ratchet[u][s] = None
    <3> DEFINE root == V2!Root(s, <<>>)
               own == V2!Pair(u, 0)
               st == V2!InitResponder(s, u)
               row == [state |-> st, role |-> "resp", born |-> b, total |-> 0, replied |-> TRUE]
    <3>1. row = V2!SessionFor(u, m)
      BY <1>2, <1>3, <2>2 DEF V2!SessionFor, V2!Responder
    <3>2. root \in V2!KeyRoot /\ root.sid = s /\ Len(root.path) = 0
      BY EmptySeq DEF V2!Root, V2!KeyRoot
    <3>3. own \in V2!KeyPair /\ own.of = u /\ own.k = 0
      BY DEF V2!Pair, V2!KeyPair
    <3>4. st = [dhs |-> own, dhr |-> None, rk |-> root, cks |-> None, ckr |-> None,
                ns |-> 0, nr |-> 0, pn |-> 0, skipped |-> <<>>]
      BY DEF V2!InitResponder
    <3> HIDE DEF root, own, st
    <3>5. st \in V2!State
      <4>1. <<>> \in Seq(V2!SkippedKey)
        BY EmptySeq
      <4> QED
        BY <3>2, <3>3, <3>4, <4>1 DEF V2!State
    <3>6. row \in V2!Row /\ row.state = st /\ row.total = 0
      BY <3>5 DEF V2!Row
    <3> HIDE DEF row
    <3>7. st.dhs = own /\ st.rk = root /\ st.ckr = None /\ st.skipped = <<>>
      BY <3>4
    <3>8. Entries(st.skipped) = {}
      BY <3>7 DEF Entries
    <3>9. Shape(s, st) /\ Heard(st)
      BY <3>2, <3>7, <3>8 DEF Shape, Listed, Apart, Heard
    <3>10. Known(own)
      BY <3>3 DEF Known, Kinds
    <3>11. Shut(u, st)
      <4>1. \A k \in written : k.key.chain # None
        BY NoneAssumption DEF Kinds, V2!Message, V2!SealingKey
      <4>2. Len(st.rk.path) = 0
        BY <3>2, <3>7
      <4> QED
        BY <3>7, <3>8, <4>1, <4>2 DEF Shut
    <3>12. s \notin lost[u] => Spent(u, s, st)
      BY <2>2 DEF Secret, Spent
    <3>13. Expecting(u, s, row)
      BY <1>1, <1>2, <3>3, <3>6, <3>7, <3>9, <3>10, <3>11, <3>12 DEF Expecting
    <3>14. Answering(u, s, row)
      BY <2>2, <3>6 DEF Answering, st
    <3> QED
      BY <3>1, <3>6, <3>13, <3>14
  <2> QED
    BY <2>1, <2>2
<1>5. PICK row \in V2!Row :
        row = V2!SessionFor(u, m) /\ Expecting(u, m.sid, row) /\ Answering(u, m.sid, row)
  BY <1>2, <1>4
<1>6. PICK mine \in V2!KeyPair, new \in V2!Row : Receives(u, row, m, mine, new) /\ Grown
  BY <1>5, ReceiveEffect
<1>7. Receiving(u, row, m, mine, new)
  BY <1>5, <1>6 DEF Receiving
<1> QED
  BY <1>1, <1>7

LEMMA ReceiveInv ==
  ASSUME RatchetInv, NEW u \in User, NEW row \in V2!Row, NEW m \in V2!Message,
         NEW mine \in V2!KeyPair, NEW new \in V2!Row, Receiving(u, row, m, mine, new)
  PROVE  RatchetInv'
<1>1. Grown /\ Expecting(u, m.sid, row) /\ Receives(u, row, m, mine, new)
  BY DEF Receiving
<1>2. Kinds' /\ Numbered' /\ Marked' /\ OneChain' /\ V2!KeyOnce'
  BY <1>1, ReceiveKinds
<1>3. Sessions' /\ Separate'
  BY <1>1, ReceiveSessions
<1>4. Secret' /\ UsedStarted'
  BY <1>1, ReceiveSecret
<1>5. Forgotten' /\ V2!OnlyFirstFlightReopens'
  BY <1>1, ReceiveForgotten
<1> QED
  BY <1>2, <1>3, <1>4, <1>5 DEF RatchetInv

-----------------------------------------------------------------------------
(* Shred, and the induction. *)

LEMMA ShredInv ==
  ASSUME RatchetInv, NEW u \in User, V2!Shred(u)
  PROVE  RatchetInv'
<1> USE DEF RatchetInv
<1>1. /\ evicted' = evicted
      /\ shredded' = [shredded EXCEPT ![u] = @ \cup vault[u]]
      /\ lost' = [lost EXCEPT ![u] = @ \cup V2!Held(u)]
      /\ vault' = [vault EXCEPT ![u] = {}]
      /\ ratchet' = [ratchet EXCEPT ![u] = [s \in V2!Sid |-> None]]
      /\ pairs' = pairs /\ started' = started /\ frames' = frames /\ written' = written /\ used' = used
  BY DEF V2!Shred
<1>2. V2!Held(u) \in SUBSET V2!Sid
  BY DEF V2!Held
<1>3. \A v \in User, r \in V2!Sid :
        ratchet'[v][r] = IF v = u THEN None ELSE ratchet[v][r]
  BY <1>1 DEF Kinds
<1>4. /\ \A v \in User : lost[v] \subseteq lost'[v]
      /\ \A r \in V2!Sid : r \notin lost'[u] => ratchet[u][r] = None
  BY <1>1 DEF Kinds, V2!Held
<1>5. /\ \A v \in User : v # u => shredded'[v] = shredded[v] /\ vault'[v] = vault[v]
      /\ vault'[u] = {} /\ shredded'[u] = shredded[u] \cup vault[u]
  BY <1>1 DEF Kinds
<1>6. Kinds'
  <2>1. ratchet' \in [User -> [V2!Sid -> V2!Row \cup {None}]]
    BY <1>1 DEF Kinds
  <2>2. lost' \in [User -> SUBSET V2!Sid]
    BY <1>1, <1>2 DEF Kinds
  <2>3. vault' \in [User -> SUBSET Filed] /\ shredded' \in [User -> SUBSET Filed]
    BY <1>1 DEF Kinds
  <2> QED
    BY <1>1, <2>1, <2>2, <2>3 DEF Kinds
<1>7. Numbered'
  <2>1. \A v \in User : \A e \in vault'[v] \cup shredded'[v] : e \in vault[v] \cup shredded[v]
    BY <1>5
  <2> QED
    BY <1>1, <2>1 DEF Numbered
<1>8. Marked' /\ OneChain' /\ V2!KeyOnce'
  BY <1>1 DEF Marked, OneChain, V2!KeyOnce, Known
<1>9. Grown
  BY <1>1 DEF Grown, Kinds
<1>10. ASSUME NEW v \in User, NEW r \in V2!Sid, ratchet'[v][r] # None
       PROVE  \E old \in V2!Row : v # u /\ ratchet'[v][r] = old /\ ratchet[v][r] = old /\ old # None
  BY <1>3, <1>10 DEF Kinds
<1>11. Sessions'
  <2> SUFFICES ASSUME NEW v \in User, NEW r \in V2!Sid, ratchet'[v][r] # None
               PROVE  Session(v, r, ratchet[v][r])'
    BY DEF Sessions
  <2>1. PICK old \in V2!Row : v # u /\ ratchet'[v][r] = old /\ ratchet[v][r] = old /\ old # None
    BY <1>10
  <2>2. Session(v, r, old)
    BY <2>1 DEF Sessions
  <2>3. Session(v, r, old)'
    BY <1>1, <1>9, <2>2, SessionKept
  <2> QED
    BY <2>1, <2>3
<1>12. Separate'
  <2> SUFFICES ASSUME NEW v \in User, NEW r \in V2!Sid, NEW w \in User, NEW q \in V2!Sid,
                      ratchet'[v][r] # None, ratchet'[w][q] # None, v # w \/ r # q
               PROVE  ratchet'[w][q].state.dhs # ratchet'[v][r].state.dhs
                      /\ ratchet'[w][q].state.rk # ratchet'[v][r].state.rk
    BY DEF Separate, Unlike
  <2> QED
    BY <1>3 DEF Separate, Unlike
<1>13. Secret'
  <2> SUFFICES ASSUME NEW v \in User, NEW r \in V2!Sid, r \notin lost'[v]
               PROVE  IF ratchet'[v][r] = None THEN \A key \in used[v] : key.chain.sid # r
                      ELSE Spent(v, r, ratchet[v][r].state)'
    BY <1>1 DEF Secret
  <2>1. CASE ratchet[v][r] = None
    BY <1>3, <1>4, <2>1 DEF Secret
  <2>2. CASE ratchet[v][r] # None
    <3>1. v # u
      BY <1>4, <2>2
    <3>2. PICK old : old = ratchet[v][r]
      OBVIOUS
    <3>3. Spent(v, r, old.state)
      BY <1>4, <2>2, <3>2 DEF Secret
    <3>4. Spent(v, r, old.state)'
      BY <1>1, <3>3 DEF Spent
    <3> QED
      BY <1>3, <2>2, <3>1, <3>2, <3>4
  <2> QED
    BY <2>1, <2>2
<1>14. UsedStarted'
  BY <1>1 DEF UsedStarted
<1>15. Forgotten'
  <2> SUFFICES ASSUME NEW v \in User, NEW r \in V2!Sid, ratchet'[v][r] # None
               PROVE  Shut(v, ratchet[v][r].state)'
    BY DEF Forgotten
  <2>1. PICK old \in V2!Row : v # u /\ ratchet'[v][r] = old /\ ratchet[v][r] = old /\ old # None
    BY <1>10
  <2>2. Shut(v, old.state)
    BY <2>1 DEF Forgotten
  <2>3. Shut(v, old.state)'
    BY <1>1, <1>5, <2>1, <2>2 DEF Shut
  <2> QED
    BY <2>1, <2>3
<1>16. V2!OnlyFirstFlightReopens'
  <2> SUFFICES ASSUME NEW k \in written, NEW v \in User, V2!Entry(k) \in vault'[v] \cap shredded'[v]
               PROVE  k.init /\ k.from # v
    BY <1>1 DEF V2!OnlyFirstFlightReopens
  <2>1. v # u
    BY <1>5
  <2> QED
    BY <1>5, <2>1 DEF V2!OnlyFirstFlightReopens
<1> QED
  BY <1>6, <1>7, <1>8, <1>11, <1>12, <1>13, <1>14, <1>15, <1>16

LEMMA InitRatchet ==
  ASSUME V2!Init
  PROVE  RatchetInv
<1> USE DEF V2!Init
<1>1. \A u \in User, s \in V2!Sid : ratchet[u][s] = None
  OBVIOUS
<1>2. Kinds
  BY FS_EmptySet DEF Kinds
<1>3. Numbered /\ Marked /\ OneChain /\ V2!KeyOnce
  BY DEF Numbered, Marked, OneChain, V2!KeyOnce
<1>4. Sessions /\ Separate /\ Forgotten
  BY <1>1 DEF Sessions, Separate, Unlike, Forgotten
<1>5. Secret /\ UsedStarted /\ V2!OnlyFirstFlightReopens
  BY <1>1 DEF Secret, UsedStarted, V2!OnlyFirstFlightReopens
<1> QED
  BY <1>2, <1>3, <1>4, <1>5 DEF RatchetInv

LEMMA NextRatchet ==
  ASSUME RatchetInv, V2!Next
  PROVE  RatchetInv'
<1>1. ASSUME NEW u \in User, V2!Send(u) PROVE RatchetInv'
  BY <1>1, SendStep, SealInv
<1>2. ASSUME NEW u \in User, V2!SendFirst(u) PROVE RatchetInv'
  BY <1>2, SendFirstStep, SealInv
<1>3. ASSUME NEW u \in User, V2!Shred(u) PROVE RatchetInv'
  BY <1>3, ShredInv
<1>4. ASSUME NEW u \in User, NEW m \in frames, V2!Receive(u, m) PROVE RatchetInv'
  BY <1>4, ReceiveStep, ReceiveInv
<1> QED
  BY <1>1, <1>2, <1>3, <1>4 DEF V2!Next

LEMMA StillRatchet ==
  ASSUME RatchetInv, UNCHANGED V2!vars
  PROVE  RatchetInv'
<1> USE DEF V2!vars, RatchetInv
<1>1. Kinds'
  BY DEF Kinds
<1>2. Numbered' /\ Marked' /\ OneChain' /\ V2!KeyOnce' /\ V2!OnlyFirstFlightReopens' /\ UsedStarted'
  BY DEF Numbered, Marked, OneChain, V2!KeyOnce, V2!OnlyFirstFlightReopens, UsedStarted, Known
<1>3. Sessions' /\ Separate'
  BY DEF Sessions, Separate, Unlike, Session, Own, Heard, Sending, Known
<1>4. Secret' /\ Forgotten'
  BY DEF Secret, Forgotten, Spent, Shut
<1> QED
  BY <1>1, <1>2, <1>3, <1>4

\* What the invariant is for.
LEMMA SecretForward ==
  ASSUME RatchetInv
  PROVE  V2!ForwardSecret
<1> SUFFICES ASSUME NEW u \in User, NEW s \in V2!Held(u) \ lost[u], NEW key \in used[u]
             PROVE  ~V2!Derives(ratchet[u][s].state, key)
  BY DEF V2!ForwardSecret
<1> USE DEF RatchetInv
<1>1. s \in V2!Sid /\ ratchet[u][s] # None /\ s \notin lost[u]
  BY DEF V2!Held
<1>2. PICK row \in V2!Row : row = ratchet[u][s]
  BY <1>1 DEF Kinds
<1> DEFINE st == row.state
<1>3. st \in V2!State
  BY DEF V2!Row
<1>4. Spent(u, s, st) /\ Session(u, s, row)
  BY <1>1, <1>2 DEF Secret, Sessions
<1>5. Shape(s, st) /\ st.cks = st.rk
  BY <1>4 DEF Session, Own
<1> HIDE DEF st
<1>6. key.n \in Nat /\ key.chain \in V2!KeyRoot
  BY DEF Kinds, V2!SealingKey
<1>7. V2!Keys(st) = {e.mk : e \in Entries(st.skipped)}
  BY DEF V2!Keys, Entries
<1>8. key.chain # None
  BY <1>6, NoneAssumption
<1>9. st.ns \in Nat /\ st.nr \in Nat
  BY <1>3 DEF V2!State
<1>10. ~V2!Derives(st, key)
  <2>1. CASE key.chain.sid = s
    <3>1. key.chain = st.rk => key.n < st.ns
      BY <1>4, <2>1 DEF Spent
    <3>2. key.chain = st.ckr => key.n < st.nr
      BY <1>4, <2>1 DEF Spent
    <3>3. \A e \in Entries(st.skipped) : e.mk # key
      BY <1>4, <2>1 DEF Spent
    <3>4. key \notin V2!Keys(st)
      BY <1>7, <3>3
    <3> QED
      BY <1>5, <1>6, <1>9, <3>1, <3>2, <3>4 DEF V2!Derives
  <2>2. CASE key.chain.sid # s
    <3>1. key.chain # st.rk
      BY <1>5, <2>2 DEF Shape
    <3>2. key.chain # st.ckr
      BY <1>5, <1>8, <2>2 DEF Shape
    <3>3. \A e \in Entries(st.skipped) : e.mk # key
      BY <1>5, <2>2 DEF Shape
    <3>4. key \notin V2!Keys(st)
      BY <1>7, <3>3
    <3> QED
      BY <1>5, <3>1, <3>2, <3>4 DEF V2!Derives
  <2> QED
    BY <2>1, <2>2
<1> QED
  BY <1>2, <1>10 DEF st


\* No step of SpecBoth leaves the ratchet's invariant.
LEMMA RatchetAlways == SpecBoth => []RatchetInv
<1>1. InitBoth => RatchetInv
  BY InitRatchet DEF InitBoth
<1>2. RatchetInv /\ [NextBoth]_<<protocol, vars, v2vars>> => RatchetInv'
  <2> SUFFICES ASSUME RatchetInv, [NextBoth]_<<protocol, vars, v2vars>> PROVE RatchetInv'
    OBVIOUS
  <2>1. CASE V2!Next
    BY <2>1, NextRatchet
  <2>2. CASE UNCHANGED v2vars
    <3>1. UNCHANGED V2!vars
      BY <2>2 DEF v2vars, V2!vars
    <3> QED
      BY <3>1, StillRatchet
  <2> QED
    BY <2>1, <2>2 DEF NextBoth, OptIn, Dispatch
<1> QED
  BY <1>1, <1>2, PTL DEF SpecBoth

\* The Double Ratchet's secrecy: however messages are lost, reordered and repeated, however
\* the two sides shred and start again, no message key seals two messages; a key once used
\* cannot be derived again from what the device holds, but for a session it shredded; and of
\* what was shredded only the first flight of a session the peer started opens again.
THEOREM KeySecrecyAlways == SpecBoth => []KeySecrecy
<1>1. RatchetInv => KeySecrecy
  BY SecretForward DEF KeySecrecy, RatchetInv
<1> QED
  BY <1>1, RatchetAlways, PTL

-----------------------------------------------------------------------------
(* What is stored keeps its size, and what is filed its message. *)

\* A row counts no more messages than there are, and keeps no more keys than it may.
Fits ==
  /\ Cardinality(written) <= MaxRatcheted /\ started <= MaxInits /\ shreds \in 0..MaxShreds
  /\ \A u \in User, s \in V2!Sid : ratchet[u][s] # None =>
       /\ ratchet[u][s].total <= Cardinality(written)
       /\ Len(ratchet[u][s].state.skipped) <= MaxStored

\* A message not lost by its sender is one that its row counts, and alone in its slot;
\* a filed one is of a session held or lost.
Counted ==
  /\ \A m \in written : m.sid \notin lost[m.from] =>
       ratchet[m.from][m.sid] # None /\ m.ctr < ratchet[m.from][m.sid].total
  /\ \A m, k \in written : V2!SlotOf(m) = V2!SlotOf(k) => m = k \/ m.sid \in lost[m.from]
  /\ \A u \in User : \A e \in vault[u] :
       \E m \in written : e = V2!Entry(m) /\ (ratchet[u][m.sid] # None \/ m.sid \in lost[u])

\* A chain is sealed on under one pair.
OnePair ==
  /\ \A m, k \in written : m.key.chain = k.key.chain => m.dh = k.dh
  /\ \A u \in User, s \in V2!Sid : ratchet[u][s] # None =>
       \A m \in written : m.key.chain = ratchet[u][s].state.rk => m.dh = ratchet[u][s].state.dhs

LedgerInv == RatchetInv /\ Fits /\ Counted /\ OnePair

\* A sealed message, with the row before it and the row after.
LEMMA SealRows ==
  ASSUME RatchetInv, NEW u \in User, NEW s \in V2!Sid, NEW row \in V2!Row, NEW m \in V2!Message,
         NEW new \in V2!Row, Sealing(u, s, row, m, new), Continuing(u, s, row) \/ Starting(u, s, row)
  PROVE  /\ ratchet'[u][s] = new /\ new # None
         /\ \A v \in User, r \in V2!Sid : v # u \/ r # s => ratchet'[v][r] = ratchet[v][r]
         /\ m \notin written /\ written' = written \cup {m}
         /\ Cardinality(written) \in Nat /\ Cardinality(written)' = Cardinality(written) + 1
         /\ lost' = lost
         /\ \A v \in User : \A e \in vault'[v] : e \in vault[v] \/ (v = u /\ e = V2!Entry(m))
         /\ started' \in {started, s} /\ started \in Nat
         /\ Starting(u, s, row) => \A k \in written : k.sid # s /\ k.key.chain.sid # s
<1>1. Grown /\ Ready(u, s, row) /\ Seals(u, s, row, m, new)
  BY DEF Sealing
<1>2. /\ ratchet' = [ratchet EXCEPT ![u][s] = new] /\ lost' = lost
      /\ vault' = [vault EXCEPT ![u] = V2!Stored(u, m)] /\ written' = written \cup {m}
  BY <1>1 DEF Seals
<1>3. Kinds
  BY DEF RatchetInv
<1>4. /\ ratchet'[u][s] = new
      /\ \A v \in User, r \in V2!Sid : v # u \/ r # s => ratchet'[v][r] = ratchet[v][r]
  BY <1>2, <1>3 DEF Kinds
<1>5. new # None
  BY NoneAssumption
<1>6. m \notin written /\ Cardinality(written) \in Nat /\ Cardinality(written)' = Cardinality(written) + 1
  BY <1>1, SealNumbered
<1>7. \A v \in User : \A e \in vault'[v] : e \in vault[v] \/ (v = u /\ e = V2!Entry(m))
  BY <1>2, <1>3, StoredFiled DEF Kinds
<1>8. started' \in {started, s} /\ started \in Nat
  BY <1>3 DEF Continuing, Starting, Kinds
<1>9. Starting(u, s, row) => \A k \in written : k.sid # s /\ k.key.chain.sid # s
  <2>1. \A k \in written : k.key.chain.sid = k.sid /\ k.sid <= started /\ k.sid \in Nat
    <3>1. \A k \in written : k \in V2!Message /\ k.key.chain.sid = k.sid /\ k.sid <= started
      BY DEF RatchetInv, Marked, Kinds
    <3>2. V2!Sid \subseteq Nat
      BY Bounds DEF V2!Sid
    <3> QED
      BY <3>1, <3>2 DEF V2!Message
  <2> QED
    BY <1>8, <2>1 DEF Starting
<1> QED
  BY <1>2, <1>4, <1>5, <1>6, <1>7, <1>8, <1>9

LEMMA SealLedger ==
  ASSUME LedgerInv, NEW u \in User, NEW s \in V2!Sid, NEW row \in V2!Row, NEW m \in V2!Message,
         NEW new \in V2!Row, Sealing(u, s, row, m, new), Continuing(u, s, row) \/ Starting(u, s, row)
  PROVE  Fits' /\ Counted' /\ OnePair'
<1>1. RatchetInv /\ Fits /\ Counted /\ OnePair
  BY DEF LedgerInv
<1>2. /\ ratchet'[u][s] = new /\ new # None
      /\ \A v \in User, r \in V2!Sid : v # u \/ r # s => ratchet'[v][r] = ratchet[v][r]
      /\ m \notin written /\ written' = written \cup {m}
      /\ Cardinality(written) \in Nat /\ Cardinality(written)' = Cardinality(written) + 1
      /\ lost' = lost
      /\ \A v \in User : \A e \in vault'[v] : e \in vault[v] \/ (v = u /\ e = V2!Entry(m))
      /\ started' \in {started, s} /\ started \in Nat
      /\ Starting(u, s, row) => \A k \in written : k.sid # s /\ k.key.chain.sid # s
  BY <1>1, SealRows
<1>3. /\ m.sid = s /\ m.from = u /\ m.dh = row.state.dhs /\ m.ctr = row.total
      /\ m.key.chain = row.state.rk
      /\ new.state.dhs = row.state.dhs /\ new.state.rk = row.state.rk
      /\ new.state.skipped = row.state.skipped /\ new.total = row.total + 1
      /\ shreds' = shreds /\ Cardinality(written) < MaxRatcheted
      /\ Unlike(u, s, row.state) /\ row.state.rk.sid = s
  BY DEF Sealing, Seals, Ready, Shape
<1>4. row.total \in Nat /\ new.total \in Nat /\ MaxRatcheted \in Nat /\ MaxInits \in Nat
      /\ MaxStored \in Nat /\ \A k \in V2!Message : k.ctr \in Nat /\ k.sid \in V2!Sid /\ k.from \in User
  BY Bounds DEF V2!Row, V2!Message
<1>5. \A r \in V2!Sid : r \in Nat /\ r <= MaxInits
  BY Bounds DEF V2!Sid
<1>6. /\ \A v \in User, r \in V2!Sid : ratchet[v][r] # None => ratchet[v][r] \in V2!Row
      /\ written \subseteq V2!Message
  BY <1>1 DEF RatchetInv, Kinds
<1>7. Fits'
  <2>1. Cardinality(written)' <= MaxRatcheted /\ started' <= MaxInits /\ shreds' \in 0..MaxShreds
    BY <1>1, <1>2, <1>3, <1>4, <1>5 DEF Fits
  <2> SUFFICES ASSUME NEW v \in User, NEW r \in V2!Sid, ratchet'[v][r] # None
               PROVE  /\ ratchet'[v][r].total <= Cardinality(written)'
                      /\ Len(ratchet'[v][r].state.skipped) <= MaxStored
    BY <2>1 DEF Fits
  <2>2. CASE v = u /\ r = s
    <3>1. row.total <= Cardinality(written) /\ Len(row.state.skipped) <= MaxStored
      <4>1. CASE Continuing(u, s, row)
        <5>1. ratchet[u][s] = row /\ row # None
          BY <4>1, NoneAssumption DEF Continuing
        <5> QED
          BY <1>1, <5>1 DEF Fits
      <4>2. CASE Starting(u, s, row)
        <5>1. row.total = 0 /\ row.state.skipped = <<>>
          BY <4>2 DEF Starting
        <5>2. Len(row.state.skipped) = 0
          BY <5>1, EmptySeq
        <5> QED
          BY <1>2, <1>4, <5>1, <5>2
      <4> QED
        BY <4>1, <4>2
    <3>2. new.total <= Cardinality(written)' /\ Len(new.state.skipped) <= MaxStored
      <4>1. new.total <= Cardinality(written) + 1
        BY <1>2, <1>3, <1>4, <3>1
      <4>2. Cardinality(written)' = Cardinality(written) + 1
        BY <1>2
      <4> QED
        BY <1>3, <3>1, <4>1, <4>2, Zenon
    <3>3. ratchet'[v][r] = new
      BY <1>2, <2>2
    <3> QED
      BY <3>2, <3>3, Zenon
  <2>3. CASE v # u \/ r # s
    <3>1. PICK old \in V2!Row : old = ratchet[v][r] /\ ratchet'[v][r] = old /\ old # None
      BY <1>2, <1>6, <2>3
    <3>2. old.total \in Nat /\ old.total <= Cardinality(written) /\ Len(old.state.skipped) <= MaxStored
      BY <1>1, <3>1 DEF Fits, V2!Row
    <3> QED
      BY <1>2, <3>1, <3>2
  <2> QED
    BY <2>2, <2>3
<1>8. ASSUME NEW k \in written, k.sid \notin lost[k.from], k.from = u, k.sid = s
      PROVE  k.ctr < row.total
  <2>1. Continuing(u, s, row)
    BY <1>2, <1>8
  <2> QED
    BY <1>1, <1>8, <2>1 DEF Counted, Continuing
<1>9. Counted'
  <2>1. ASSUME NEW k \in written', k.sid \notin lost'[k.from]
        PROVE  ratchet'[k.from][k.sid] # None /\ k.ctr < ratchet'[k.from][k.sid].total
    <3>1. CASE k = m
      BY <1>2, <1>3, <1>4, <3>1
    <3>2. CASE k \in written /\ k.from = u /\ k.sid = s
      BY <1>2, <1>3, <1>4, <1>6, <1>8, <2>1, <3>2
    <3>3. CASE k \in written /\ (k.from # u \/ k.sid # s)
      <4>1. ratchet[k.from][k.sid] # None /\ k.ctr < ratchet[k.from][k.sid].total
        BY <1>1, <1>2, <2>1, <3>3 DEF Counted
      <4>2. ratchet'[k.from][k.sid] = ratchet[k.from][k.sid]
        BY <1>2, <1>4, <1>6, <3>3
      <4> QED
        BY <4>1, <4>2
    <3> QED
      BY <1>2, <3>1, <3>2, <3>3
  <2>2. ASSUME NEW k \in written', NEW l \in written', V2!SlotOf(k) = V2!SlotOf(l)
        PROVE  k = l \/ k.sid \in lost'[k.from]
    <3>1. k.sid = l.sid /\ k.from = l.from /\ k.ctr = l.ctr
      BY <2>2 DEF V2!SlotOf
    <3>2. CASE k \in written /\ l \in written
      BY <1>1, <1>2, <2>2, <3>2 DEF Counted
    <3>3. CASE k = m /\ l \in written
      BY <1>2, <1>3, <1>4, <1>8, <3>1, <3>3
    <3>4. CASE k \in written /\ l = m
      BY <1>2, <1>3, <1>4, <1>8, <3>1, <3>4
    <3> QED
      BY <1>2, <3>2, <3>3, <3>4
  <2>3. ASSUME NEW v \in User, NEW e \in vault'[v]
        PROVE  \E k \in written' : e = V2!Entry(k) /\ (ratchet'[v][k.sid] # None \/ k.sid \in lost'[v])
    <3>1. CASE e \in vault[v]
      <4>1. PICK k \in written : e = V2!Entry(k) /\ (ratchet[v][k.sid] # None \/ k.sid \in lost[v])
        BY <1>1, <3>1 DEF Counted
      <4>2. ratchet[v][k.sid] # None => ratchet'[v][k.sid] # None
        BY <1>2, <1>4, <1>6
      <4> QED
        BY <1>2, <4>1, <4>2
    <3>2. CASE v = u /\ e = V2!Entry(m)
      BY <1>2, <1>3, <3>2
    <3> QED
      BY <1>2, <3>1, <3>2
  <2> QED
    BY <2>1, <2>2, <2>3 DEF Counted
<1>10. \A k \in written : k.key.chain = row.state.rk => k.dh = row.state.dhs
  <2>1. CASE Continuing(u, s, row)
    <3>1. ratchet[u][s] = row /\ row # None
      BY <2>1, NoneAssumption DEF Continuing
    <3> QED
      BY <1>1, <3>1 DEF OnePair
  <2>2. CASE Starting(u, s, row)
    BY <1>2, <1>3, <2>2
  <2> QED
    BY <2>1, <2>2
<1>11. OnePair'
  <2>1. \A k, l \in written' : k.key.chain = l.key.chain => k.dh = l.dh
    <3>1. \A k, l \in written : k.key.chain = l.key.chain => k.dh = l.dh
      BY <1>1 DEF OnePair
    <3> QED
      BY <1>2, <1>3, <1>10, <3>1
  <2>2. ASSUME NEW v \in User, NEW r \in V2!Sid, ratchet'[v][r] # None, NEW k \in written',
               k.key.chain = ratchet'[v][r].state.rk
        PROVE  k.dh = ratchet'[v][r].state.dhs
    <3>1. CASE v = u /\ r = s
      BY <1>2, <1>3, <1>10, <2>2, <3>1
    <3>2. CASE v # u \/ r # s
      <4>1. PICK old \in V2!Row : old = ratchet[v][r] /\ ratchet'[v][r] = old /\ old # None
        BY <1>2, <1>6, <2>2, <3>2
      <4>2. old.state.rk # row.state.rk
        BY <1>3, <3>2, <4>1 DEF Unlike
      <4>3. k \in written
        BY <1>2, <1>3, <2>2, <4>1, <4>2
      <4> QED
        BY <1>1, <2>2, <4>1, <4>3 DEF OnePair
    <3> QED
      BY <3>1, <3>2
  <2> QED
    BY <2>1, <2>2 DEF OnePair
<1> QED
  BY <1>7, <1>9, <1>11

\* A message received, with the row before it and the row after.
LEMMA ReceiveRows ==
  ASSUME RatchetInv, NEW u \in User, NEW row \in V2!Row, NEW m \in V2!Message,
         NEW mine \in V2!KeyPair, NEW new \in V2!Row, Receiving(u, row, m, mine, new)
  PROVE  /\ ratchet'[u][m.sid] = new /\ new # None /\ m.sid \in V2!Sid
         /\ \A v \in User, r \in V2!Sid : v # u \/ r # m.sid => ratchet'[v][r] = ratchet[v][r]
         /\ m \in written /\ m.from # u /\ UNCHANGED <<started, written, lost, shreds>>
         /\ vault'[u] = vault[u] \cup {V2!Entry(m)}
         /\ \A v \in User : v # u => vault'[v] = vault[v]
<1>1. Receives(u, row, m, mine, new)
  BY DEF Receiving
<1>2. /\ ratchet' = [ratchet EXCEPT ![u][m.sid] = new] /\ ~V2!InVault(u, m)
      /\ vault' = [vault EXCEPT ![u] = V2!Stored(u, m)]
      /\ m \in written /\ m.from # u /\ UNCHANGED <<started, written, lost, shreds>>
  BY <1>1 DEF Receives
<1>3. Kinds /\ m.sid \in V2!Sid /\ new # None
  BY NoneAssumption DEF RatchetInv, V2!Message
<1>4. /\ ratchet'[u][m.sid] = new
      /\ \A v \in User, r \in V2!Sid : v # u \/ r # m.sid => ratchet'[v][r] = ratchet[v][r]
  BY <1>2, <1>3 DEF Kinds
<1>5. V2!Stored(u, m) = vault[u] \cup {V2!Entry(m)}
  BY <1>2 DEF V2!Stored, V2!InVault
<1>6. vault'[u] = V2!Stored(u, m) /\ \A v \in User : v # u => vault'[v] = vault[v]
  BY <1>2, <1>3 DEF Kinds
<1> QED
  BY <1>2, <1>3, <1>4, <1>5, <1>6

LEMMA ReceiveLedger ==
  ASSUME LedgerInv, NEW u \in User, NEW row \in V2!Row, NEW m \in V2!Message,
         NEW mine \in V2!KeyPair, NEW new \in V2!Row, Receiving(u, row, m, mine, new)
  PROVE  Fits' /\ Counted' /\ OnePair'
<1>1. RatchetInv /\ Fits /\ Counted /\ OnePair
  BY DEF LedgerInv
<1> DEFINE s == m.sid
<1>2. /\ ratchet'[u][s] = new /\ new # None /\ s \in V2!Sid
      /\ \A v \in User, r \in V2!Sid : v # u \/ r # s => ratchet'[v][r] = ratchet[v][r]
      /\ m \in written /\ m.from # u /\ UNCHANGED <<started, written, lost, shreds>>
      /\ vault'[u] = vault[u] \cup {V2!Entry(m)}
      /\ \A v \in User : v # u => vault'[v] = vault[v]
  BY <1>1, ReceiveRows
<1> HIDE DEF s
<1>3. /\ new.total = row.total
      /\ (Len(row.state.skipped) <= MaxStored => Len(new.state.skipped) <= MaxStored)
      /\ Came(row.state, m, mine, new.state) /\ Answering(u, s, row) /\ Expecting(u, s, row)
  BY DEF Receiving, Receives, s
<1>4. /\ \A v \in User, r \in V2!Sid : ratchet[v][r] # None => ratchet[v][r] \in V2!Row
      /\ \A k \in written : k \in V2!Message /\ k.sid \in V2!Sid /\ k.from \in User
  BY <1>1 DEF RatchetInv, Kinds, V2!Message
<1>5. row.total <= Cardinality(written) /\ Len(row.state.skipped) <= MaxStored
  <2>1. CASE ratchet[u][s] = row
    <3>1. row # None
      BY NoneAssumption
    <3> QED
      BY <1>1, <1>2, <2>1, <3>1 DEF Fits
  <2>2. CASE row.state = V2!InitResponder(s, u) /\ row.total = 0
    <3>1. row.state.skipped = <<>>
      BY <2>2 DEF V2!InitResponder
    <3>2. Len(row.state.skipped) = 0
      BY <3>1, EmptySeq
    <3>3. Cardinality(written) \in Nat
      BY <1>1, FS_CardinalityType DEF RatchetInv, Kinds
    <3> QED
      BY <2>2, <3>2, <3>3, Bounds
  <2> QED
    BY <1>3, <2>1, <2>2 DEF Answering
<1>6. Fits'
  <2> SUFFICES ASSUME NEW v \in User, NEW r \in V2!Sid, ratchet'[v][r] # None
               PROVE  /\ ratchet'[v][r].total <= Cardinality(written)
                      /\ Len(ratchet'[v][r].state.skipped) <= MaxStored
    BY <1>1, <1>2 DEF Fits
  <2>1. CASE v = u /\ r = s
    BY <1>2, <1>3, <1>5, <2>1
  <2>2. CASE v # u \/ r # s
    BY <1>1, <1>2, <2>2 DEF Fits
  <2> QED
    BY <2>1, <2>2
<1>7. ASSUME NEW k \in written, k.sid \notin lost[k.from], k.from = u, k.sid = s
      PROVE  ratchet[u][s] = row
  <2>1. ratchet[u][s] # None
    BY <1>1, <1>7 DEF Counted
  <2> QED
    BY <1>3, <2>1 DEF Answering
<1>8. Counted'
  <2>1. ASSUME NEW k \in written, k.sid \notin lost[k.from]
        PROVE  ratchet'[k.from][k.sid] # None /\ k.ctr < ratchet'[k.from][k.sid].total
    <3>1. ratchet[k.from][k.sid] # None /\ k.ctr < ratchet[k.from][k.sid].total
      BY <1>1, <2>1 DEF Counted
    <3>2. CASE k.from = u /\ k.sid = s
      BY <1>2, <1>3, <1>7, <2>1, <3>1, <3>2
    <3>3. CASE k.from # u \/ k.sid # s
      BY <1>2, <1>4, <3>1, <3>3
    <3> QED
      BY <3>2, <3>3
  <2>2. \A k, l \in written : V2!SlotOf(k) = V2!SlotOf(l) => k = l \/ k.sid \in lost[k.from]
    BY <1>1 DEF Counted
  <2>3. ASSUME NEW v \in User, NEW e \in vault'[v]
        PROVE  \E k \in written : e = V2!Entry(k) /\ (ratchet'[v][k.sid] # None \/ k.sid \in lost[v])
    <3>1. CASE e \in vault[v]
      <4>1. PICK k \in written : e = V2!Entry(k) /\ (ratchet[v][k.sid] # None \/ k.sid \in lost[v])
        BY <1>1, <3>1 DEF Counted
      <4>2. ratchet[v][k.sid] # None => ratchet'[v][k.sid] # None
        BY <1>2, <1>4
      <4> QED
        BY <4>1, <4>2
    <3>2. CASE v = u /\ e = V2!Entry(m)
      BY <1>2, <3>2 DEF s
    <3> QED
      BY <1>2, <3>1, <3>2
  <2> QED
    BY <1>2, <2>1, <2>2, <2>3 DEF Counted
<1>9. ASSUME NEW k \in written, k.key.chain = new.state.rk
      PROVE  k.dh = new.state.dhs
  <2>1. row.state \in V2!State /\ new.state \in V2!State /\ k.n \in Nat
    BY <1>4 DEF V2!Row, V2!Message
  <2>2. CASE SameKeys(row.state, new.state) /\ (row.state.ckr # None \/ Entries(row.state.skipped) # {})
    <3>1. ratchet[u][s] = row
      <4>1. CASE row.state = V2!InitResponder(s, u)
        <5>1. row.state.ckr = None /\ row.state.skipped = <<>>
          BY <4>1 DEF V2!InitResponder
        <5>2. Entries(row.state.skipped) = {}
          BY <5>1 DEF Entries
        <5> QED
          BY <2>2, <5>1, <5>2
      <4> QED
        BY <1>3, <4>1 DEF Answering
    <3>2. new.state.rk = row.state.rk /\ new.state.dhs = row.state.dhs /\ row # None
      BY <2>2, NoneAssumption DEF SameKeys
    <3> QED
      BY <1>1, <1>2, <1>9, <3>1, <3>2 DEF OnePair
  <2>3. CASE FromTurn(row.state, m, mine, new.state)
    <3>1. new.state.ns = 0
      BY <2>3 DEF FromTurn
    <3>2. Sending(new.state)'
      BY <1>1, ReceivedSession DEF Receiving, Session
    <3>3. k.n < 0
      BY <1>2, <1>9, <3>1, <3>2 DEF Sending
    <3> QED
      BY <2>1, <3>3
  <2>4. FromSkipped(row.state, m, new.state) => Entries(row.state.skipped) # {}
    BY DEF FromSkipped
  <2> QED
    BY <1>3, <2>2, <2>3, <2>4 DEF Came, FromSkipped, FromChain
<1>10. OnePair'
  <2>1. \A k, l \in written : k.key.chain = l.key.chain => k.dh = l.dh
    BY <1>1 DEF OnePair
  <2>2. ASSUME NEW v \in User, NEW r \in V2!Sid, ratchet'[v][r] # None, NEW k \in written,
               k.key.chain = ratchet'[v][r].state.rk
        PROVE  k.dh = ratchet'[v][r].state.dhs
    <3>1. CASE v = u /\ r = s
      BY <1>2, <1>9, <2>2, <3>1
    <3>2. CASE v # u \/ r # s
      BY <1>1, <1>2, <2>2, <3>2 DEF OnePair
    <3> QED
      BY <3>1, <3>2
  <2> QED
    BY <1>2, <2>1, <2>2 DEF OnePair
<1> QED
  BY <1>6, <1>8, <1>10

\* What a shred leaves.
LEMMA ShredRows ==
  ASSUME RatchetInv, NEW u \in User, V2!Shred(u)
  PROVE  /\ \A v \in User, r \in V2!Sid :
              (ratchet'[v][r] = ratchet[v][r] /\ v # u) \/ (ratchet'[v][r] = None /\ v = u)
         /\ UNCHANGED <<started, written, evicted, pairs>>
         /\ \A v \in User : lost[v] \subseteq lost'[v] /\ (v # u => lost'[v] = lost[v])
         /\ \A r \in V2!Sid : ratchet[u][r] # None => r \in lost'[u]
         /\ vault'[u] = {} /\ \A v \in User : v # u => vault'[v] = vault[v]
<1>1. /\ lost' = [lost EXCEPT ![u] = @ \cup V2!Held(u)] /\ vault' = [vault EXCEPT ![u] = {}]
      /\ ratchet' = [ratchet EXCEPT ![u] = [s \in V2!Sid |-> None]]
      /\ UNCHANGED <<started, written, evicted, pairs>>
  BY DEF V2!Shred
<1>2. Kinds
  BY DEF RatchetInv
<1>3. \A v \in User, r \in V2!Sid : ratchet'[v][r] = IF v = u THEN None ELSE ratchet[v][r]
  BY <1>1, <1>2 DEF Kinds
<1>4. lost'[u] = lost[u] \cup V2!Held(u) /\ \A v \in User : v # u => lost'[v] = lost[v]
  BY <1>1, <1>2 DEF Kinds
<1>5. vault'[u] = {} /\ \A v \in User : v # u => vault'[v] = vault[v]
  BY <1>1, <1>2 DEF Kinds
<1>6. \A v \in User : lost[v] \subseteq lost'[v] /\ (v # u => lost'[v] = lost[v])
  BY <1>4
<1>7. \A r \in V2!Sid : ratchet[u][r] # None => r \in lost'[u]
  BY <1>4 DEF V2!Held
<1> QED
  BY <1>1, <1>3, <1>5, <1>6, <1>7

LEMMA ShredLedger ==
  ASSUME LedgerInv, NEW u \in User, V2!Shred(u)
  PROVE  Fits' /\ Counted' /\ OnePair'
<1>1. RatchetInv /\ Fits /\ Counted /\ OnePair
  BY DEF LedgerInv
<1>2. /\ \A v \in User, r \in V2!Sid :
           (ratchet'[v][r] = ratchet[v][r] /\ v # u) \/ (ratchet'[v][r] = None /\ v = u)
      /\ UNCHANGED <<started, written, evicted, pairs>>
      /\ \A v \in User : lost[v] \subseteq lost'[v] /\ (v # u => lost'[v] = lost[v])
      /\ \A r \in V2!Sid : ratchet[u][r] # None => r \in lost'[u]
      /\ vault'[u] = {} /\ \A v \in User : v # u => vault'[v] = vault[v]
  BY <1>1, ShredRows
<1>3. \A k \in written : k.sid \in V2!Sid /\ k.from \in User
  BY <1>1 DEF RatchetInv, Kinds, V2!Message
<1>4. Fits'
  <2>1. shreds' \in 0..MaxShreds
    BY <1>1, Bounds DEF V2!Shred, Fits
  <2> QED
    BY <1>1, <1>2, <2>1 DEF Fits
<1>5. Counted'
  <2>1. ASSUME NEW k \in written, k.sid \notin lost'[k.from]
        PROVE  ratchet'[k.from][k.sid] # None /\ k.ctr < ratchet'[k.from][k.sid].total
    <3>1. k.sid \notin lost[k.from]
      BY <1>2, <1>3, <2>1
    <3>2. ratchet[k.from][k.sid] # None /\ k.ctr < ratchet[k.from][k.sid].total
      BY <1>1, <3>1 DEF Counted
    <3>3. k.from # u
      BY <1>2, <1>3, <2>1, <3>2
    <3> QED
      BY <1>2, <1>3, <3>2, <3>3
  <2>2. \A k, l \in written : V2!SlotOf(k) = V2!SlotOf(l) => k = l \/ k.sid \in lost'[k.from]
    BY <1>1, <1>2, <1>3 DEF Counted
  <2>3. ASSUME NEW v \in User, NEW e \in vault'[v]
        PROVE  \E k \in written : e = V2!Entry(k) /\ (ratchet'[v][k.sid] # None \/ k.sid \in lost'[v])
    <3>1. v # u /\ e \in vault[v]
      BY <1>2, <2>3
    <3>2. PICK k \in written : e = V2!Entry(k) /\ (ratchet[v][k.sid] # None \/ k.sid \in lost[v])
      BY <1>1, <3>1 DEF Counted
    <3> QED
      BY <1>2, <1>3, <3>1, <3>2
  <2> QED
    BY <1>2, <2>1, <2>2, <2>3 DEF Counted
<1>6. OnePair'
  BY <1>1, <1>2 DEF OnePair
<1> QED
  BY <1>4, <1>5, <1>6

LEMMA StillLedger ==
  ASSUME LedgerInv, UNCHANGED V2!vars
  PROVE  LedgerInv'
<1>1. RatchetInv'
  BY StillRatchet DEF LedgerInv
<1>2. Fits' /\ OnePair'
  BY DEF LedgerInv, Fits, OnePair, V2!vars
<1>3. Counted'
  BY DEF LedgerInv, Counted, V2!vars
<1> QED
  BY <1>1, <1>2, <1>3 DEF LedgerInv

LEMMA InitLedger ==
  ASSUME V2!Init
  PROVE  LedgerInv
<1>1. RatchetInv
  BY InitRatchet
<1>2. \A u \in User, s \in V2!Sid : ratchet[u][s] = None
  BY DEF V2!Init
<1>3. written = {} /\ started = 0 /\ shreds = 0 /\ \A u \in User : vault[u] = {}
  BY DEF V2!Init
<1>4. Cardinality(written) = 0
  BY <1>3, FS_EmptySet
<1>5. Fits
  BY <1>2, <1>3, <1>4, Bounds DEF Fits
<1>6. Counted /\ OnePair
  BY <1>2, <1>3 DEF Counted, OnePair
<1> QED
  BY <1>1, <1>5, <1>6 DEF LedgerInv

LEMMA NextLedger ==
  ASSUME LedgerInv, V2!Next
  PROVE  LedgerInv'
<1>1. RatchetInv /\ RatchetInv'
  BY NextRatchet DEF LedgerInv
<1>2. ASSUME NEW u \in User, V2!Send(u) PROVE Fits' /\ Counted' /\ OnePair'
  BY <1>1, <1>2, SendStep, SealLedger
<1>3. ASSUME NEW u \in User, V2!SendFirst(u) PROVE Fits' /\ Counted' /\ OnePair'
  BY <1>1, <1>3, SendFirstStep, SealLedger
<1>4. ASSUME NEW u \in User, V2!Shred(u) PROVE Fits' /\ Counted' /\ OnePair'
  BY <1>4, ShredLedger
<1>5. ASSUME NEW u \in User, NEW m \in frames, V2!Receive(u, m) PROVE Fits' /\ Counted' /\ OnePair'
  BY <1>1, <1>5, ReceiveStep, ReceiveLedger
<1> QED
  BY <1>1, <1>2, <1>3, <1>4, <1>5 DEF V2!Next, LedgerInv

\* What the ledger is for.
LEMMA LedgerTyped ==
  ASSUME LedgerInv
  PROVE  V2!TypeOK /\ V2!ShownAsSealed
<1>1. RatchetInv /\ Kinds /\ Fits /\ Counted
  BY DEF LedgerInv, RatchetInv
<1>2. ASSUME NEW u \in User, NEW s \in V2!Sid, ratchet[u][s] # None
      PROVE  /\ ratchet[u][s] \in V2!Row /\ ratchet[u][s].total <= MaxRatcheted
             /\ Len(ratchet[u][s].state.skipped) <= MaxStored
  <2>1. ratchet[u][s] \in V2!Row /\ ratchet[u][s].total \in Nat
    BY <1>1, <1>2 DEF Kinds, V2!Row
  <2>2. ratchet[u][s].total <= Cardinality(written) /\ Len(ratchet[u][s].state.skipped) <= MaxStored
    BY <1>1, <1>2 DEF Fits
  <2>3. Cardinality(written) \in Nat /\ Cardinality(written) <= MaxRatcheted /\ MaxRatcheted \in Nat
    BY <1>1, FS_CardinalityType, Bounds DEF Kinds, Fits
  <2> QED
    BY <2>1, <2>2, <2>3
<1>3. \A u \in User : vault[u] \subseteq {V2!Entry(m) : m \in written}
  BY <1>1 DEF Counted
<1>4. started \in 0..MaxInits /\ shreds \in 0..MaxShreds
  BY <1>1, Bounds DEF Kinds, Fits
<1>5. V2!Cardinality(written) <= MaxRatcheted
  BY <1>1, SameCardinality DEF Fits
<1>6. V2!TypeOK
  BY <1>1, <1>2, <1>3, <1>4, <1>5 DEF V2!TypeOK, Kinds
<1>7. V2!ShownAsSealed
  <2> SUFFICES ASSUME NEW u \in User, NEW m \in written, NEW e \in vault[u], e.slot = V2!SlotOf(m)
               PROVE  e.text = m.text \/ m.sid \in lost[m.from]
    BY DEF V2!ShownAsSealed
  <2>1. PICK k \in written : e = V2!Entry(k)
    BY <1>3
  <2>2. e.slot = V2!SlotOf(k) /\ e.text = k.text
    BY <2>1 DEF V2!Entry
  <2>3. m = k \/ m.sid \in lost[m.from]
    BY <1>1, <2>2 DEF Counted
  <2> QED
    BY <2>2, <2>3
<1> QED
  BY <1>6, <1>7

-----------------------------------------------------------------------------
(* The two states of a session. *)

\* A user's state of a session: the one held, or that of a responder who has yet to start.
Now(u, s) == IF ratchet[u][s] = None THEN V2!InitResponder(s, u) ELSE ratchet[u][s].state

\* One side is a step ahead: it receives on the chain the other sends on, and sends on the
\* one the other will come to.
Leads(x, y) ==
  /\ x.rk = V2!Derive(y.rk, x.dhs, y.dhs)
  /\ x.dhr = y.dhs /\ x.ckr = y.cks /\ x.dhs # y.dhr
  /\ x.nr <= y.ns
  /\ \A m \in written : /\ m.key.chain = x.rk => m.pn = x.pn
                        /\ m.key.chain = y.ckr => m.n < x.pn

Leader(u, v, s) ==
  \E x, y \in V2!State :
    x = Now(u, s) /\ y = Now(v, s) /\ ratchet[u][s] # None /\ Leads(x, y)

\* Of a session neither has shredded, one of the two is ahead.
Linked ==
  \A s \in V2!Sid, u, v \in User :
    u # v /\ s <= started /\ s \notin lost[u] /\ s \notin lost[v] =>
      Leader(u, v, s) \/ Leader(v, u, s)

\* What a message was sealed on, its sender sends on or has left behind.
Behind ==
  \A m \in written : m.sid \notin lost[m.from] =>
    \E x \in V2!State :
      /\ x = Now(m.from, m.sid)
      /\ m.key.chain = x.rk \/ Len(m.key.chain.path) < Len(x.rk.path)

\* The reader has the message, or will come by its key: it is among the skipped ones, on
\* the receiving chain or on the one the sender is ahead by.
Awaited(v, m) ==
  \/ V2!Entry(m) \in vault[v]
  \/ m.key \in evicted[v]
  \/ \E x, y \in V2!State :
       /\ x = Now(m.from, m.sid) /\ y = Now(v, m.sid)
       /\ \/ m.key \in V2!Keys(y)
          \/ m.key.chain = y.ckr /\ y.nr <= m.n
          \/ m.key.chain = x.rk /\ Leads(x, y)

Reach ==
  \A m \in written, v \in User :
    v # m.from /\ m.sid \notin lost[v] /\ m.sid \notin lost[m.from] => Awaited(v, m)

LinkInv == LedgerInv /\ Linked /\ Behind /\ Reach

\* A responder's state before it has heard anything.
Quiet(u, s, x) ==
  /\ x = V2!InitResponder(s, u)
  /\ x.rk = V2!Root(s, <<>>) /\ x.rk.sid = s /\ Len(x.rk.path) = 0
  /\ x.dhs = V2!Pair(u, 0) /\ x.dhs.k = 0 /\ x.dhs.of = u
  /\ x.dhr = None /\ x.cks = None /\ x.ckr = None
  /\ x.ns = 0 /\ x.nr = 0 /\ x.pn = 0 /\ x.skipped = <<>> /\ Entries(x.skipped) = {}

LEMMA ResponderTyped ==
  ASSUME NEW s \in V2!Sid, NEW u \in User
  PROVE  \E x \in V2!State : Quiet(u, s, x)
<1> DEFINE root == V2!Root(s, <<>>)
           own == V2!Pair(u, 0)
           st == V2!InitResponder(s, u)
<1>1. root \in V2!KeyRoot /\ root.sid = s /\ Len(root.path) = 0
  BY EmptySeq DEF V2!Root, V2!KeyRoot
<1>2. own \in V2!KeyPair /\ own.of = u /\ own.k = 0
  BY DEF V2!Pair, V2!KeyPair
<1>3. st = [dhs |-> own, dhr |-> None, rk |-> root, cks |-> None, ckr |-> None,
            ns |-> 0, nr |-> 0, pn |-> 0, skipped |-> <<>>]
  BY DEF V2!InitResponder
<1> HIDE DEF root, own, st
<1>4. st \in V2!State
  <2>1. <<>> \in Seq(V2!SkippedKey)
    BY EmptySeq
  <2> QED
    BY <1>1, <1>2, <1>3, <2>1 DEF V2!State
<1>5. /\ st.rk = root /\ st.dhs = own
      /\ st.dhr = None /\ st.cks = None /\ st.ckr = None
      /\ st.ns = 0 /\ st.nr = 0 /\ st.pn = 0 /\ st.skipped = <<>>
  BY <1>3
<1>6. Entries(st.skipped) = {}
  BY <1>5 DEF Entries
<1>7. st.rk.sid = s /\ Len(st.rk.path) = 0 /\ st.dhs.k = 0 /\ st.dhs.of = u
  BY <1>1, <1>2, <1>5
<1> QED
  BY <1>4, <1>5, <1>6, <1>7 DEF root, own, st, Quiet

\* What holds of a user's state of a session, held or not.
Standing(u, s, x) ==
  /\ x = Now(u, s) /\ x.rk \in V2!KeyRoot /\ Len(x.rk.path) \in Nat
  /\ Known(x.dhs) /\ x.dhs \in V2!KeyPair /\ Shape(s, x) /\ Heard(x)
  /\ \A m \in written : m.key.chain = x.rk => m.n < x.ns /\ m.dh = x.dhs
  /\ ratchet[u][s] # None => x.cks = x.rk /\ ratchet[u][s].state = x
  /\ ratchet[u][s] = None => Quiet(u, s, x)

LEMMA NowStanding ==
  ASSUME LedgerInv, NEW u \in User, NEW s \in V2!Sid
  PROVE  \E x \in V2!State : Standing(u, s, x)
<1>1. RatchetInv /\ OnePair /\ Kinds
  BY DEF LedgerInv, RatchetInv
<1>2. CASE ratchet[u][s] # None
  <2>1. PICK row \in V2!Row : row = ratchet[u][s]
    BY <1>1, <1>2 DEF Kinds
  <2>2. PICK x \in V2!State : x = row.state
    BY DEF V2!Row
  <2>3. Session(u, s, row)
    BY <1>1, <1>2, <2>1 DEF RatchetInv, Sessions
  <2>4. /\ Shape(s, x) /\ Heard(x) /\ Known(x.dhs) /\ x.cks = x.rk
        /\ \A m \in written : m.key.chain = x.rk => m.n < x.ns
    BY <2>2, <2>3 DEF Session, Own, Sending
  <2>5. \A m \in written : m.key.chain = x.rk => m.dh = x.dhs
    BY <1>1, <1>2, <2>1, <2>2 DEF OnePair
  <2>6. x.rk \in V2!KeyRoot /\ Len(x.rk.path) \in Nat /\ x.dhs \in V2!KeyPair
    BY Lengths DEF V2!State
  <2>7. x = Now(u, s) /\ ratchet[u][s].state = x
    BY <1>2, <2>1, <2>2 DEF Now
  <2> QED
    BY <1>2, <2>4, <2>5, <2>6, <2>7 DEF Standing
<1>3. CASE ratchet[u][s] = None
  <2>0. PICK x \in V2!State : Quiet(u, s, x)
    BY ResponderTyped
  <2>1. /\ x = V2!InitResponder(s, u)
        /\ x.rk = V2!Root(s, <<>>) /\ x.rk.sid = s /\ Len(x.rk.path) = 0
        /\ x.dhs = V2!Pair(u, 0) /\ x.dhs.k = 0 /\ x.dhs.of = u
        /\ x.dhr = None /\ x.cks = None /\ x.ckr = None
        /\ x.ns = 0 /\ x.nr = 0 /\ x.pn = 0 /\ x.skipped = <<>> /\ Entries(x.skipped) = {}
    BY <2>0 DEF Quiet
  <2>2. x.rk \in V2!KeyRoot /\ Len(x.rk.path) \in Nat /\ x.dhs \in V2!KeyPair
    BY Lengths DEF V2!State
  <2>3. Known(x.dhs)
    BY <1>1, <2>1 DEF Known, Kinds
  <2>4. Shape(s, x) /\ Heard(x)
    BY <2>1 DEF Shape, Listed, Apart, Heard
  <2>5. \A m \in written : m.key.chain # x.rk
    <3>1. \A m \in written : Len(m.key.chain.path) > 0
      BY <1>1 DEF RatchetInv, Marked
    <3> QED
      BY <2>1, <3>1
  <2>6. x = Now(u, s)
    BY <1>3, <2>1 DEF Now
  <2> QED
    BY <1>3, <2>0, <2>2, <2>3, <2>4, <2>5, <2>6 DEF Standing
<1> QED
  BY <1>2, <1>3

LEMMA LeadsLonger ==
  ASSUME NEW x \in V2!State, NEW y \in V2!State, Leads(x, y)
  PROVE  /\ Len(y.rk.path) \in Nat /\ Len(x.rk.path) = Len(y.rk.path) + 1 /\ x.rk.sid = y.rk.sid
         /\ x.nr <= y.ns /\ x.dhr = y.dhs /\ x.ckr = y.cks /\ x.dhs # y.dhr
<1>1. y.rk \in V2!KeyRoot /\ x.dhs \in V2!KeyPair /\ y.dhs \in V2!KeyPair
  BY DEF V2!State
<1> QED
  BY <1>1, Derived DEF Leads

\* The lead lasts while both keep their pairs and chains.
Alike(x, z) ==
  /\ z.dhs = x.dhs /\ z.dhr = x.dhr /\ z.rk = x.rk /\ z.cks = x.cks
  /\ z.ckr = x.ckr /\ z.pn = x.pn

LEMMA LeadsKept ==
  ASSUME NEW x, NEW y, NEW x2, NEW y2, Leads(x, y),
         Alike(x, x2), Alike(y, y2), x2.nr <= y2.ns,
         \A k \in written' : \/ k \in written
                             \/ (k.key.chain = x.rk => k.pn = x.pn) /\ k.key.chain # y.ckr
  PROVE  Leads(x2, y2)'
BY DEF Leads, Alike

-----------------------------------------------------------------------------
(* Sealing keeps the two states linked and every message within reach. *)

\* The sender's state goes on by a number, the others stay.
LEMMA SealNow ==
  ASSUME LedgerInv, NEW u \in User, NEW s \in V2!Sid, NEW row \in V2!Row, NEW m \in V2!Message,
         NEW new \in V2!Row, Sealing(u, s, row, m, new),
         NEW a \in User, NEW r \in V2!Sid, NEW x \in V2!State, Standing(a, r, x),
         \/ a # u \/ r # s
         \/ Continuing(u, s, row)
  PROVE  \E z \in V2!State :
           /\ z = Now(a, r)' /\ Alike(x, z) /\ z.nr = x.nr /\ z.skipped = x.skipped
           /\ x.ns <= z.ns /\ (ratchet[a][r] # None => ratchet'[a][r] # None)
<1>1. x.ns \in Nat /\ x = Now(a, r)
  BY DEF V2!State, Standing
<1>2. ratchet' = [ratchet EXCEPT ![u][s] = new] /\ new # None /\ Kinds
  BY NoneAssumption DEF Sealing, Seals, LedgerInv, RatchetInv
<1>3. ratchet'[u][s] = new
  BY <1>2 DEF Kinds
<1>4. CASE a # u \/ r # s
  <2>1. ratchet'[a][r] = ratchet[a][r]
    BY <1>2, <1>4 DEF Kinds
  <2>2. x = Now(a, r)'
    BY <1>1, <2>1 DEF Now
  <2>3. Alike(x, x) /\ x.ns <= x.ns
    BY <1>1 DEF Alike
  <2> QED
    BY <2>1, <2>2, <2>3
<1>5. CASE a = u /\ r = s /\ Continuing(u, s, row)
  <2>1. ratchet[u][s] = row /\ row # None
    BY <1>5, NoneAssumption DEF Continuing
  <2>2. x = row.state
    BY <1>1, <1>5, <2>1 DEF Now
  <2>3. PICK z \in V2!State : z = new.state
    BY DEF V2!Row
  <2>4. z = Now(a, r)'
    BY <1>2, <1>3, <1>5, <2>3 DEF Now
  <2>5. row.state.cks = row.state.rk
    BY DEF Sealing, Ready, Own
  <2>6. Alike(x, z) /\ z.nr = x.nr /\ z.skipped = x.skipped /\ z.ns = x.ns + 1
    BY <2>2, <2>3, <2>5 DEF Sealing, Seals, Alike
  <2>7. x.ns <= z.ns
    BY <1>1, <2>6
  <2> QED
    BY <1>2, <1>3, <1>5, <2>4, <2>6, <2>7
<1> QED
  BY <1>4, <1>5

\* Who leads goes on leading.
LEMMA SealLeads ==
  ASSUME LedgerInv, NEW u \in User, NEW s \in V2!Sid, NEW row \in V2!Row, NEW m \in V2!Message,
         NEW new \in V2!Row, Sealing(u, s, row, m, new), Continuing(u, s, row) \/ Starting(u, s, row),
         NEW a \in User, NEW b \in User, NEW r \in V2!Sid, a # b,
         NEW x \in V2!State, NEW y \in V2!State, Standing(a, r, x), Standing(b, r, y), Leads(x, y)
  PROVE  \E x2, y2 \in V2!State :
           /\ x2 = Now(a, r)' /\ Alike(x, x2)
           /\ y2 = Now(b, r)' /\ Alike(y, y2) /\ y2.nr = y.nr /\ y2.skipped = y.skipped
           /\ ratchet[a][r] # None => ratchet'[a][r] # None
           /\ Leads(x2, y2)'
<1>1. Len(y.rk.path) \in Nat /\ Len(x.rk.path) = Len(y.rk.path) + 1 /\ x.nr <= y.ns
  BY LeadsLonger
<1>2. RatchetInv
  BY DEF LedgerInv
<1>3. ~(r = s /\ Starting(u, s, row))
  <2> SUFFICES ASSUME r = s, Starting(u, s, row) PROVE FALSE
    OBVIOUS
  <2>1. ratchet[a][s] = None
    <3>1. s = started + 1 /\ started \in Nat
      BY <1>2 DEF Starting, RatchetInv, Kinds
    <3>2. ratchet[a][s] # None => s <= started
      BY <1>2 DEF RatchetInv, Sessions, Session
    <3> QED
      BY <3>1, <3>2
  <2>2. Len(x.rk.path) = 0
    BY <2>1 DEF Standing, Quiet
  <2> QED
    BY <1>1, <2>2
<1>4. PICK x2 \in V2!State :
        /\ x2 = Now(a, r)' /\ Alike(x, x2) /\ x2.nr = x.nr /\ x2.skipped = x.skipped
        /\ x.ns <= x2.ns /\ (ratchet[a][r] # None => ratchet'[a][r] # None)
  BY <1>3, SealNow
<1>5. PICK y2 \in V2!State :
        /\ y2 = Now(b, r)' /\ Alike(y, y2) /\ y2.nr = y.nr /\ y2.skipped = y.skipped
        /\ y.ns <= y2.ns /\ (ratchet[b][r] # None => ratchet'[b][r] # None)
  BY <1>3, SealNow
<1>6. x2.nr <= y2.ns
  <2>1. x.nr \in Nat /\ y.ns \in Nat /\ y2.ns \in Nat
    BY DEF V2!State
  <2> QED
    BY <1>1, <1>4, <1>5, <2>1
<1>7. written' = written \cup {m} /\ m.key.chain = row.state.rk /\ m.pn = row.state.pn
      /\ row.state.rk.sid = s
  BY DEF Sealing, Seals, Ready, Shape
<1>8. x.rk.sid = r /\ y.rk.sid = r /\ (y.ckr # None => y.ckr.sid = r /\ Len(y.ckr.path) < Len(y.rk.path))
  BY DEF Standing, Shape
<1>9. m.key.chain # None /\ (y.ckr # None => Len(y.ckr.path) \in Nat)
  BY NoneAssumption, Lengths DEF V2!Message, V2!SealingKey, V2!State
<1>10. (m.key.chain = x.rk => m.pn = x.pn) /\ m.key.chain # y.ckr
  <2>1. CASE r # s
    BY <1>7, <1>8, <1>9, <2>1
  <2>2. CASE r = s
    <3>1. row.state = Now(u, s)
      <4>1. ratchet[u][s] = row /\ row # None
        BY <1>3, <2>2, NoneAssumption DEF Continuing
      <4> QED
        BY <4>1 DEF Now
    <3>2. CASE u = a
      <4>1. row.state = x
        BY <2>2, <3>1, <3>2 DEF Standing
      <4> QED
        BY <1>1, <1>7, <1>8, <1>9, <4>1
    <3>3. CASE u = b
      <4>1. row.state = y
        BY <2>2, <3>1, <3>3 DEF Standing
      <4> QED
        BY <1>1, <1>7, <1>8, <1>9, <4>1
    <3> QED
      BY <3>2, <3>3, TwoUsers
  <2> QED
    BY <2>1, <2>2
<1>11. Leads(x2, y2)'
  BY <1>4, <1>5, <1>6, <1>7, <1>10, LeadsKept
<1> QED
  BY <1>4, <1>5, <1>11

LEMMA SealLinked ==
  ASSUME LinkInv, NEW u \in User, NEW s \in V2!Sid, NEW row \in V2!Row, NEW m \in V2!Message,
         NEW new \in V2!Row, Sealing(u, s, row, m, new), Continuing(u, s, row) \/ Starting(u, s, row)
  PROVE  Linked'
<1>1. LedgerInv /\ Linked /\ RatchetInv
  BY DEF LinkInv, LedgerInv
<1>2. ASSUME NEW a \in User, NEW b \in User, NEW r \in V2!Sid, a # b, Leader(a, b, r)
      PROVE  Leader(a, b, r)'
  <2>1. PICK x, y \in V2!State :
          x = Now(a, r) /\ y = Now(b, r) /\ ratchet[a][r] # None /\ Leads(x, y)
    BY <1>2 DEF Leader
  <2>2. Standing(a, r, x) /\ Standing(b, r, y)
    BY <1>1, <2>1, NowStanding DEF Standing
  <2>3. PICK x2, y2 \in V2!State :
           /\ x2 = Now(a, r)' /\ Alike(x, x2)
           /\ y2 = Now(b, r)' /\ Alike(y, y2) /\ y2.nr = y.nr /\ y2.skipped = y.skipped
           /\ ratchet[a][r] # None => ratchet'[a][r] # None
           /\ Leads(x2, y2)'
    BY <1>1, <1>2, <2>1, <2>2, SealLeads
  <2> QED
    BY <2>1, <2>3 DEF Leader
<1>3. ASSUME NEW w \in User, w # u, Starting(u, s, row)
      PROVE  Leader(u, w, s)'
  <2>1. /\ ratchet'[u][s] = new /\ new # None
        /\ \A v \in User, r \in V2!Sid : v # u \/ r # s => ratchet'[v][r] = ratchet[v][r]
        /\ written' = written \cup {m}
        /\ \A k \in written : k.sid # s /\ k.key.chain.sid # s
    BY <1>1, <1>3, SealRows
  <2>2. ratchet[w][s] = None
    <3>1. s = started + 1 /\ started \in Nat
      BY <1>1, <1>3 DEF Starting, RatchetInv, Kinds
    <3>2. ratchet[w][s] # None => s <= started
      BY <1>1 DEF RatchetInv, Sessions, Session
    <3> QED
      BY <3>1, <3>2
  <2>3. PICK y \in V2!State : Quiet(w, s, y)
    BY ResponderTyped
  <2>4. y = Now(w, s)'
    BY <1>3, <2>1, <2>2, <2>3 DEF Now, Quiet
  <2>5. PICK x \in V2!State : x = new.state
    BY DEF V2!Row
  <2>6. x = Now(u, s)'
    BY <2>1, <2>5 DEF Now
  <2>7. w = V2!Peer(u)
    BY <1>3, PeerIsOther, TwoUsers
  <2>8. /\ x.rk = row.state.rk /\ x.dhs = row.state.dhs /\ x.dhr = row.state.dhr /\ x.ckr = row.state.ckr
        /\ x.nr = row.state.nr /\ x.pn = row.state.pn
        /\ m.key.chain = row.state.rk /\ m.pn = row.state.pn /\ row.state.rk.sid = s
    BY <2>5 DEF Sealing, Seals, Ready, Shape
  <2>9. /\ x.rk = V2!Derive(y.rk, x.dhs, y.dhs) /\ x.dhr = y.dhs /\ x.ckr = y.cks
        /\ x.nr = 0 /\ y.ns = 0 /\ y.dhr = None /\ y.ckr = None
    BY <1>3, <2>3, <2>7, <2>8 DEF Starting, Quiet
  <2>10. x.dhs # None /\ (\A k \in written' : k.key.chain # None)
    <3>1. x.dhs \in V2!KeyPair
      BY DEF V2!State
    <3>2. written' \subseteq V2!Message
      BY <1>1, <2>1 DEF RatchetInv, Kinds
    <3> QED
      BY <3>1, <3>2, NoneAssumption DEF V2!Message, V2!SealingKey
  <2>11. \A k \in written' : /\ k.key.chain = x.rk => k.pn = x.pn
                             /\ k.key.chain # y.ckr
    BY <2>1, <2>8, <2>9, <2>10
  <2>12. x.nr <= y.ns
    BY <2>9
  <2>13. Leads(x, y)'
    BY <2>9, <2>10, <2>11, <2>12 DEF Leads
  <2> QED
    BY <2>1, <2>4, <2>6, <2>13 DEF Leader
<1> SUFFICES ASSUME NEW r \in V2!Sid, NEW a \in User, NEW b \in User, a # b, r <= started',
                    r \notin lost'[a], r \notin lost'[b]
             PROVE  Leader(a, b, r)' \/ Leader(b, a, r)'
  BY DEF Linked
<1>4. lost' = lost /\ started' \in {started, s} /\ started \in Nat
  BY <1>1, SealRows
<1>5. CASE Starting(u, s, row) /\ r = s
  <2>1. a = u \/ b = u
    BY TwoUsers
  <2> QED
    BY <1>3, <1>5, <2>1
<1>6. CASE ~(Starting(u, s, row) /\ r = s)
  <2>1. r <= started
    <3>1. r \in Nat
      BY Bounds DEF V2!Sid
    <3>2. CASE Starting(u, s, row)
      BY <1>4, <1>6, <3>1, <3>2 DEF Starting
    <3>3. CASE Continuing(u, s, row)
      BY <3>3 DEF Continuing
    <3> QED
      BY <3>2, <3>3
  <2>2. Leader(a, b, r) \/ Leader(b, a, r)
    BY <1>1, <1>4, <2>1 DEF Linked
  <2> QED
    BY <1>2, <2>2
<1> QED
  BY <1>5, <1>6

LEMMA SealBehind ==
  ASSUME LinkInv, NEW u \in User, NEW s \in V2!Sid, NEW row \in V2!Row, NEW m \in V2!Message,
         NEW new \in V2!Row, Sealing(u, s, row, m, new), Continuing(u, s, row) \/ Starting(u, s, row)
  PROVE  Behind'
<1>1. LedgerInv /\ Behind /\ RatchetInv
  BY DEF LinkInv, LedgerInv
<1>2. /\ ratchet'[u][s] = new /\ new # None
      /\ written' = written \cup {m} /\ lost' = lost
      /\ Starting(u, s, row) => \A k \in written : k.sid # s /\ k.key.chain.sid # s
  BY <1>1, SealRows
<1>3. m.sid = s /\ m.from = u /\ m.key.chain = new.state.rk
  BY DEF Sealing, Seals
<1> SUFFICES ASSUME NEW k \in written', k.sid \notin lost[k.from]
             PROVE  \E x \in V2!State :
                      /\ x = Now(k.from, k.sid)'
                      /\ k.key.chain = x.rk \/ Len(k.key.chain.path) < Len(x.rk.path)
  BY <1>2 DEF Behind
<1>4. CASE k = m
  <2>1. PICK x \in V2!State : x = new.state
    BY DEF V2!Row
  <2>2. x = Now(u, s)'
    BY <1>2, <2>1 DEF Now
  <2> QED
    BY <1>3, <1>4, <2>1, <2>2
<1>5. CASE k \in written
  <2>1. PICK x \in V2!State :
          /\ x = Now(k.from, k.sid)
          /\ k.key.chain = x.rk \/ Len(k.key.chain.path) < Len(x.rk.path)
    BY <1>1, <1>5 DEF Behind
  <2>2. k.sid \in V2!Sid /\ k.from \in User
    BY <1>1, <1>5 DEF RatchetInv, Kinds, V2!Message
  <2>3. PICK a \in User, r \in V2!Sid : a = k.from /\ r = k.sid
    BY <2>2
  <2>4. Standing(a, r, x)
    BY <1>1, <2>1, <2>3, NowStanding DEF Standing
  <2>5. \/ a # u \/ r # s
        \/ Continuing(u, s, row)
    BY <1>2, <1>5, <2>3
  <2>6. PICK z \in V2!State :
           /\ z = Now(a, r)' /\ Alike(x, z) /\ z.nr = x.nr /\ z.skipped = x.skipped
           /\ x.ns <= z.ns /\ (ratchet[a][r] # None => ratchet'[a][r] # None)
    BY <1>1, <2>4, <2>5, SealNow
  <2> QED
    BY <2>1, <2>3, <2>6 DEF Alike
<1> QED
  BY <1>2, <1>4, <1>5

\* The message sealed can be opened by who waits for it.
LEMMA SealAwaited ==
  ASSUME LinkInv, NEW u \in User, NEW s \in V2!Sid, NEW row \in V2!Row, NEW m \in V2!Message,
         NEW new \in V2!Row, Sealing(u, s, row, m, new), Continuing(u, s, row) \/ Starting(u, s, row),
         NEW v \in User, v # u, s \notin lost[v], s \notin lost[u]
  PROVE  Awaited(v, m)'
<1>1. LedgerInv /\ Linked /\ RatchetInv
  BY DEF LinkInv, LedgerInv
<1>2. /\ ratchet'[u][s] = new /\ new # None /\ lost' = lost
      /\ \A a \in User, r \in V2!Sid : a # u \/ r # s => ratchet'[a][r] = ratchet[a][r]
  BY <1>1, SealRows
<1>3. /\ m.sid = s /\ m.from = u /\ m.key.chain = row.state.rk /\ m.n = row.state.ns
      /\ new.state.rk = row.state.rk /\ s <= started' /\ row.state.cks = row.state.rk
  BY DEF Sealing, Seals, Ready, Own
<1>4. PICK z \in V2!State : z = new.state
  BY DEF V2!Row
<1>5. z = Now(u, s)' /\ m.key.chain = z.rk
  BY <1>2, <1>3, <1>4 DEF Now
<1>6. ASSUME NEW y \in V2!State, y = Now(v, s)', Leads(z, y)'
      PROVE  Awaited(v, m)'
  BY <1>3, <1>5, <1>6 DEF Awaited
<1>7. CASE Continuing(u, s, row)
  <2>1. ratchet[u][s] = row /\ row # None /\ started' = started
    BY <1>7, NoneAssumption DEF Continuing
  <2>2. PICK x \in V2!State : x = row.state
    BY DEF V2!Row
  <2>3. x = Now(u, s)
    BY <2>1, <2>2 DEF Now
  <2>4. Standing(u, s, x)
    BY <1>1, <2>3, NowStanding DEF Standing
  <2>5. PICK y \in V2!State : Standing(v, s, y)
    BY <1>1, NowStanding
  <2>6. y = Now(v, s)
    BY <2>5 DEF Standing
  <2>7. Leads(x, y) \/ Leads(y, x)
    BY <1>1, <1>3, <2>1, <2>3, <2>6 DEF Linked, Leader
  <2>8. CASE Leads(x, y)
    <3>1. PICK x2, y2 \in V2!State :
           /\ x2 = Now(u, s)' /\ Alike(x, x2)
           /\ y2 = Now(v, s)' /\ Alike(y, y2) /\ y2.nr = y.nr /\ y2.skipped = y.skipped
           /\ ratchet[u][s] # None => ratchet'[u][s] # None
           /\ Leads(x2, y2)'
      BY <1>1, <2>4, <2>5, <2>8, SealLeads
    <3> QED
      BY <1>5, <1>6, <3>1
  <2>9. CASE Leads(y, x)
    <3>1. y.ckr = x.cks /\ y.nr <= x.ns
      BY <2>9, LeadsLonger
    <3>2. PICK y2 \in V2!State :
           /\ y2 = Now(v, s)' /\ Alike(y, y2) /\ y2.nr = y.nr /\ y2.skipped = y.skipped
           /\ y.ns <= y2.ns /\ (ratchet[v][s] # None => ratchet'[v][s] # None)
      BY <1>1, <2>5, SealNow
    <3>3. m.key.chain = y2.ckr /\ y2.nr <= m.n
      BY <1>3, <2>2, <3>1, <3>2 DEF Alike
    <3> QED
      BY <1>3, <1>5, <3>2, <3>3 DEF Awaited
  <2> QED
    BY <2>7, <2>8, <2>9
<1>8. CASE Starting(u, s, row)
  <2>1. Linked'
    BY SealLinked
  <2>2. Leader(u, v, s)' \/ Leader(v, u, s)'
    BY <1>2, <1>3, <2>1 DEF Linked
  <2>3. ratchet'[v][s] = None
    <3>1. s = started + 1 /\ started \in Nat
      BY <1>1, <1>8 DEF Starting, RatchetInv, Kinds
    <3>2. ratchet[v][s] # None => s <= started
      BY <1>1 DEF RatchetInv, Sessions, Session
    <3> QED
      BY <1>2, <3>1, <3>2
  <2>4. PICK x, y \in V2!State : x = Now(u, s)' /\ y = Now(v, s)' /\ Leads(x, y)'
    BY <2>2, <2>3 DEF Leader
  <2> QED
    BY <1>5, <1>6, <2>4
<1> QED
  BY <1>7, <1>8

LEMMA SealReach ==
  ASSUME LinkInv, NEW u \in User, NEW s \in V2!Sid, NEW row \in V2!Row, NEW m \in V2!Message,
         NEW new \in V2!Row, Sealing(u, s, row, m, new), Continuing(u, s, row) \/ Starting(u, s, row)
  PROVE  Reach'
<1>1. LedgerInv /\ Reach /\ RatchetInv
  BY DEF LinkInv, LedgerInv
<1>2. /\ written' = written \cup {m} /\ lost' = lost
      /\ Starting(u, s, row) => \A k \in written : k.sid # s /\ k.key.chain.sid # s
  BY <1>1, SealRows
<1>3. /\ m.sid = s /\ m.from = u /\ evicted' = evicted
      /\ vault' = [vault EXCEPT ![u] = V2!Stored(u, m)]
  BY DEF Sealing, Seals
<1> SUFFICES ASSUME NEW k \in written', NEW v \in User, v # k.from,
                    k.sid \notin lost[v], k.sid \notin lost[k.from]
             PROVE  Awaited(v, k)'
  BY <1>2 DEF Reach
<1>4. CASE k = m
  BY <1>3, <1>4, SealAwaited
<1>5. CASE k \in written
  <2>1. Awaited(v, k)
    BY <1>1, <1>5 DEF Reach
  <2>2. k.sid \in V2!Sid /\ k.from \in User
    BY <1>1, <1>5 DEF RatchetInv, Kinds, V2!Message
  <2>3. PICK a \in User, r \in V2!Sid : a = k.from /\ r = k.sid
    BY <2>2
  <2>4. CASE V2!Entry(k) \in vault[v]
    <3>1. V2!Entry(k) \in vault'[v]
      <4>1. CASE v = u
        <5>1. V2!Entry(k).slot = <<k.sid, k.from, k.ctr>> /\ V2!SlotOf(m) = <<m.sid, m.from, m.ctr>>
          BY DEF V2!Entry, V2!SlotOf
        <5>2. V2!Entry(k).slot # V2!SlotOf(m)
          BY <1>3, <4>1, <5>1
        <5>3. vault'[u] = V2!Stored(u, m)
          BY <1>1, <1>3 DEF RatchetInv, Kinds
        <5> QED
          BY <2>4, <4>1, <5>2, <5>3 DEF V2!Stored
      <4>2. CASE v # u
        BY <1>1, <1>3, <2>4, <4>2 DEF RatchetInv, Kinds
      <4> QED
        BY <4>1, <4>2
    <3> QED
      BY <3>1 DEF Awaited
  <2>5. CASE k.key \in evicted[v]
    BY <1>3, <2>5 DEF Awaited
  <2>6. ASSUME NEW x \in V2!State, NEW y \in V2!State,
               x = Now(k.from, k.sid), y = Now(v, k.sid),
               \/ k.key \in V2!Keys(y)
               \/ k.key.chain = y.ckr /\ y.nr <= k.n
               \/ k.key.chain = x.rk /\ Leads(x, y)
        PROVE  Awaited(v, k)'
    <3>1. Standing(a, r, x) /\ Standing(v, r, y)
      BY <1>1, <2>3, <2>6, NowStanding DEF Standing
    <3>2. r # s \/ Continuing(u, s, row)
      BY <1>2, <1>5, <2>3
    <3>3. CASE k.key.chain = x.rk /\ Leads(x, y)
      <4>1. PICK x2, y2 \in V2!State :
           /\ x2 = Now(a, r)' /\ Alike(x, x2)
           /\ y2 = Now(v, r)' /\ Alike(y, y2) /\ y2.nr = y.nr /\ y2.skipped = y.skipped
           /\ ratchet[a][r] # None => ratchet'[a][r] # None
           /\ Leads(x2, y2)'
        BY <1>1, <2>3, <3>1, <3>3, SealLeads
      <4>2. k.key.chain = x2.rk
        BY <3>3, <4>1 DEF Alike
      <4> QED
        BY <2>3, <4>1, <4>2 DEF Awaited
    <3>4. CASE k.key \in V2!Keys(y) \/ (k.key.chain = y.ckr /\ y.nr <= k.n)
      <4>1. PICK x2 \in V2!State :
           /\ x2 = Now(a, r)' /\ Alike(x, x2) /\ x2.nr = x.nr /\ x2.skipped = x.skipped
           /\ x.ns <= x2.ns /\ (ratchet[a][r] # None => ratchet'[a][r] # None)
        BY <1>1, <3>1, <3>2, SealNow
      <4>2. PICK y2 \in V2!State :
           /\ y2 = Now(v, r)' /\ Alike(y, y2) /\ y2.nr = y.nr /\ y2.skipped = y.skipped
           /\ y.ns <= y2.ns /\ (ratchet[v][r] # None => ratchet'[v][r] # None)
        BY <1>1, <3>1, <3>2, SealNow
      <4>3. V2!Keys(y2) = V2!Keys(y) /\ y2.ckr = y.ckr
        BY <4>2 DEF V2!Keys, Alike
      <4>4. k.key \in V2!Keys(y2) \/ (k.key.chain = y2.ckr /\ y2.nr <= k.n)
        BY <3>4, <4>2, <4>3
      <4> QED
        BY <2>3, <4>1, <4>2, <4>4 DEF Awaited
    <3> QED
      BY <2>6, <3>3, <3>4
  <2> QED
    BY <2>1, <2>4, <2>5, <2>6 DEF Awaited
<1> QED
  BY <1>2, <1>4, <1>5

-----------------------------------------------------------------------------
(* Receiving keeps them so too. *)

\* The states a received message meets: its sender's, and its reader's before and after.
Met(u, row, m, new, x, y, z) ==
  /\ Standing(m.from, m.sid, x) /\ Standing(u, m.sid, y) /\ y = row.state /\ z = new.state
  /\ x = Now(m.from, m.sid)' /\ z = Now(u, m.sid)'

LEMMA ReceiveNow ==
  ASSUME LedgerInv, NEW u \in User, NEW row \in V2!Row, NEW m \in V2!Message,
         NEW mine \in V2!KeyPair, NEW new \in V2!Row, Receiving(u, row, m, mine, new)
  PROVE  \E x, y, z \in V2!State : Met(u, row, m, new, x, y, z)
<1>1. RatchetInv
  BY DEF LedgerInv
<1>2. /\ ratchet'[u][m.sid] = new /\ new # None /\ m.sid \in V2!Sid
      /\ \A v \in User, r \in V2!Sid : v # u \/ r # m.sid => ratchet'[v][r] = ratchet[v][r]
      /\ m.from # u
  BY <1>1, ReceiveRows
<1>3. m.from \in User
  BY DEF V2!Message
<1>4. PICK x \in V2!State : Standing(m.from, m.sid, x)
  BY <1>2, <1>3, NowStanding
<1>5. PICK y \in V2!State : Standing(u, m.sid, y)
  BY <1>2, NowStanding
<1>6. PICK z \in V2!State : z = new.state
  BY DEF V2!Row
<1>7. y = row.state
  <2>1. y = Now(u, m.sid)
    BY <1>5 DEF Standing
  <2>2. CASE ratchet[u][m.sid] = row
    BY <2>1, <2>2, NoneAssumption DEF Now
  <2>3. CASE ratchet[u][m.sid] = None /\ row.state = V2!InitResponder(m.sid, u)
    BY <2>1, <2>3 DEF Now
  <2> QED
    BY <2>2, <2>3 DEF Receiving, Answering
<1>8. z = Now(u, m.sid)'
  BY <1>2, <1>6 DEF Now
<1>9. x = Now(m.from, m.sid)'
  <2>1. ratchet'[m.from][m.sid] = ratchet[m.from][m.sid]
    BY <1>2, <1>3
  <2>2. x = Now(m.from, m.sid)
    BY <1>4 DEF Standing
  <2> QED
    BY <2>1, <2>2 DEF Now
<1> QED
  BY <1>4, <1>5, <1>6, <1>7, <1>8, <1>9 DEF Met

\* A session neither has shredded.
Clean(u, m) == m.sid \notin lost[u] /\ m.sid \notin lost[m.from]

\* Only who is behind turns, and it turns to the chain the sender is ahead by.
LEMMA TurnsToLeader ==
  ASSUME LinkInv, NEW u \in User, NEW row \in V2!Row, NEW m \in V2!Message,
         NEW mine \in V2!KeyPair, NEW new \in V2!Row, Receiving(u, row, m, mine, new), Clean(u, m),
         NEW x \in V2!State, NEW y \in V2!State, NEW z \in V2!State, Met(u, row, m, new, x, y, z)
  PROVE  /\ Leads(x, y) \/ Leads(y, x)
         /\ FromTurn(y, m, mine, z) =>
              Leads(x, y) /\ ~Leads(y, x) /\ m.key.chain = x.rk /\ m.dh = x.dhs /\ m.pn = x.pn
<1>1. LedgerInv /\ Linked /\ Behind /\ RatchetInv
  BY DEF LinkInv, LedgerInv
<1>2. m \in written /\ m.from # u /\ m.sid <= started /\ m.from \in User /\ m.sid \in V2!Sid
  BY <1>1, ReceiveRows DEF V2!Message, RatchetInv, Marked
<1>3. x = Now(m.from, m.sid) /\ y = Now(u, m.sid)
  BY DEF Met, Standing
<1>4. Leads(x, y) \/ Leads(y, x)
  BY <1>1, <1>2, <1>3 DEF Linked, Leader, Clean
<1>5. ASSUME FromTurn(y, m, mine, z)
      PROVE  Leads(x, y) /\ ~Leads(y, x) /\ m.key.chain = x.rk /\ m.dh = x.dhs /\ m.pn = x.pn
  <2>1. Len(y.rk.path) \in Nat /\ Len(m.key.chain.path) = Len(y.rk.path) + 1
    BY <1>5, Turned
  <2>2. m.key.chain = x.rk \/ Len(m.key.chain.path) < Len(x.rk.path)
    BY <1>1, <1>2, <1>3 DEF Behind, Clean
  <2>3. Len(x.rk.path) \in Nat
    BY Lengths DEF V2!State
  <2>4. ~Leads(y, x)
    <3> SUFFICES ASSUME Leads(y, x) PROVE FALSE
      OBVIOUS
    <3>1. Len(y.rk.path) = Len(x.rk.path) + 1
      BY LeadsLonger
    <3> QED
      BY <2>1, <2>2, <2>3, <3>1
  <2>5. Leads(x, y)
    BY <1>4, <2>4
  <2>6. Len(x.rk.path) = Len(y.rk.path) + 1
    BY <2>5, LeadsLonger
  <2>7. m.key.chain = x.rk
    BY <2>1, <2>2, <2>6
  <2>8. m.dh = x.dhs
    BY <1>2, <2>7 DEF Met, Standing
  <2>9. m.pn = x.pn
    BY <1>2, <2>5, <2>7 DEF Leads
  <2> QED
    BY <2>4, <2>5, <2>7, <2>8, <2>9
<1> QED
  BY <1>4, <1>5

\* The lead changes hands in a turn, and only then.
LEMMA ReceiveLeads ==
  ASSUME LinkInv, NEW u \in User, NEW row \in V2!Row, NEW m \in V2!Message,
         NEW mine \in V2!KeyPair, NEW new \in V2!Row, Receiving(u, row, m, mine, new), Clean(u, m),
         NEW x \in V2!State, NEW y \in V2!State, NEW z \in V2!State, Met(u, row, m, new, x, y, z)
  PROVE  /\ Leads(y, x) => Leads(z, x)' /\ z.rk = y.rk
         /\ Leads(x, y) => \/ Leads(x, z)' /\ ~FromTurn(y, m, mine, z)
                           \/ Leads(z, x)' /\ FromTurn(y, m, mine, z)
<1>1. LedgerInv /\ RatchetInv
  BY DEF LinkInv, LedgerInv
<1>2. m \in written /\ m.from # u /\ written' = written
  BY <1>1, ReceiveRows
<1>3. FromSkipped(y, m, z) \/ FromChain(y, m, z) \/ FromTurn(y, m, mine, z)
  BY DEF Receiving, Receives, Came, Met
<1>4. FromTurn(y, m, mine, z) =>
        Leads(x, y) /\ ~Leads(y, x) /\ m.key.chain = x.rk /\ m.dh = x.dhs /\ m.pn = x.pn
  BY TurnsToLeader
<1>5. x.ns \in Nat /\ x.nr \in Nat /\ y.ns \in Nat /\ y.nr \in Nat /\ m.n \in Nat
  BY DEF V2!State, V2!Message
<1>6. Alike(x, x)
  BY DEF Alike
<1>7. \A k \in written : k.key.chain # None /\ Len(k.key.chain.path) > 0
  <2>1. \A k \in written : k \in V2!Message
    BY <1>1 DEF RatchetInv, Kinds
  <2> QED
    BY <1>1, <2>1, NoneAssumption DEF V2!Message, V2!SealingKey, RatchetInv, Marked
<1>8. /\ ratchet[m.from][m.sid] = None => x.cks = None /\ Len(x.rk.path) = 0
      /\ ratchet[m.from][m.sid] # None => x.cks = x.rk
      /\ ratchet[u][m.sid] = None => y.cks = None
      /\ ratchet[u][m.sid] # None => y.cks = y.rk
  BY DEF Met, Standing, Quiet
<1>9. CASE FromSkipped(y, m, z) \/ FromChain(y, m, z)
  <2>1. Alike(y, z) /\ z.ns = y.ns /\ z.rk = y.rk
    BY <1>9 DEF FromSkipped, FromChain, SameKeys, Alike
  <2>2. ~FromTurn(y, m, mine, z)
    BY <1>9 DEF FromSkipped, FromChain, FromTurn
  <2>3. Leads(x, y) => Leads(x, z)'
    <3> SUFFICES ASSUME Leads(x, y) PROVE Leads(x, z)'
      OBVIOUS
    <3>1. x.nr <= z.ns
      BY <2>1 DEF Leads
    <3> QED
      BY <1>2, <1>6, <2>1, <3>1, LeadsKept
  <2>4. Leads(y, x) => Leads(z, x)'
    <3> SUFFICES ASSUME Leads(y, x) PROVE Leads(z, x)'
      OBVIOUS
    <3>1. z.nr <= x.ns
      <4>1. CASE FromSkipped(y, m, z)
        BY <4>1 DEF Leads, FromSkipped
      <4>2. CASE FromChain(y, m, z)
        <5>1. m.key.chain = x.cks /\ z.nr = m.n + 1
          BY <4>2 DEF Leads, FromChain
        <5>2. m.key.chain = x.rk
          BY <1>2, <1>7, <1>8, <5>1
        <5>3. m.n < x.ns
          BY <1>2, <5>2 DEF Met, Standing
        <5> QED
          BY <1>5, <5>1, <5>3
      <4> QED
        BY <1>9, <4>1, <4>2
    <3> QED
      BY <1>2, <1>6, <2>1, <3>1, LeadsKept
  <2> QED
    BY <2>1, <2>2, <2>3, <2>4
<1>10. CASE FromTurn(y, m, mine, z)
  <2>1. Leads(x, y) /\ ~Leads(y, x) /\ m.key.chain = x.rk /\ m.dh = x.dhs
    BY <1>4, <1>10
  <2>2. /\ z.dhs = mine /\ z.dhr = x.dhs /\ z.ckr = x.rk /\ z.rk = V2!Derive(x.rk, mine, x.dhs)
        /\ z.nr = m.n + 1 /\ z.pn = y.ns
    BY <1>10, <2>1 DEF FromTurn
  <2>3. z.ckr = x.cks
    BY <1>2, <1>7, <1>8, <2>1, <2>2
  <2>4. z.dhs # x.dhr
    <3>1. x.dhr = y.dhs /\ Known(y.dhs)
      BY <2>1 DEF Leads, Met, Standing
    <3>2. ~Known(mine)
      BY DEF Receiving, Receives
    <3> QED
      BY <2>2, <3>1, <3>2
  <2>5. z.nr <= x.ns
    <3>1. m.n < x.ns
      BY <1>2, <2>1 DEF Met, Standing
    <3> QED
      BY <1>5, <2>2, <3>1
  <2>6. \A k \in written : k.key.chain # z.rk
    <3>1. Agreed(z.rk, mine)
      BY <1>10, Turned
    <3>2. \A k \in written : Agreed(k.key.chain, mine) => Known(mine)
      BY <1>1 DEF RatchetInv, Marked
    <3>3. ~Known(mine)
      BY DEF Receiving, Receives
    <3> QED
      BY <3>1, <3>2, <3>3
  <2>7. \A k \in written : k.key.chain = x.ckr => k.n < z.pn
    <3>1. x.ckr = y.cks
      BY <2>1 DEF Leads
    <3>2. \A k \in written : k.key.chain = y.cks => k.key.chain = y.rk
      BY <1>7, <1>8
    <3> QED
      BY <2>2, <3>1, <3>2 DEF Met, Standing
  <2>8. Leads(z, x)'
    BY <1>2, <2>2, <2>3, <2>4, <2>5, <2>6, <2>7 DEF Leads
  <2> QED
    BY <1>10, <2>1, <2>8
<1> QED
  BY <1>3, <1>9, <1>10

\* Every other state stays as it was.
LEMMA ReceiveOthers ==
  ASSUME LedgerInv, NEW u \in User, NEW row \in V2!Row, NEW m \in V2!Message,
         NEW mine \in V2!KeyPair, NEW new \in V2!Row, Receiving(u, row, m, mine, new),
         NEW a \in User, NEW r \in V2!Sid, a # u \/ r # m.sid, NEW x \in V2!State, x = Now(a, r)
  PROVE  x = Now(a, r)' /\ ratchet'[a][r] = ratchet[a][r]
<1>1. ratchet'[a][r] = ratchet[a][r]
  BY ReceiveRows DEF LedgerInv
<1> QED
  BY <1>1 DEF Now

LEMMA ReceiveLinked ==
  ASSUME LinkInv, NEW u \in User, NEW row \in V2!Row, NEW m \in V2!Message,
         NEW mine \in V2!KeyPair, NEW new \in V2!Row, Receiving(u, row, m, mine, new)
  PROVE  Linked'
<1>1. LedgerInv /\ Linked /\ RatchetInv
  BY DEF LinkInv, LedgerInv
<1>2. /\ ratchet'[u][m.sid] = new /\ new # None /\ m.sid \in V2!Sid
      /\ m \in written /\ m.from # u /\ UNCHANGED <<started, written, lost>>
  BY <1>1, ReceiveRows
<1>3. m.from \in User /\ m.sid <= started
  BY <1>1, <1>2 DEF V2!Message, RatchetInv, Marked
<1>4. ASSUME NEW a \in User, NEW b \in User, NEW r \in V2!Sid, r # m.sid, Leader(a, b, r)
      PROVE  Leader(a, b, r)'
  <2>1. PICK x, y \in V2!State :
          x = Now(a, r) /\ y = Now(b, r) /\ ratchet[a][r] # None /\ Leads(x, y)
    BY <1>4 DEF Leader
  <2>2. x = Now(a, r)' /\ ratchet'[a][r] = ratchet[a][r] /\ y = Now(b, r)'
    BY <1>1, <1>4, <2>1, ReceiveOthers
  <2>3. Leads(x, y)'
    BY <1>2, <2>1 DEF Leads
  <2> QED
    BY <2>1, <2>2, <2>3 DEF Leader
<1>5. ASSUME Clean(u, m)
      PROVE  Leader(u, m.from, m.sid)' \/ Leader(m.from, u, m.sid)'
  <2>1. PICK x, y, z \in V2!State : Met(u, row, m, new, x, y, z)
    BY <1>1, ReceiveNow
  <2>2. /\ Leads(x, y) \/ Leads(y, x)
        /\ Leads(y, x) => Leads(z, x)'
        /\ Leads(x, y) => Leads(x, z)' \/ Leads(z, x)'
    BY <1>5, <2>1, TurnsToLeader, ReceiveLeads
  <2>3. x = Now(m.from, m.sid) /\ x = Now(m.from, m.sid)' /\ z = Now(u, m.sid)'
    BY <2>1 DEF Met, Standing
  <2>4. CASE Leads(z, x)'
    BY <1>2, <2>3, <2>4 DEF Leader
  <2>5. CASE Leads(x, y) /\ Leads(x, z)'
    <3>1. ratchet'[m.from][m.sid] # None
      <4>1. ratchet'[m.from][m.sid] = ratchet[m.from][m.sid]
        BY <1>1, <1>2, <1>3, <2>3, ReceiveOthers
      <4>2. Len(x.rk.path) > 0
        <5>1. Len(x.rk.path) = Len(y.rk.path) + 1 /\ Len(y.rk.path) \in Nat
          BY <2>5, LeadsLonger
        <5> QED
          BY <5>1
      <4>3. ratchet[m.from][m.sid] = None => Len(x.rk.path) = 0
        BY <2>1 DEF Met, Standing, Quiet
      <4> QED
        BY <4>1, <4>2, <4>3
    <3> QED
      BY <2>3, <2>5, <3>1 DEF Leader
  <2> QED
    BY <2>2, <2>4, <2>5
<1> SUFFICES ASSUME NEW r \in V2!Sid, NEW a \in User, NEW b \in User, a # b, r <= started,
                    r \notin lost[a], r \notin lost[b]
             PROVE  Leader(a, b, r)' \/ Leader(b, a, r)'
  BY <1>2 DEF Linked
<1>6. CASE r # m.sid
  <2>1. Leader(a, b, r) \/ Leader(b, a, r)
    BY <1>1 DEF Linked
  <2> QED
    BY <1>4, <1>6, <2>1
<1>7. CASE r = m.sid
  <2>1. (a = u /\ b = m.from) \/ (a = m.from /\ b = u)
    <3>1. (u = a \/ u = b) /\ (m.from = a \/ m.from = b)
      BY <1>3, TwoUsers
    <3> QED
      BY <1>2, <3>1
  <2>2. Clean(u, m)
    BY <1>7, <2>1 DEF Clean
  <2> QED
    BY <1>5, <1>7, <2>1, <2>2
<1> QED
  BY <1>6, <1>7

LEMMA ReceiveBehind ==
  ASSUME LinkInv, NEW u \in User, NEW row \in V2!Row, NEW m \in V2!Message,
         NEW mine \in V2!KeyPair, NEW new \in V2!Row, Receiving(u, row, m, mine, new)
  PROVE  Behind'
<1>1. LedgerInv /\ Behind /\ RatchetInv
  BY DEF LinkInv, LedgerInv
<1>2. UNCHANGED <<written, lost>> /\ m.sid \in V2!Sid
  BY <1>1, ReceiveRows
<1> SUFFICES ASSUME NEW k \in written, k.sid \notin lost[k.from]
             PROVE  \E x \in V2!State :
                      /\ x = Now(k.from, k.sid)'
                      /\ k.key.chain = x.rk \/ Len(k.key.chain.path) < Len(x.rk.path)
  BY <1>2 DEF Behind
<1>3. k \in V2!Message
  BY <1>1 DEF RatchetInv, Kinds
<1>4. k.sid \in V2!Sid /\ k.from \in User /\ Len(k.key.chain.path) \in Nat
  BY <1>3, Lengths DEF V2!Message, V2!SealingKey
<1>5. PICK q \in V2!State :
        /\ q = Now(k.from, k.sid)
        /\ k.key.chain = q.rk \/ Len(k.key.chain.path) < Len(q.rk.path)
  BY <1>1 DEF Behind
<1>6. CASE k.from # u \/ k.sid # m.sid
  BY <1>1, <1>4, <1>5, <1>6, ReceiveOthers
<1>7. CASE k.from = u /\ k.sid = m.sid
  <2>1. PICK x, y, z \in V2!State : Met(u, row, m, new, x, y, z)
    BY <1>1, ReceiveNow
  <2>2. q = y /\ z = Now(u, m.sid)'
    BY <1>5, <1>7, <2>1 DEF Met, Standing
  <2>3. Came(y, m, mine, z)
    BY <2>1 DEF Receiving, Receives, Met
  <2>4. z.rk = y.rk \/ (Len(y.rk.path) \in Nat /\ Len(z.rk.path) = Len(y.rk.path) + 2)
    BY <2>3, Turned DEF Came, FromSkipped, FromChain, SameKeys
  <2>5. k.key.chain = z.rk \/ Len(k.key.chain.path) < Len(z.rk.path)
    BY <1>4, <1>5, <2>2, <2>4
  <2> QED
    BY <1>7, <2>2, <2>5
<1> QED
  BY <1>6, <1>7

\* A key passed over is kept or evicted.
LEMMA PassedAwaited ==
  ASSUME LedgerInv, NEW u \in User, NEW row \in V2!Row, NEW m \in V2!Message,
         NEW mine \in V2!KeyPair, NEW new \in V2!Row, Receiving(u, row, m, mine, new),
         NEW x \in V2!State, NEW y \in V2!State, NEW z \in V2!State, Met(u, row, m, new, x, y, z),
         NEW k \in written, k # m, k.from = m.from, k.sid = m.sid,
         k.key \in V2!Passed(y, m, z)
  PROVE  Awaited(u, k)'
<1>1. RatchetInv /\ m \in written
  BY ReceiveRows DEF LedgerInv
<1>2. k.key # m.key
  BY <1>1 DEF RatchetInv, V2!KeyOnce
<1>3. Saved(u, m, z, k.key)
  BY DEF Receiving, Receives, Met
<1>4. k.key \in V2!Keys(z) \/ k.key \in evicted'[u]
  BY <1>2, <1>3 DEF Saved
<1>5. x = Now(k.from, k.sid)' /\ z = Now(u, k.sid)'
  BY DEF Met
<1> QED
  BY <1>4, <1>5 DEF Awaited

\* On the chain that is read, or the one that a turn comes to, a message is at hand, read or
\* passed over.
LEMMA NumberAwaited ==
  ASSUME LedgerInv, NEW u \in User, NEW row \in V2!Row, NEW m \in V2!Message,
         NEW mine \in V2!KeyPair, NEW new \in V2!Row, Receiving(u, row, m, mine, new),
         NEW x \in V2!State, NEW y \in V2!State, NEW z \in V2!State, Met(u, row, m, new, x, y, z),
         NEW k \in written, k # m, k.from = m.from, k.sid = m.sid,
         k.key.chain = m.key.chain, m.key.chain = z.ckr, z.nr = m.n + 1,
         k.n < m.n => k.key \in V2!Passed(y, m, z)
  PROVE  Awaited(u, k)'
<1>1. RatchetInv /\ m \in written
  BY ReceiveRows DEF LedgerInv
<1>2. k.key # m.key /\ k.key.n = k.n /\ m.key.n = m.n /\ k \in V2!Message
  BY <1>1 DEF RatchetInv, V2!KeyOnce, Marked, Kinds
<1>3. k.key \in V2!SealingKey /\ m.key \in V2!SealingKey /\ k.n \in Nat /\ m.n \in Nat
  BY <1>2 DEF V2!Message
<1>4. k.n # m.n
  BY <1>2, <1>3 DEF V2!SealingKey
<1>5. CASE k.n < m.n
  BY <1>5, PassedAwaited
<1>6. CASE m.n < k.n
  <2>1. k.key.chain = z.ckr /\ z.nr <= k.n
    BY <1>3, <1>6
  <2>2. x = Now(k.from, k.sid)' /\ z = Now(u, k.sid)'
    BY DEF Met
  <2> QED
    BY <2>1, <2>2 DEF Awaited
<1> QED
  BY <1>3, <1>4, <1>5, <1>6

\* Of what the sender of m has sealed, all is still within reach.
LEMMA ReceiveAwaited ==
  ASSUME LinkInv, NEW u \in User, NEW row \in V2!Row, NEW m \in V2!Message,
         NEW mine \in V2!KeyPair, NEW new \in V2!Row, Receiving(u, row, m, mine, new), Clean(u, m),
         NEW x \in V2!State, NEW y \in V2!State, NEW z \in V2!State, Met(u, row, m, new, x, y, z),
         NEW k \in written, k # m, k.from = m.from, k.sid = m.sid,
         \/ k.key \in V2!Keys(y)
         \/ k.key.chain = y.ckr /\ y.nr <= k.n
         \/ k.key.chain = x.rk /\ Leads(x, y)
  PROVE  Awaited(u, k)'
<1>1. LedgerInv /\ RatchetInv /\ m \in written
  BY ReceiveRows DEF LinkInv, LedgerInv
<1>2. k.key.n = k.n /\ k \in V2!Message /\ m.key.n = m.n
  BY <1>1 DEF RatchetInv, Marked, Kinds
<1>3. k.key \in V2!SealingKey /\ k.n \in Nat /\ m.n \in Nat /\ m.pn \in Nat /\ y.nr \in Nat
  BY <1>2 DEF V2!Message, V2!State
<1>4. k.key = V2!MessageKey(k.key.chain, k.n)
  BY <1>2, <1>3 DEF V2!SealingKey, V2!MessageKey
<1>5. FromSkipped(y, m, z) \/ FromChain(y, m, z) \/ FromTurn(y, m, mine, z)
  BY DEF Receiving, Receives, Came, Met
<1>6. x = Now(k.from, k.sid)' /\ z = Now(u, k.sid)'
  BY DEF Met
<1>7. CASE k.key \in V2!Keys(y)
  <2>1. k.key \in V2!Passed(y, m, z)
    BY <1>7 DEF V2!Passed
  <2> QED
    BY <1>1, <2>1, PassedAwaited
<1>8. CASE k.key.chain = y.ckr /\ y.nr <= k.n
  <2>1. CASE FromSkipped(y, m, z)
    <3>1. k.key.chain = z.ckr /\ z.nr <= k.n
      BY <1>8, <2>1 DEF FromSkipped, SameKeys
    <3> QED
      BY <1>6, <3>1 DEF Awaited
  <2>2. CASE FromChain(y, m, z)
    <3>1. /\ V2!SkippedAt(y, m) = {} /\ m.dh = y.dhr /\ m.key.chain = y.ckr
          /\ z.ckr = y.ckr /\ z.nr = m.n + 1
      BY <2>2 DEF FromChain, SameKeys
    <3>2. k.n < m.n => k.key \in V2!Passed(y, m, z)
      <4> SUFFICES ASSUME k.n < m.n PROVE k.key \in V2!Passed(y, m, z)
        OBVIOUS
      <4>1. k.n \in {j \in y.nr..m.n : j < m.n}
        BY <1>3, <1>8
      <4>2. k.key = V2!MessageKey(y.ckr, k.n)
        BY <1>4, <1>8
      <4> QED
        BY <3>1, <4>1, <4>2 DEF V2!Passed
    <3> QED
      BY <1>1, <1>8, <3>1, <3>2, NumberAwaited
  <2>3. CASE FromTurn(y, m, mine, z)
    <3>1. Leads(x, y) /\ m.pn = x.pn /\ V2!SkippedAt(y, m) = {} /\ m.dh # y.dhr
      BY <2>3, TurnsToLeader DEF FromTurn
    <3>2. k.n < m.pn
      BY <1>8, <3>1 DEF Leads
    <3>3. k.n \in {j \in y.nr..m.pn : j < m.pn}
      BY <1>3, <1>8, <3>2
    <3>4. k.key = V2!MessageKey(y.ckr, k.n)
      BY <1>4, <1>8
    <3>5. k.key \in V2!Passed(y, m, z)
      BY <3>1, <3>3, <3>4 DEF V2!Passed
    <3> QED
      BY <1>1, <3>5, PassedAwaited
  <2> QED
    BY <1>5, <2>1, <2>2, <2>3
<1>9. CASE k.key.chain = x.rk /\ Leads(x, y)
  <2>1. CASE FromTurn(y, m, mine, z)
    <3>1. m.key.chain = x.rk
      BY <2>1, TurnsToLeader
    <3>2. z.ckr = m.key.chain /\ z.nr = m.n + 1 /\ V2!SkippedAt(y, m) = {} /\ m.dh # y.dhr
      BY <2>1 DEF FromTurn
    <3>3. k.n < m.n => k.key \in V2!Passed(y, m, z)
      <4> SUFFICES ASSUME k.n < m.n PROVE k.key \in V2!Passed(y, m, z)
        OBVIOUS
      <4>1. k.n \in {j \in 0..m.n : j < m.n /\ m.dh # y.dhr}
        BY <1>3, <3>2
      <4>2. k.key = V2!MessageKey(z.ckr, k.n)
        BY <1>4, <1>9, <3>1, <3>2
      <4> QED
        BY <3>2, <4>1, <4>2 DEF V2!Passed
    <3> QED
      BY <1>1, <1>9, <3>1, <3>2, <3>3, NumberAwaited
  <2>2. CASE ~FromTurn(y, m, mine, z)
    <3>1. Leads(x, z)'
      BY <1>9, <2>2, ReceiveLeads
    <3> QED
      BY <1>6, <1>9, <3>1 DEF Awaited
  <2> QED
    BY <2>1, <2>2
<1> QED
  BY <1>7, <1>8, <1>9

\* And so is all that its reader has sealed.
LEMMA ReaderAwaited ==
  ASSUME LinkInv, NEW u \in User, NEW row \in V2!Row, NEW m \in V2!Message,
         NEW mine \in V2!KeyPair, NEW new \in V2!Row, Receiving(u, row, m, mine, new), Clean(u, m),
         NEW x \in V2!State, NEW y \in V2!State, NEW z \in V2!State, Met(u, row, m, new, x, y, z),
         NEW k \in written, k.from = u, k.sid = m.sid,
         \/ k.key \in V2!Keys(x)
         \/ k.key.chain = x.ckr /\ x.nr <= k.n
         \/ k.key.chain = y.rk /\ Leads(y, x)
  PROVE  Awaited(m.from, k)'
<1>1. z = Now(k.from, k.sid)' /\ x = Now(m.from, k.sid)'
  BY DEF Met
<1>2. CASE k.key \in V2!Keys(x) \/ (k.key.chain = x.ckr /\ x.nr <= k.n)
  BY <1>1, <1>2 DEF Awaited
<1>3. CASE k.key.chain = y.rk /\ Leads(y, x)
  <2>1. Leads(z, x)' /\ z.rk = y.rk
    BY <1>3, ReceiveLeads
  <2> QED
    BY <1>1, <1>3, <2>1 DEF Awaited
<1> QED
  BY <1>2, <1>3

LEMMA ReceiveReach ==
  ASSUME LinkInv, NEW u \in User, NEW row \in V2!Row, NEW m \in V2!Message,
         NEW mine \in V2!KeyPair, NEW new \in V2!Row, Receiving(u, row, m, mine, new)
  PROVE  Reach'
<1>1. LedgerInv /\ Reach /\ RatchetInv
  BY DEF LinkInv, LedgerInv
<1>2. /\ m.sid \in V2!Sid /\ m \in written /\ m.from # u /\ UNCHANGED <<written, lost>>
      /\ vault'[u] = vault[u] \cup {V2!Entry(m)}
      /\ \A v \in User : v # u => vault'[v] = vault[v]
  BY <1>1, ReceiveRows
<1>3. \A v \in User : evicted[v] \subseteq evicted'[v]
  BY DEF Receiving, Receives
<1> SUFFICES ASSUME NEW k \in written, NEW v \in User, v # k.from,
                    k.sid \notin lost[v], k.sid \notin lost[k.from]
             PROVE  Awaited(v, k)'
  BY <1>2 DEF Reach
<1>4. k \in V2!Message
  BY <1>1 DEF RatchetInv, Kinds
<1>5. k.sid \in V2!Sid /\ k.from \in User /\ m.from \in User
  BY <1>4 DEF V2!Message
<1>6. Awaited(v, k)
  BY <1>1 DEF Reach
<1>7. CASE V2!Entry(k) \in vault[v]
  BY <1>2, <1>7 DEF Awaited
<1>8. CASE k.key \in evicted[v]
  BY <1>3, <1>8 DEF Awaited
<1>9. CASE k = m
  <2>1. v = u
    BY <1>2, <1>5, <1>9, TwoUsers
  <2> QED
    BY <1>2, <1>9, <2>1 DEF Awaited
<1>10. ASSUME k # m, NEW p \in V2!State, NEW q \in V2!State,
              p = Now(k.from, k.sid), q = Now(v, k.sid),
              \/ k.key \in V2!Keys(q)
              \/ k.key.chain = q.ckr /\ q.nr <= k.n
              \/ k.key.chain = p.rk /\ Leads(p, q)
       PROVE  Awaited(v, k)'
  <2>1. CASE k.sid # m.sid
    <3>1. p = Now(k.from, k.sid)' /\ q = Now(v, k.sid)'
      BY <1>1, <1>5, <1>10, <2>1, ReceiveOthers
    <3>2. Leads(p, q) => Leads(p, q)'
      BY <1>2 DEF Leads
    <3> QED
      BY <1>10, <3>1, <3>2 DEF Awaited
  <2>2. CASE k.sid = m.sid
    <3>1. PICK x, y, z \in V2!State : Met(u, row, m, new, x, y, z)
      BY <1>1, ReceiveNow
    <3>2. x = Now(m.from, m.sid) /\ y = Now(u, m.sid)
      BY <3>1 DEF Met, Standing
    <3>3. (v = u /\ k.from = m.from) \/ (v = m.from /\ k.from = u)
      <4>1. (u = v \/ u = k.from) /\ (m.from = v \/ m.from = k.from)
        BY <1>5, TwoUsers
      <4> QED
        BY <1>2, <4>1
    <3>4. Clean(u, m)
      BY <2>2, <3>3 DEF Clean
    <3>5. CASE v = u /\ k.from = m.from
      <4>1. p = x /\ q = y
        BY <1>10, <2>2, <3>2, <3>5
      <4>2. \/ k.key \in V2!Keys(y)
            \/ k.key.chain = y.ckr /\ y.nr <= k.n
            \/ k.key.chain = x.rk /\ Leads(x, y)
        BY <1>10, <4>1
      <4> QED
        BY <1>10, <2>2, <3>1, <3>4, <3>5, <4>2, ReceiveAwaited
    <3>6. CASE v = m.from /\ k.from = u
      <4>1. p = y /\ q = x
        BY <1>10, <2>2, <3>2, <3>6
      <4>2. \/ k.key \in V2!Keys(x)
            \/ k.key.chain = x.ckr /\ x.nr <= k.n
            \/ k.key.chain = y.rk /\ Leads(y, x)
        BY <1>10, <4>1
      <4> QED
        BY <2>2, <3>1, <3>4, <3>6, <4>2, ReaderAwaited
    <3> QED
      BY <3>3, <3>5, <3>6
  <2> QED
    BY <2>1, <2>2
<1> QED
  BY <1>6, <1>7, <1>8, <1>9, <1>10 DEF Awaited

-----------------------------------------------------------------------------
(* Shredding, and the induction. *)

LEMMA ShredLink ==
  ASSUME LinkInv, NEW u \in User, V2!Shred(u)
  PROVE  Linked' /\ Behind' /\ Reach'
<1>1. LedgerInv /\ Linked /\ Behind /\ Reach /\ RatchetInv /\ Counted
  BY DEF LinkInv, LedgerInv
<1>2. /\ \A v \in User, r \in V2!Sid :
           (ratchet'[v][r] = ratchet[v][r] /\ v # u) \/ (ratchet'[v][r] = None /\ v = u)
      /\ UNCHANGED <<started, written, evicted, pairs>>
      /\ \A v \in User : lost[v] \subseteq lost'[v] /\ (v # u => lost'[v] = lost[v])
      /\ \A r \in V2!Sid : ratchet[u][r] # None => r \in lost'[u]
      /\ vault'[u] = {} /\ \A v \in User : v # u => vault'[v] = vault[v]
  BY <1>1, ShredRows
<1>3. \A k \in written : k \in V2!Message /\ k.sid \in V2!Sid /\ k.from \in User
  BY <1>1 DEF RatchetInv, Kinds, V2!Message
\* A session a user has not shredded is as it was.
<1>4. ASSUME NEW a \in User, NEW r \in V2!Sid, r \notin lost'[a], NEW x \in V2!State, x = Now(a, r)
      PROVE  x = Now(a, r)' /\ ratchet'[a][r] = ratchet[a][r]
  <2>1. ratchet'[a][r] = ratchet[a][r]
    BY <1>2, <1>4
  <2> QED
    BY <1>4, <2>1 DEF Now
<1>5. Linked'
  <2> SUFFICES ASSUME NEW r \in V2!Sid, NEW a \in User, NEW b \in User, a # b, r <= started,
                      r \notin lost'[a], r \notin lost'[b]
               PROVE  Leader(a, b, r)' \/ Leader(b, a, r)'
    BY <1>2 DEF Linked
  <2>1. Leader(a, b, r) \/ Leader(b, a, r)
    BY <1>1, <1>2 DEF Linked
  <2>2. ASSUME NEW c \in User, NEW d \in User, r \notin lost'[c], r \notin lost'[d], Leader(c, d, r)
        PROVE  Leader(c, d, r)'
    <3>1. PICK x, y \in V2!State :
            x = Now(c, r) /\ y = Now(d, r) /\ ratchet[c][r] # None /\ Leads(x, y)
      BY <2>2 DEF Leader
    <3>2. x = Now(c, r)' /\ ratchet'[c][r] = ratchet[c][r] /\ y = Now(d, r)'
      BY <1>4, <2>2, <3>1
    <3>3. Leads(x, y)'
      BY <1>2, <3>1 DEF Leads
    <3> QED
      BY <3>1, <3>2, <3>3 DEF Leader
  <2> QED
    BY <2>1, <2>2
<1>6. Behind'
  <2> SUFFICES ASSUME NEW k \in written, k.sid \notin lost'[k.from]
               PROVE  \E x \in V2!State :
                        /\ x = Now(k.from, k.sid)'
                        /\ k.key.chain = x.rk \/ Len(k.key.chain.path) < Len(x.rk.path)
    BY <1>2 DEF Behind
  <2>1. k.sid \notin lost[k.from]
    BY <1>2, <1>3
  <2>2. PICK x \in V2!State :
          /\ x = Now(k.from, k.sid)
          /\ k.key.chain = x.rk \/ Len(k.key.chain.path) < Len(x.rk.path)
    BY <1>1, <2>1 DEF Behind
  <2>3. x = Now(k.from, k.sid)'
    BY <1>3, <1>4, <2>2
  <2> QED
    BY <2>2, <2>3
<1>7. Reach'
  <2> SUFFICES ASSUME NEW k \in written, NEW v \in User, v # k.from,
                      k.sid \notin lost'[v], k.sid \notin lost'[k.from]
               PROVE  Awaited(v, k)'
    BY <1>2 DEF Reach
  <2>1. Awaited(v, k)
    BY <1>1, <1>2, <1>3 DEF Reach
  <2>2. CASE V2!Entry(k) \in vault[v]
    <3>1. PICK l \in written :
            V2!Entry(k) = V2!Entry(l) /\ (ratchet[v][l.sid] # None \/ l.sid \in lost[v])
      BY <1>1, <2>2 DEF Counted
    <3>2. l.sid = k.sid
      <4>1. V2!Entry(k).slot = <<k.sid, k.from, k.ctr>> /\ V2!Entry(l).slot = <<l.sid, l.from, l.ctr>>
        BY DEF V2!Entry, V2!SlotOf
      <4> QED
        BY <3>1, <4>1
    <3>3. v # u
      BY <1>2, <1>3, <3>1, <3>2
    <3> QED
      BY <1>2, <2>2, <3>3 DEF Awaited
  <2>3. CASE k.key \in evicted[v]
    BY <1>2, <2>3 DEF Awaited
  <2>4. ASSUME NEW x \in V2!State, NEW y \in V2!State,
               x = Now(k.from, k.sid), y = Now(v, k.sid),
               \/ k.key \in V2!Keys(y)
               \/ k.key.chain = y.ckr /\ y.nr <= k.n
               \/ k.key.chain = x.rk /\ Leads(x, y)
        PROVE  Awaited(v, k)'
    <3>1. x = Now(k.from, k.sid)' /\ y = Now(v, k.sid)'
      BY <1>3, <1>4, <2>4
    <3>2. Leads(x, y) => Leads(x, y)'
      BY <1>2 DEF Leads
    <3> QED
      BY <2>4, <3>1, <3>2 DEF Awaited
  <2> QED
    BY <2>1, <2>2, <2>3, <2>4 DEF Awaited
<1> QED
  BY <1>5, <1>6, <1>7

LEMMA StillLink ==
  ASSUME LinkInv, UNCHANGED V2!vars
  PROVE  LinkInv'
<1>1. LedgerInv'
  BY StillLedger DEF LinkInv
<1>2. UNCHANGED <<ratchet, written, started, lost, vault, evicted>>
  BY DEF V2!vars
<1>3. Linked'
  BY <1>2 DEF LinkInv, Linked, Leader, Leads, Now
<1>4. Behind'
  BY <1>2 DEF LinkInv, Behind, Now
<1>5. Reach'
  BY <1>2 DEF LinkInv, Reach, Awaited, Leads, Now
<1> QED
  BY <1>1, <1>3, <1>4, <1>5 DEF LinkInv

LEMMA InitLink ==
  ASSUME V2!Init
  PROVE  LinkInv
<1>1. written = {} /\ started = 0
  BY DEF V2!Init
<1>2. \A s \in V2!Sid : ~(s <= started)
  BY <1>1, Bounds DEF V2!Sid
<1> QED
  BY <1>1, <1>2, InitLedger DEF LinkInv, Linked, Behind, Reach

LEMMA NextLink ==
  ASSUME LinkInv, V2!Next
  PROVE  LinkInv'
<1>1. LedgerInv' /\ RatchetInv
  BY NextLedger DEF LinkInv, LedgerInv
<1>2. ASSUME NEW u \in User, V2!Send(u) PROVE Linked' /\ Behind' /\ Reach'
  BY <1>1, <1>2, SendStep, SealLinked, SealBehind, SealReach
<1>3. ASSUME NEW u \in User, V2!SendFirst(u) PROVE Linked' /\ Behind' /\ Reach'
  BY <1>1, <1>3, SendFirstStep, SealLinked, SealBehind, SealReach
<1>4. ASSUME NEW u \in User, V2!Shred(u) PROVE Linked' /\ Behind' /\ Reach'
  BY <1>4, ShredLink
<1>5. ASSUME NEW u \in User, NEW m \in frames, V2!Receive(u, m) PROVE Linked' /\ Behind' /\ Reach'
  BY <1>1, <1>5, ReceiveStep, ReceiveLinked, ReceiveBehind, ReceiveReach
<1> QED
  BY <1>1, <1>2, <1>3, <1>4, <1>5 DEF V2!Next, LinkInv

-----------------------------------------------------------------------------
(* What can be reached can be opened. *)

\* The state a message that is waited for finds.
LEMMA SessionFound ==
  ASSUME LedgerInv, NEW m \in written, NEW v \in User,
         NEW x \in V2!State, NEW y \in V2!State, Standing(v, m.sid, y),
         \/ m.key \in V2!Keys(y)
         \/ m.key.chain = y.ckr
         \/ m.key.chain = x.rk /\ Leads(x, y)
  PROVE  V2!SessionFor(v, m) # None /\ V2!SessionFor(v, m).state = y
<1>1. RatchetInv /\ Kinds /\ m \in V2!Message
  BY DEF LedgerInv, RatchetInv, Kinds
<1>2. m.sid \in V2!Sid
  BY <1>1 DEF V2!Message
<1>3. CASE ratchet[v][m.sid] # None
  BY <1>3 DEF Standing, V2!SessionFor
<1>4. CASE ratchet[v][m.sid] = None
  <2>1. Quiet(v, m.sid, y)
    BY <1>4 DEF Standing
  <2>2. m.key.chain # None
    BY <1>1, NoneAssumption DEF V2!Message, V2!SealingKey
  <2>3. V2!Keys(y) = {}
    BY <2>1 DEF Quiet, V2!Keys
  <2>4. m.key.chain = x.rk /\ Leads(x, y)
    BY <2>1, <2>2, <2>3 DEF Quiet
  <2>5. Len(x.rk.path) = Len(y.rk.path) + 1
    BY <2>4, LeadsLonger
  <2>6. Len(m.key.chain.path) = 1
    BY <2>1, <2>4, <2>5 DEF Quiet
  <2>7. m.init
    BY <1>1, <2>6 DEF RatchetInv, Marked
  <2>8. V2!SessionFor(v, m) = V2!Responder(v, m)
    BY <1>4, <2>7 DEF V2!SessionFor
  <2>9. PICK b \in 1..(MaxInits + 1) : b = V2!Clock(v)
    BY RatchetClockTyped
  <2>10. V2!Responder(v, m) = [state |-> y, role |-> "resp", born |-> b, total |-> 0, replied |-> TRUE]
    BY <2>1, <2>9 DEF V2!Responder, Quiet
  <2>11. V2!Responder(v, m) \in V2!Row /\ V2!Responder(v, m).state = y
    BY <2>10 DEF V2!Row
  <2>12. V2!Responder(v, m) # None
    BY <2>11, NoneAssumption
  <2> QED
    BY <2>8, <2>11, <2>12
<1> QED
  BY <1>3, <1>4

\* A key kept under a message's pair and number is the message's.
LEMMA KeptIsIts ==
  ASSUME RatchetInv, OnePair, NEW s, NEW m \in written, NEW y \in V2!State, Shape(s, y), Heard(y),
         NEW e \in Entries(y.skipped)
  PROVE  e.mk = m.key <=> e.dh = m.dh /\ e.n = m.n
<1>1. m.key.n = m.n /\ m \in V2!Message
  BY DEF RatchetInv, Marked, Kinds
<1>2. m.key \in V2!SealingKey /\ e.mk \in V2!SealingKey /\ e.mk.n = e.n
  BY <1>1, EntryTyped DEF V2!Message, Shape, Listed
<1>3. PICK k \in written : k.dh = e.dh /\ k.key.chain = e.mk.chain
  BY DEF Heard
<1>4. ASSUME e.mk = m.key PROVE e.dh = m.dh /\ e.n = m.n
  BY <1>1, <1>2, <1>3, <1>4 DEF OnePair
<1>5. ASSUME e.dh = m.dh, e.n = m.n PROVE e.mk = m.key
  <2>1. e.mk.chain = m.key.chain
    BY <1>3, <1>5 DEF RatchetInv, OneChain
  <2> QED
    BY <1>1, <1>2, <1>5, <2>1 DEF V2!SealingKey
<1> QED
  BY <1>4, <1>5

LEMMA StateOpens ==
  ASSUME LedgerInv, NEW m \in written, NEW x \in V2!State, NEW y \in V2!State, NEW v \in User,
         Standing(m.from, m.sid, x), Standing(v, m.sid, y), NEW mine \in V2!KeyPair,
         \/ m.key \in V2!Keys(y)
         \/ m.key.chain = y.ckr /\ y.nr <= m.n
         \/ m.key.chain = x.rk /\ Leads(x, y)
  PROVE  V2!Opens(y, m, mine) \/ V2!Ahead(y, m)
<1>1. RatchetInv /\ OnePair /\ m \in V2!Message /\ m.key.n = m.n
  BY DEF LedgerInv, RatchetInv, Kinds, Marked
<1>2. Shape(m.sid, y) /\ Heard(y)
  BY DEF Standing
<1>3. m.key \in V2!SealingKey /\ m.n \in Nat /\ m.pn \in Nat /\ y.nr \in Nat
  BY <1>1 DEF V2!Message, V2!State
<1>4. \A e \in Entries(y.skipped) : e.mk = m.key <=> e.dh = m.dh /\ e.n = m.n
  BY <1>1, <1>2, KeptIsIts
<1>5. CASE V2!SkippedAt(y, m) # {}
  <2>1. PICK j \in DOMAIN y.skipped : y.skipped[j].dh = m.dh /\ y.skipped[j].n = m.n
    BY <1>5 DEF V2!SkippedAt
  <2>2. y.skipped[j].mk = m.key
    BY <1>4, <2>1 DEF Entries
  <2> QED
    BY <1>5, <2>1, <2>2 DEF V2!Opens, V2!SkippedAt
<1>6. CASE V2!SkippedAt(y, m) = {}
  <2>1. m.key \notin V2!Keys(y)
    <3> SUFFICES ASSUME NEW j \in DOMAIN y.skipped, y.skipped[j].mk = m.key PROVE FALSE
      BY DEF V2!Keys
    <3>1. y.skipped[j].dh = m.dh /\ y.skipped[j].n = m.n
      BY <1>4 DEF Entries
    <3> QED
      BY <1>6, <3>1 DEF V2!SkippedAt
  <2>2. m.key = V2!MessageKey(m.key.chain, m.n)
    BY <1>1, <1>3 DEF V2!SealingKey, V2!MessageKey
  <2>3. CASE m.key.chain = y.ckr /\ y.nr <= m.n
    <3>1. y.ckr # None
      BY <1>3, <2>3, NoneAssumption DEF V2!SealingKey
    <3>2. PICK k \in written : k.dh = y.dhr /\ k.key.chain = y.ckr
      BY <1>2, <3>1 DEF Heard
    <3>3. m.dh = y.dhr
      BY <1>1, <2>3, <3>2 DEF OnePair
    <3>4. V2!Caught(y, m, mine) = V2!SkipUntil(y, m.n)
      BY <3>3 DEF V2!Caught
    <3>5. V2!SkipUntil(y, m.n).ckr = y.ckr
      BY <1>2, <1>3, SkipEffect DEF Shape, SameKeys
    <3>6. V2!MessageKey(V2!Caught(y, m, mine).ckr, m.n) = m.key
      BY <2>2, <2>3, <3>4, <3>5
    <3>7. ~(m.n < y.nr)
      BY <1>3, <2>3
    <3> QED
      BY <1>6, <3>6, <3>7 DEF V2!Opens, V2!Ahead
  <2>4. CASE m.key.chain = x.rk /\ Leads(x, y)
    <3>1. m.dh = x.dhs /\ x.dhs # y.dhr
      BY <2>4, LeadsLonger DEF Standing
    <3>2. V2!Caught(y, m, mine).ckr = V2!Derive(y.rk, y.dhs, m.dh)
      BY <1>1, <1>2, <3>1, TurnCaught
    <3>3. V2!Derive(y.rk, y.dhs, m.dh) = x.rk
      <4>1. {y.dhs, m.dh} = {x.dhs, y.dhs}
        BY <3>1
      <4> QED
        BY <2>4, <4>1 DEF Leads, V2!Derive
    <3>4. V2!MessageKey(V2!Caught(y, m, mine).ckr, m.n) = m.key
      BY <2>2, <2>4, <3>2, <3>3
    <3> QED
      BY <1>6, <3>1, <3>4 DEF V2!Opens, V2!Ahead
  <2> QED
    BY <2>1, <2>3, <2>4
<1> QED
  BY <1>5, <1>6

LEMMA LinkReadable ==
  ASSUME LinkInv
  PROVE  V2!Readable
<1>1. LedgerInv /\ Reach /\ Kinds
  BY DEF LinkInv, LedgerInv, RatchetInv
<1>2. ASSUME NEW m \in written, NEW v \in User, v = V2!Peer(m.from)
      PROVE  \/ V2!Entry(m) \in vault[v]
             \/ V2!CanOpen(v, m)
             \/ m.key \in evicted[v]
             \/ m.sid \in lost[v] \cup lost[m.from]
             \/ V2!SessionFor(v, m) # None /\ V2!Ahead(V2!SessionFor(v, m).state, m)
  <2>1. m.sid \in V2!Sid /\ m.from \in User
    BY <1>1 DEF Kinds, V2!Message
  <2>2. v # m.from
    BY <1>2, <2>1, PeerIsOther
  <2>3. CASE m.sid \in lost[v] \cup lost[m.from]
    BY <2>3
  <2>4. CASE m.sid \notin lost[v] \cup lost[m.from]
    <3>1. Awaited(v, m)
      BY <1>1, <2>2, <2>4 DEF Reach
    <3>2. ASSUME NEW x \in V2!State, NEW y \in V2!State, x = Now(m.from, m.sid), y = Now(v, m.sid),
                 \/ m.key \in V2!Keys(y)
                 \/ m.key.chain = y.ckr /\ y.nr <= m.n
                 \/ m.key.chain = x.rk /\ Leads(x, y)
          PROVE  \/ V2!CanOpen(v, m)
                 \/ V2!SessionFor(v, m) # None /\ V2!Ahead(V2!SessionFor(v, m).state, m)
      <4>1. Standing(m.from, m.sid, x) /\ Standing(v, m.sid, y)
        BY <1>1, <2>1, <3>2, NowStanding DEF Standing
      <4>2. V2!SessionFor(v, m) # None /\ V2!SessionFor(v, m).state = y
        BY <1>1, <3>2, <4>1, SessionFound
      <4>3. PICK mine \in V2!KeyPair : mine = V2!Pair(v, pairs[v] + 1)
        <5>1. pairs[v] + 1 \in Nat
          BY <1>1 DEF Kinds
        <5>2. V2!Pair(v, pairs[v] + 1) \in V2!KeyPair
          BY <5>1 DEF V2!Pair, V2!KeyPair
        <5> QED
          BY <5>2
      <4>4. V2!Opens(y, m, mine) \/ V2!Ahead(y, m)
        BY <1>1, <3>2, <4>1, StateOpens
      <4> QED
        BY <4>2, <4>3, <4>4 DEF V2!CanOpen
    <3> QED
      BY <3>1, <3>2 DEF Awaited
  <2> QED
    BY <2>3, <2>4
<1>3. \A m \in written : V2!Peer(m.from) \in User
  BY <1>1, PeerIsOther DEF Kinds, V2!Message
<1> QED
  BY <1>2, <1>3 DEF V2!Readable

-----------------------------------------------------------------------------
(* The theorems. *)

\* No step of SpecBoth parts the two sides' states, or puts a message out of reach.
LEMMA LinkAlways == SpecBoth => []LinkInv
<1>1. InitBoth => LinkInv
  BY InitLink DEF InitBoth
<1>2. LinkInv /\ [NextBoth]_<<protocol, vars, v2vars>> => LinkInv'
  <2> SUFFICES ASSUME LinkInv, [NextBoth]_<<protocol, vars, v2vars>> PROVE LinkInv'
    OBVIOUS
  <2>1. CASE V2!Next
    BY <2>1, NextLink
  <2>2. CASE UNCHANGED v2vars
    <3>1. UNCHANGED V2!vars
      BY <2>2 DEF v2vars, V2!vars
    <3> QED
      BY <3>1, StillLink
  <2> QED
    BY <2>1, <2>2 DEF NextBoth, OptIn, Dispatch
<1> QED
  BY <1>1, <1>2, PTL DEF SpecBoth

\* Messages of the Double Ratchet open however they are lost, reordered and repeated: each
\* is in its reader's vault, or opens with what the reader holds, unless it is further ahead
\* than MAX_SKIP, its key was evicted, or one of the two shredded the session; and what is
\* shown is what was sealed.
THEOREM ReadableAlways == SpecBoth => []Readable
<1>1. LinkInv => Readable
  BY LinkReadable, LedgerTyped DEF Readable, LinkInv
<1> QED
  BY <1>1, LinkAlways, PTL

\* Until the devices opt in it is the v1 sessions that step, and from then on they stand
\* still: what Spec guarantees of them holds with both protocols.
LEMMA FirstProtocol == SpecBoth => Spec
<1>1. InitBoth => Init
  BY DEF InitBoth
<1>2. [NextBoth]_<<protocol, vars, v2vars>> => [Next]_vars
  BY DEF NextBoth, OptIn, Dispatch
<1> QED
  BY <1>1, <1>2, PTL DEF SpecBoth, Spec

\* No step of SpecBoth leaves the invariant of the v1 rows.
LEMMA RowsAlways == SpecBoth => []RowInv
<1>1. InitBoth => RowInv
  BY InitRows DEF InitBoth
<1>2. RowInv /\ [NextBoth]_<<protocol, vars, v2vars>> => RowInv'
  <2> SUFFICES ASSUME RowInv, [NextBoth]_<<protocol, vars, v2vars>> PROVE RowInv'
    OBVIOUS
  <2>1. CASE Next
    BY <2>1, NextRows
  <2>2. CASE UNCHANGED vars
    BY <2>2, StillRows
  <2> QED
    BY <2>1, <2>2 DEF NextBoth, OptIn, Dispatch
<1> QED
  BY <1>1, <1>2, PTL DEF SpecBoth

\* Both protocols' state keeps its type: no user of v1 sessions ever has two to send on, but
\* for one that a decrypt or a restore brought back; a v1 row counts no further than what was
\* sealed; and a ratchet keeps at most MAX_STORED_SKIPPED keys.
THEOREM TypedAlways == SpecBoth => []Typed
<1>1. RowInv /\ LinkInv => Typed
  BY RowsAreTyped, RowsHaveOneSending, LedgerTyped DEF Typed, LinkInv
<1> QED
  BY <1>1, RowsAlways, LinkAlways, PTL
=============================================================================
