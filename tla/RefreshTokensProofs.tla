------------------------- MODULE RefreshTokensProofs -------------------------
(***************************************************************************)
(* Theorems about RefreshTokens, for every set of browsers and requests    *)
(* and every number of tokens, with or without losses and copies.          *)
(*                                                                         *)
(* Three kinds of step touch the table: a row is issued by a sign-in, a    *)
(* row is issued by a rotation, or rows only age.  The lemmas say what     *)
(* each does to the chains of the table; Induction puts them together with *)
(* what the steps do to requests and cookies.                              *)
(***************************************************************************)
EXTENDS RefreshTokens, TLAPS

\* No token and no browser is called None.
LEMMA NoneIsNeither == None \notin Token /\ None \notin Browser
BY RefreshTokensAssumption DEF Token

USE NoneIsNeither

\* No row is issued; rows age or go, but never become live or used, and locked
\* ones stay.
OnlyAges ==
  /\ UNCHANGED <<family, parent>>
  /\ row' \in [Token -> Rows]
  /\ \A t \in Token :
       /\ row'[t] = "unissued" <=> row[t] = "unissued"
       /\ row'[t] = "live" => row[t] = "live"
       /\ Consumed(t)' => Consumed(t)
       /\ row'[t] \in InTable => row[t] \in InTable
  /\ \A q \in Request :
       pc[q] = "marked" /\ row[tok[q]] \in {"live", "expired"}
         => row'[tok[q]] \in {"live", "expired"}

\* A sign-in issues n.
Founds(n) ==
  /\ row[n] = "unissued"
  /\ family' = [family EXCEPT ![n] = n]
  /\ parent' = [parent EXCEPT ![n] = None]
  /\ row' = [row EXCEPT ![n] = "live"]

\* The rotation of t issues n.
Extends(t, n) ==
  /\ row[n] = "unissued"
  /\ family' = [family EXCEPT ![n] = family[t]]
  /\ parent' = [parent EXCEPT ![n] = t]
  /\ row' = [row EXCEPT ![n] = "live", ![t] = IF @ = "live" THEN "recent" ELSE @]

\* The part of the invariant that speaks of the table alone.
TableTyped ==
  /\ row \in [Token -> Rows]
  /\ family \in [Token -> Token \cup {None}]
  /\ \A t \in Token : family[t] = None <=> row[t] = "unissued"
  /\ parent \in [Token -> Token \cup {None}]

TableInv == TableTyped /\ Chained /\ OneLast /\ ExactlyOneSuccessor

\* Rows that only age leave the chains as they are.
LEMMA AgeingKeepsTable ==
  ASSUME TableInv, OnlyAges
  PROVE  TableInv'
<1>1. TableTyped'
  BY DEF TableInv, TableTyped, OnlyAges
<1>2. Chained'
  <2>1. ASSUME NEW n \in Token, parent[n] # None
        PROVE  row'[parent[n]] \notin {"unissued", "live"}
    BY <2>1 DEF TableInv, TableTyped, Chained, OnlyAges
  <2> QED
    BY <2>1 DEF TableInv, Chained, Successor, OnlyAges
<1>3. OneLast'
  BY DEF TableInv, OneLast, Last, OnlyAges
<1>4. ExactlyOneSuccessor'
  BY DEF TableInv, ExactlyOneSuccessor, Successor, OnlyAges
<1> QED
  BY <1>1, <1>2, <1>3, <1>4 DEF TableInv

\* A sign-in starts a chain of its own.
LEMMA FoundingKeepsTable ==
  ASSUME TableInv, NEW n \in Token, Founds(n)
  PROVE  TableInv'
<1> USE DEF TableInv, TableTyped
<1>0. family[n] = None /\ parent[n] = None /\ n # None
  BY DEF Founds, Chained, Successor
<1>1. TableTyped'
  BY <1>0 DEF Founds, Rows
<1>2. \A t \in Token \ {n} : /\ family'[t] = family[t]
                             /\ parent'[t] = parent[t]
                             /\ row'[t] = row[t]
                             /\ family[t] # n
                             /\ parent[t] # n
  BY <1>0 DEF Founds, Chained, Successor
<1>3. family'[n] = n /\ parent'[n] = None /\ row'[n] = "live"
  BY DEF Founds
<1>4. Chained'
  <2>1. ASSUME NEW t \in Token, family'[t] # None
        PROVE  family'[family'[t]] = family'[t]
    BY <2>1, <1>2, <1>3 DEF Chained
  <2>2. ASSUME NEW m \in Token, parent'[m] # None
        PROVE  /\ family'[m] = family'[parent'[m]]
               /\ row'[parent'[m]] \notin {"unissued", "live"}
    BY <2>2, <1>2, <1>3 DEF Chained, Successor
  <2> QED
    BY <2>1, <2>2 DEF Chained, Successor
<1>5. OneLast'
  <2>1. ASSUME NEW t \in Token, t # n, Last(t)'  PROVE Last(t)
    BY <2>1, <1>0, <1>2 DEF Last
  <2>2. ASSUME NEW t \in Token, t # n  PROVE family'[t] # n
    BY <2>2, <1>2
  <2> QED
    BY <2>1, <2>2, <1>2, <1>3 DEF OneLast
<1>6. ExactlyOneSuccessor'
  <2>1. ASSUME NEW m \in Token, NEW k \in Token, parent'[m] # None, parent'[m] = parent'[k]
        PROVE  m = k
    BY <2>1, <1>2, <1>3 DEF ExactlyOneSuccessor
  <2>2. ASSUME NEW t \in Token, Consumed(t)'
        PROVE  \E k \in Token : Successor(k, t)'
    <3>1. t # n
      BY <2>2, <1>3 DEF Consumed
    <3>2. Consumed(t)
      BY <2>2, <3>1, <1>2 DEF Consumed
    <3>3. PICK k \in Token : Successor(k, t)
      BY <3>2 DEF ExactlyOneSuccessor
    <3>4. k # n
      BY <3>3, <1>0 DEF Successor
    <3> QED
      BY <3>1, <3>3, <3>4, <1>2 DEF Successor
  <2> QED
    BY <2>1, <2>2 DEF ExactlyOneSuccessor
<1> QED
  BY <1>1, <1>4, <1>5, <1>6

\* A rotation makes its new token the last of the chain in place of the old one.
LEMMA ExtendingKeepsTable ==
  ASSUME TableInv, NEW n \in Token, NEW t \in Token, Extends(t, n),
         Last(t), row[t] \in {"live", "expired"}
  PROVE  TableInv' /\ row'[t] \in {"recent", "expired"}
<1> USE DEF TableInv, TableTyped
<1>0. family[n] = None /\ parent[n] = None /\ n # None /\ n # t /\ t # None /\ family[t] # None
  BY DEF Extends, Chained, Successor, Last
<1>1. \A u \in Token \ {n} : /\ family'[u] = family[u]
                             /\ parent'[u] = parent[u]
                             /\ family[u] # n
                             /\ parent[u] # n
                             /\ parent[u] # t
  BY <1>0 DEF Extends, Chained, Successor, Last
<1>2. family'[n] = family[t] /\ parent'[n] = t /\ row'[n] = "live"
  BY <1>0 DEF Extends
<1>3. row'[t] = IF row[t] = "live" THEN "recent" ELSE row[t]
  BY <1>0 DEF Extends
<1>4. \A u \in Token \ {n, t} : row'[u] = row[u]
  BY DEF Extends
<1>5. row' \in [Token -> Rows]
  BY DEF Extends, Rows
<1>6. TableTyped'
  BY <1>0, <1>1, <1>2, <1>3, <1>4, <1>5 DEF Extends
<1>7. Chained'
  <2>1. ASSUME NEW u \in Token, family'[u] # None
        PROVE  family'[family'[u]] = family'[u]
    BY <2>1, <1>0, <1>1, <1>2 DEF Chained
  <2>2. ASSUME NEW m \in Token, parent'[m] # None
        PROVE  /\ family'[m] = family'[parent'[m]]
               /\ row'[parent'[m]] \notin {"unissued", "live"}
    BY <2>2, <1>0, <1>1, <1>2, <1>3, <1>4 DEF Chained, Successor
  <2> QED
    BY <2>1, <2>2 DEF Chained, Successor
<1>8. OneLast'
  <2>1. ASSUME NEW u \in Token, u # n, Last(u)'  PROVE Last(u) /\ u # t
    BY <2>1, <1>0, <1>1, <1>2 DEF Last
  <2>2. ASSUME NEW u \in Token, u # n, Last(u)'  PROVE family'[u] # family'[n]
    BY <2>1, <2>2, <1>1, <1>2 DEF OneLast
  <2>3. ASSUME NEW u \in Token, NEW v \in Token, Last(u)', Last(v)', family'[u] = family'[v]
        PROVE  u = v
    <3>1. CASE u # n /\ v # n
      BY <3>1, <2>1, <2>3, <1>1 DEF OneLast
    <3>2. CASE u = n \/ v = n
      BY <3>2, <2>2, <2>3
    <3> QED
      BY <3>1, <3>2
  <2> QED
    BY <2>3 DEF OneLast
<1>9. ExactlyOneSuccessor'
  <2>1. ASSUME NEW m \in Token, NEW k \in Token, parent'[m] # None, parent'[m] = parent'[k]
        PROVE  m = k
    BY <2>1, <1>1, <1>2 DEF ExactlyOneSuccessor
  <2>2. ASSUME NEW u \in Token, Consumed(u)'
        PROVE  \E k \in Token : Successor(k, u)'
    <3>1. CASE u = t
      BY <3>1, <1>0, <1>1, <1>2 DEF Successor
    <3>2. CASE u # t
      <4>1. u # n
        BY <2>2, <1>2 DEF Consumed
      <4>2. Consumed(u)
        BY <2>2, <3>2, <4>1, <1>4 DEF Consumed
      <4>3. PICK k \in Token : Successor(k, u)
        BY <4>2 DEF ExactlyOneSuccessor
      <4>4. k # n
        BY <4>3, <1>0 DEF Successor
      <4> QED
        BY <4>1, <4>3, <4>4, <1>1 DEF Successor
    <3> QED
      BY <3>1, <3>2
  <2> QED
    BY <2>1, <2>2 DEF ExactlyOneSuccessor
<1> QED
  BY <1>3, <1>6, <1>7, <1>8, <1>9

-----------------------------------------------------------------------------
(* The invariant holds initially and every step keeps it. *)

LEMMA Initially == Init => IInv
BY NoneIsNeither DEF Init, IInv, TypeOK, Chained, OneLast, Last, ExactlyOneSuccessor,
                     Consumed, Successor, Known, Locked, Rows, PCs

\* The part of TypeOK that speaks of requests and cookies.
RequestsTyped ==
  /\ jar \in [Browser -> Token \cup {None}]
  /\ pc \in [Request -> PCs]
  /\ by \in [Request -> Browser \cup {None}]
  /\ tok \in [Request -> Token \cup {None}]
  /\ victims \in [Request -> SUBSET Token]
  /\ answer \in [Request -> {"set", "keep", "clear"}]

StrainTyped == strain \subseteq {"late", "copied"}

LEMMA Parts == IInv <=> TableInv /\ RequestsTyped /\ StrainTyped /\ Known /\ Locked
BY DEF IInv, TypeOK, TableInv, TableTyped, RequestsTyped, StrainTyped

\* The three kinds of steps.
LEMMA SignInFounds ==
  ASSUME IInv, NEW q \in Request, NEW b \in Browser, SignIn(q, b)
  PROVE  \E n \in Token : Founds(n) /\ tok' = [tok EXCEPT ![q] = n]
BY DEF SignIn, Issue, IsNext, Founds

LEMMA RotateExtends ==
  ASSUME IInv, NEW q \in Request, Rotate(q)
  PROVE  /\ Last(tok[q]) /\ tok[q] \in Token /\ row[tok[q]] \in {"live", "expired"}
         /\ \E n \in Token : Extends(tok[q], n) /\ tok' = [tok EXCEPT ![q] = n]
<1>1. /\ Last(tok[q]) /\ tok[q] \in Token /\ row[tok[q]] \in {"live", "expired"}
      /\ family[tok[q]] # None
  BY DEF Rotate, Reply, Goto, IInv, TypeOK, Known, Locked
<1> QED
  BY <1>1 DEF Rotate, Issue, IsNext, Extends

LEMMA ExpireAges ==
  ASSUME IInv, NEW t \in Token, LeaveGrace(t) \/ Expire(t)
  PROVE  OnlyAges
<1> USE DEF IInv, TypeOK, OnlyAges, Consumed, InTable, Rows
<1>1. CASE LeaveGrace(t)
  BY <1>1 DEF LeaveGrace
<1>2. CASE Expire(t)
  <2>1. row' = [row EXCEPT ![t] = "expired"] /\ row[t] \in {"live", "recent", "old"}
    BY <1>2 DEF Expire
  <2> QED
    BY <1>2, <2>1 DEF Expire
<1> QED
  BY <1>1, <1>2

LEMMA RemovalAges ==
  ASSUME IInv, NEW gone \in SUBSET Token,
         \A t \in gone : family[t] # None,
         \A t \in gone, r \in Request : ~HoldsLock(r, t),
         row' = [t \in Token |-> IF t \in gone THEN "deleted" ELSE row[t]],
         UNCHANGED <<family, parent>>
  PROVE  OnlyAges
<1>1. \A t \in Token : row'[t] = IF t \in gone THEN "deleted" ELSE row[t]
  OBVIOUS
<1>2. ASSUME NEW q \in Request, pc[q] = "marked", row[tok[q]] \in {"live", "expired"}
      PROVE  row'[tok[q]] \in {"live", "expired"}
  <2>1. tok[q] \notin gone
    BY <1>2 DEF HoldsLock
  <2>2. tok[q] \in Token
    BY <1>2 DEF IInv, TypeOK, Known
  <2> QED
    BY <1>1, <1>2, <2>1, <2>2
<1>3. row' \in [Token -> Rows]
  BY DEF IInv, TypeOK, Rows
<1> QED
  BY <1>1, <1>2, <1>3 DEF IInv, TypeOK, OnlyAges, Consumed, InTable

LEMMA TableStep ==
  ASSUME IInv, [Next]_vars
  PROVE  \/ UNCHANGED <<row, family, parent>>
         \/ OnlyAges
         \/ \E q \in Request, b \in Browser : SignIn(q, b)
         \/ \E q \in Request : Rotate(q)
<1> USE DEF table
<1>1. CASE \E q \in Request, b \in Browser :
             Refresh(q, b) \/ Logout(q, b) \/ RevokeOthers(q, b)
               \/ \E t \in Token : RevokeSession(q, b, t) \/ RefreshCopied(q, t)
  BY <1>1 DEF Refresh, Logout, RevokeOthers, RevokeSession, RefreshCopied, Submit
<1>2. CASE \E q \in Request, t \in Token : RefreshCopied(q, t)
  BY <1>2 DEF RefreshCopied, Submit
<1>3. ASSUME NEW q \in Request,
             \/ ReadUnknown(q) \/ ReadLive(q) \/ ReadConcurrent(q) \/ ReadReused(q)
             \/ Mark(q) \/ MarkNothing(q) \/ RevokeReused(q)
             \/ Deliver(q) \/ Lose(q) \/ Fail(q)
      PROVE  UNCHANGED <<row, family, parent>>
  BY <1>3 DEF ReadUnknown, ReadLive, ReadConcurrent, ReadReused, Mark, MarkNothing,
              RevokeReused, Deliver, Lose, Fail
<1>4. ASSUME NEW q \in Request, Deleted(q)  PROVE OnlyAges
  BY <1>4, RemovalAges DEF Deleted, IInv, TypeOK, Known
<1>5. CASE SweepExpired
  <2>1. PICK gone \in SUBSET {t \in Token : row[t] \in {"old", "expired"}} :
          /\ \A t \in gone, q \in Request : ~HoldsLock(q, t)
          /\ row' = [t \in Token |-> IF t \in gone THEN "deleted" ELSE row[t]]
    BY <1>5 DEF SweepExpired
  <2>2. \A t \in gone : family[t] # None
    BY <2>1 DEF IInv, TypeOK
  <2> QED
    BY <1>5, <2>1, <2>2, RemovalAges DEF SweepExpired
<1>6. CASE \E t \in Token : LeaveGrace(t) \/ Expire(t)
  BY <1>6, ExpireAges
<1>7. CASE UNCHANGED vars
  BY <1>7 DEF vars
<1> QED
  BY <1>1, <1>2, <1>3, <1>4, <1>5, <1>6, <1>7 DEF Next, Arrive, Serve

LEMMA TableKept ==
  ASSUME IInv, [Next]_vars
  PROVE  TableInv'
<1>1. TableInv
  BY Parts
<1>2. CASE UNCHANGED <<row, family, parent>>
  BY <1>1, <1>2 DEF TableInv, TableTyped, Chained, OneLast, Last, ExactlyOneSuccessor,
                    Consumed, Successor
<1>3. CASE OnlyAges
  BY <1>1, <1>3, AgeingKeepsTable
<1>4. CASE \E q \in Request, b \in Browser : SignIn(q, b)
  BY <1>1, <1>4, SignInFounds, FoundingKeepsTable
<1>5. CASE \E q \in Request : Rotate(q)
  BY <1>1, <1>5, RotateExtends, ExtendingKeepsTable
<1> QED
  BY <1>2, <1>3, <1>4, <1>5, TableStep

LEMMA RequestsTypedKept ==
  ASSUME IInv, [Next]_vars
  PROVE  RequestsTyped'
<1> USE DEF RequestsTyped, PCs, Goto, Reply, Finish, table
<1>0. RequestsTyped /\ family \in [Token -> Token \cup {None}]
  BY Parts DEF IInv, TypeOK
<1>1. ASSUME NEW q \in Request, NEW b \in Browser,
             SignIn(q, b) \/ Refresh(q, b) \/ Logout(q, b) \/ RevokeOthers(q, b)
      PROVE  RequestsTyped'
  BY <1>0, <1>1 DEF SignIn, Refresh, Logout, RevokeOthers, Submit, Delete, RowsOf
<1>2. ASSUME NEW q \in Request, NEW t \in Token,
             RefreshCopied(q, t) \/ \E b \in Browser : RevokeSession(q, b, t)
      PROVE  RequestsTyped'
  BY <1>0, <1>2 DEF RefreshCopied, RevokeSession, Submit, Delete, RowsOf
<1>3. ASSUME NEW q \in Request,
             \/ ReadUnknown(q) \/ ReadLive(q) \/ ReadConcurrent(q) \/ ReadReused(q)
             \/ Mark(q) \/ MarkNothing(q) \/ Rotate(q) \/ RevokeReused(q)
      PROVE  RequestsTyped'
  BY <1>0, <1>3 DEF ReadUnknown, ReadLive, ReadConcurrent, ReadReused, Mark, MarkNothing,
                    Rotate, RevokeReused, Delete, RowsOf
<1>4. ASSUME NEW q \in Request, Deleted(q)  PROVE RequestsTyped'
  <2>1. {family[t] : t \in victims[q]} \subseteq Token
    BY <1>0 DEF IInv, Known
  <2> QED
    BY <1>0, <1>4, <2>1 DEF Deleted
<1>5. ASSUME NEW q \in Request, Lose(q) \/ Fail(q)  PROVE RequestsTyped'
  BY <1>0, <1>5 DEF Lose, Fail
<1>6. ASSUME NEW q \in Request, Deliver(q)  PROVE RequestsTyped'
  <2>1. CASE by[q] = None
    BY <1>0, <1>6, <2>1 DEF Deliver
  <2>2. CASE by[q] \in Browser
    <3>1. Cookie(q) \in Token \cup {None}
      BY <1>0, <2>2 DEF Cookie
    <3> QED
      BY <1>0, <1>6, <2>2, <3>1 DEF Deliver
  <2> QED
    BY <1>0, <2>1, <2>2
<1>7. CASE SweepExpired \/ \E t \in Token : LeaveGrace(t) \/ Expire(t)
  BY <1>0, <1>7 DEF SweepExpired, LeaveGrace, Expire
<1>8. CASE UNCHANGED vars
  BY <1>0, <1>8 DEF vars
<1> QED
  BY <1>1, <1>2, <1>3, <1>4, <1>5, <1>6, <1>7, <1>8 DEF Next, Arrive, Serve

\* An issued token stays issued.
LEMMA FamilyStays ==
  ASSUME IInv, [Next]_vars, NEW t \in Token, family[t] # None
  PROVE  family'[t] = family[t]
<1>1. family \in [Token -> Token \cup {None}] /\ row[t] # "unissued"
  BY DEF IInv, TypeOK
<1>2. CASE UNCHANGED <<row, family, parent>> \/ OnlyAges
  BY <1>2 DEF OnlyAges
<1>3. CASE \E q \in Request, b \in Browser : SignIn(q, b)
  BY <1>1, <1>3, SignInFounds DEF Founds
<1>4. CASE \E q \in Request : Rotate(q)
  BY <1>1, <1>4, RotateExtends DEF Extends
<1> QED
  BY <1>2, <1>3, <1>4, TableStep

LEMMA StrainTypedKept ==
  ASSUME StrainTyped, [Next]_vars
  PROVE  StrainTyped'
<1>1. ASSUME NEW q \in Request, Arrive(q)  PROVE StrainTyped'
  <2>1. CASE \E b \in Browser : SignIn(q, b) \/ Refresh(q, b)
    BY <2>1 DEF SignIn, Refresh, StrainTyped
  <2>2. CASE \E b \in Browser : Logout(q, b) \/ RevokeOthers(q, b)
    BY <2>2 DEF Logout, RevokeOthers, StrainTyped
  <2>3. CASE \E b \in Browser, t \in Token : RevokeSession(q, b, t)
    BY <2>3 DEF RevokeSession, StrainTyped
  <2>4. CASE \E t \in Token : RefreshCopied(q, t)
    BY <2>4 DEF RefreshCopied, StrainTyped
  <2> QED
    BY <1>1, <2>1, <2>2, <2>3, <2>4 DEF Arrive
<1>2. ASSUME NEW q \in Request, Serve(q) \/ Fail(q)  PROVE StrainTyped'
  BY <1>2 DEF Serve, ReadUnknown, ReadLive, ReadConcurrent, ReadReused, Mark, MarkNothing, Rotate,
              RevokeReused, Deleted, Deliver, Lose, Fail, StrainTyped
<1>3. CASE \E t \in Token : LeaveGrace(t) \/ Expire(t)
  BY <1>3 DEF LeaveGrace, Expire, StrainTyped
<1>4. CASE SweepExpired \/ UNCHANGED vars
  BY <1>4 DEF SweepExpired, vars, StrainTyped
<1> QED
  BY <1>1, <1>2, <1>3, <1>4 DEF Next

LEMMA KnownKept ==
  ASSUME IInv, [Next]_vars
  PROVE  Known'
<1> USE DEF Goto, Reply, Finish, table
<1>0. RequestsTyped /\ Known /\ RequestsTyped'
  BY Parts, RequestsTypedKept
<1>1. family \in [Token -> Token \cup {None}]
      /\ \A t \in Token : family[t] = None <=> row[t] = "unissued"
  BY DEF IInv, TypeOK
<1>2. \A t \in Token : family[t] # None => family'[t] # None
  BY FamilyStays
<1>3. ASSUME NEW q \in Request, NEW b \in Browser, SignIn(q, b)  PROVE Known'
  <2>1. PICK n \in Token : Founds(n) /\ tok' = [tok EXCEPT ![q] = n]
    BY <1>3, SignInFounds
  <2>2. family'[n] # None
    BY <1>1, <2>1 DEF Founds
  <2> QED
    BY <1>0, <1>2, <1>3, <2>1, <2>2 DEF SignIn, Known, RequestsTyped
<1>4. ASSUME NEW q \in Request, Rotate(q)  PROVE Known'
  <2>1. PICK n \in Token : Extends(tok[q], n) /\ tok' = [tok EXCEPT ![q] = n]
    BY <1>4, RotateExtends
  <2>2. family'[n] # None
    BY <1>1, <1>4, <2>1, RotateExtends DEF Extends, Last
  <2> QED
    BY <1>0, <1>2, <1>4, <2>1, <2>2 DEF Rotate, Known, RequestsTyped
<1>5. ASSUME NEW q \in Request, NEW b \in Browser, Refresh(q, b)  PROVE Known'
  BY <1>0, <1>2, <1>5 DEF Refresh, Submit, Known, RequestsTyped
<1>6. ASSUME NEW q \in Request, NEW t \in Token, RefreshCopied(q, t)  PROVE Known'
  BY <1>0, <1>1, <1>2, <1>6 DEF RefreshCopied, Submit, Known, RequestsTyped
<1>7. ASSUME NEW q \in Request, NEW b \in Browser,
             Logout(q, b) \/ RevokeOthers(q, b) \/ \E t \in Token : RevokeSession(q, b, t)
      PROVE  Known'
  BY <1>0, <1>1, <1>2, <1>7 DEF Logout, RevokeOthers, RevokeSession, Delete, RowsOf, InTable,
                                Known, RequestsTyped
<1>8. ASSUME NEW q \in Request,
             \/ ReadUnknown(q) \/ ReadLive(q) \/ ReadConcurrent(q) \/ ReadReused(q)
             \/ Mark(q) \/ MarkNothing(q) \/ RevokeReused(q)
      PROVE  Known'
  BY <1>0, <1>1, <1>2, <1>8
     DEF ReadUnknown, ReadLive, ReadConcurrent, ReadReused, Mark, MarkNothing, RevokeReused,
         Delete, RowsOf, InTable, Known, RequestsTyped
<1>9. ASSUME NEW q \in Request, Deleted(q) \/ Lose(q) \/ Fail(q)  PROVE Known'
  BY <1>0, <1>2, <1>9 DEF Deleted, Lose, Fail, Known, RequestsTyped
<1>10. ASSUME NEW q \in Request, Deliver(q)  PROVE Known'
  <2>1. CASE by[q] = None
    BY <1>0, <1>2, <1>10, <2>1 DEF Deliver, Known, RequestsTyped
  <2>2. CASE by[q] \in Browser
    <3>1. Cookie(q) # None => Cookie(q) \in Token /\ family[Cookie(q)] # None
      BY <1>0, <2>2 DEF Cookie, Known, RequestsTyped
    <3> QED
      BY <1>0, <1>2, <1>10, <2>2, <3>1 DEF Deliver, Known, RequestsTyped
  <2> QED
    BY <1>0, <2>1, <2>2 DEF RequestsTyped
<1>11. CASE SweepExpired \/ \E t \in Token : LeaveGrace(t) \/ Expire(t)
  BY <1>0, <1>2, <1>11 DEF SweepExpired, LeaveGrace, Expire, Known, RequestsTyped
<1>12. CASE UNCHANGED vars
  BY <1>0, <1>2, <1>12 DEF vars, Known, RequestsTyped
<1> QED
  BY <1>3, <1>4, <1>5, <1>6, <1>7, <1>8, <1>9, <1>10, <1>11, <1>12 DEF Next, Arrive, Serve

\* While q holds the lock on its row no other request can take it, rotate it or
\* delete it.
LEMMA LockedKept ==
  ASSUME IInv, [Next]_vars
  PROVE  Locked'
<1> USE DEF Goto, Reply, Finish, table
<1>0. RequestsTyped /\ Known /\ Locked /\ RequestsTyped' /\ TableInv
  BY Parts, RequestsTypedKept
<1>1. \A q \in Request : pc[q] = "marked" =>
        tok[q] \in Token /\ row[tok[q]] \in {"live", "expired"} /\ Last(tok[q])
  BY <1>0 DEF Known, Locked, RequestsTyped
\* Requests that were marked and keep their place keep their lock.
<1>2. ASSUME UNCHANGED <<row, family, parent>> \/ OnlyAges,
             \A q \in Request : pc'[q] = "marked" => pc[q] = "marked" /\ tok'[q] = tok[q]
      PROVE  Locked'
  <2>1. UNCHANGED <<family, parent>>
    BY <1>2 DEF OnlyAges
  <2>2. \A q \in Request : pc[q] = "marked" => row'[tok[q]] \in {"live", "expired"}
    BY <1>1, <1>2 DEF OnlyAges
  <2> QED
    BY <1>1, <1>2, <2>1, <2>2, <1>0 DEF Locked, Last
<1>3. ASSUME NEW q \in Request, NEW b \in Browser, SignIn(q, b)  PROVE Locked'
  <2>1. PICK n \in Token : Founds(n) /\ tok' = [tok EXCEPT ![q] = n]
    BY <1>3, SignInFounds
  <2>2. \A r \in Request : pc'[r] = "marked" => pc[r] = "marked" /\ r # q /\ tok'[r] = tok[r]
    BY <1>0, <1>3, <2>1 DEF SignIn, RequestsTyped
  <2>3. ASSUME NEW r \in Request, pc'[r] = "marked"
        PROVE  row'[tok'[r]] \in {"live", "expired"} /\ Last(tok[r])'
    <3>1. tok[r] # n /\ tok[r] # None
      BY <1>1, <2>1, <2>2, <2>3 DEF Founds
    <3> QED
      BY <1>0, <1>1, <2>1, <2>2, <2>3, <3>1 DEF Founds, Last, TableInv, TableTyped
  <2> QED
    BY <1>0, <2>2, <2>3 DEF Locked
<1>4. ASSUME NEW q \in Request, Rotate(q)  PROVE Locked'
  <2>1. PICK n \in Token : Extends(tok[q], n) /\ tok' = [tok EXCEPT ![q] = n]
    BY <1>4, RotateExtends
  <2>2. pc[q] = "marked"
    BY <1>4 DEF Rotate
  <2>3. \A r \in Request : pc'[r] = "marked" => pc[r] = "marked" /\ r # q /\ tok'[r] = tok[r]
    BY <1>0, <1>4, <2>1 DEF Rotate, RequestsTyped
  <2>4. ASSUME NEW r \in Request, r # q, pc[r] = "marked"
        PROVE  row'[tok[r]] \in {"live", "expired"} /\ Last(tok[r])'
    <3>1. tok[r] # tok[q]
      BY <1>0, <2>2, <2>4 DEF Locked
    <3> QED
      BY <1>0, <1>1, <2>1, <2>4, <3>1 DEF Extends, Last, TableInv, TableTyped
  <2> QED
    BY <1>0, <2>3, <2>4 DEF Locked
<1>5. ASSUME NEW q \in Request, Mark(q)  PROVE Locked'
  <2>1. /\ pc' = [pc EXCEPT ![q] = "marked"]
        /\ UNCHANGED <<row, family, parent, tok>>
        /\ tok[q] \in Token
        /\ row[tok[q]] = "live"
        /\ \A r \in Request \ {q} : ~(pc[r] = "marked" /\ tok[r] = tok[q])
    BY <1>0, <1>5 DEF Mark, Consumable, HoldsLock, Known, RequestsTyped
  <2>2. Last(tok[q])
    BY <1>0, <2>1 DEF Last, TableInv, TableTyped, Chained
  <2>3. \A r \in Request : pc'[r] = "marked" =>
          row'[tok'[r]] \in {"live", "expired"} /\ Last(tok[r])
    BY <1>0, <1>1, <2>1, <2>2 DEF RequestsTyped
  <2> QED
    BY <1>0, <2>1, <2>3 DEF Locked, Last, RequestsTyped
<1>6. ASSUME NEW q \in Request,
             \/ \E b \in Browser : \/ Refresh(q, b) \/ Logout(q, b) \/ RevokeOthers(q, b)
                                  \/ \E t \in Token : RevokeSession(q, b, t)
             \/ \E t \in Token : RefreshCopied(q, t)
             \/ ReadUnknown(q) \/ ReadLive(q) \/ ReadConcurrent(q) \/ ReadReused(q)
             \/ MarkNothing(q) \/ RevokeReused(q) \/ Deliver(q) \/ Lose(q) \/ Fail(q)
      PROVE  /\ UNCHANGED <<row, family, parent>>
             /\ \A r \in Request : pc'[r] = "marked" => pc[r] = "marked" /\ tok'[r] = tok[r]
  <2>1. CASE \/ \E b \in Browser : \/ Refresh(q, b) \/ Logout(q, b) \/ RevokeOthers(q, b)
                                  \/ \E t \in Token : RevokeSession(q, b, t)
             \/ \E t \in Token : RefreshCopied(q, t)
    BY <1>0, <2>1 DEF Refresh, Logout, RevokeOthers, RevokeSession, RefreshCopied, Submit,
                      Delete, RequestsTyped
  <2>2. CASE \/ ReadUnknown(q) \/ ReadLive(q) \/ ReadConcurrent(q) \/ ReadReused(q)
             \/ MarkNothing(q) \/ RevokeReused(q)
    BY <1>0, <2>2 DEF ReadUnknown, ReadLive, ReadConcurrent, ReadReused, MarkNothing,
                      RevokeReused, Delete, RequestsTyped
  <2>3. CASE Deliver(q) \/ Lose(q) \/ Fail(q)
    BY <1>0, <2>3 DEF Deliver, Lose, Fail, RequestsTyped
  <2> QED
    BY <1>6, <2>1, <2>2, <2>3
<1>7. ASSUME NEW q \in Request, Deleted(q)  PROVE Locked'
  <2>1. OnlyAges
    BY <1>7, RemovalAges DEF Deleted, IInv, TypeOK, Known
  <2>2. \A r \in Request : pc'[r] = "marked" => pc[r] = "marked" /\ tok'[r] = tok[r]
    BY <1>0, <1>7 DEF Deleted, RequestsTyped
  <2> QED
    BY <1>2, <2>1, <2>2
<1>8. CASE SweepExpired
  <2>1. PICK gone \in SUBSET {t \in Token : row[t] \in {"old", "expired"}} :
          /\ \A t \in gone, q \in Request : ~HoldsLock(q, t)
          /\ row' = [t \in Token |-> IF t \in gone THEN "deleted" ELSE row[t]]
    BY <1>8 DEF SweepExpired
  <2>2. \A t \in gone : family[t] # None
    BY <2>1 DEF IInv, TypeOK
  <2>3. OnlyAges
    BY <1>8, <2>1, <2>2, RemovalAges DEF SweepExpired
  <2> QED
    BY <1>2, <1>8, <2>3 DEF SweepExpired
<1>9. CASE \E t \in Token : LeaveGrace(t) \/ Expire(t)
  <2>1. OnlyAges
    BY <1>9, ExpireAges
  <2> QED
    BY <1>2, <1>9, <2>1 DEF LeaveGrace, Expire
<1>10. CASE UNCHANGED vars
  BY <1>2, <1>10 DEF vars
<1> QED
  BY <1>2, <1>3, <1>4, <1>5, <1>6, <1>7, <1>8, <1>9, <1>10 DEF Next, Arrive, Serve

-----------------------------------------------------------------------------
(* The theorems. *)

\* The inductive invariant holds throughout: each family is one chain of tokens,
\* rotations hold the last of them, and everything named was issued.
THEOREM Invariance == Spec => []IInv
<1>1. IInv /\ [Next]_vars => IInv'
  <2> SUFFICES ASSUME IInv, [Next]_vars  PROVE IInv'
    OBVIOUS
  <2>1. TableInv' /\ RequestsTyped' /\ StrainTyped' /\ Known' /\ Locked'
    BY Parts, TableKept, RequestsTypedKept, StrainTypedKept, KnownKept, LockedKept
  <2> QED
    BY <2>1 DEF IInv, TypeOK, TableInv, TableTyped, RequestsTyped, StrainTyped
<1> QED
  BY Initially, <1>1, PTL DEF Spec

\* The variables have their types, and a token has a family from its issue on
\* (RefreshToken:40-42, family_id is not null and not updatable).
THEOREM TypeCorrect == Spec => []TypeOK
<1>1. IInv => TypeOK
  BY DEF IInv
<1> QED
  BY Invariance, <1>1, PTL

\* markUsed lets one presenter through, whatever the number of tabs, copies and
\* replicas: no token is rotated twice and none is used up without a successor.
THEOREM ExactlyOneSuccessorAlways == Spec => []ExactlyOneSuccessor
<1>1. IInv => ExactlyOneSuccessor
  BY DEF IInv
<1> QED
  BY Invariance, <1>1, PTL

\* A sign-in never becomes two sessions: one live row per family at any time.
THEOREM OneLiveRowAlways == Spec => []OneLiveRow
<1>1. IInv => OneLiveRow
  <2> SUFFICES ASSUME IInv, NEW m \in Token, NEW n \in Token,
                      row[m] = "live", row[n] = "live", family[m] = family[n]
               PROVE  m = n
    BY DEF OneLiveRow
  <2>1. Last(m) /\ Last(n)
    BY DEF IInv, TypeOK, Chained, Last
  <2> QED
    BY <2>1 DEF IInv, OneLast
<1> QED
  BY Invariance, <1>1, PTL

\* A family that has no rows left never gets one back, also from rotations that
\* had read a row of it before it went.
THEOREM GoneStaysGoneAlways == Spec => GoneStaysGone
<1>1. ASSUME IInv, [Next]_vars, NEW f \in Token, Issued(f), RowsOf(f) = {}
      PROVE  RowsOf(f)' = {}
  <2>0. TableInv
    BY <1>1, Parts
  <2>1. family[f] = f
    BY <1>1 DEF Issued, IInv, Chained
  <2>2. \A t \in Token : family[t] = f => row[t] \notin InTable
    BY <1>1 DEF RowsOf
  <2> SUFFICES ASSUME NEW t \in Token, family'[t] = f, row'[t] \in InTable
               PROVE  FALSE
    BY DEF RowsOf
  <2>3. CASE UNCHANGED <<row, family, parent>>
    BY <2>2, <2>3
  <2>4. CASE OnlyAges
    BY <2>2, <2>4 DEF OnlyAges
  <2>5. CASE \E q \in Request, b \in Browser : SignIn(q, b)
    <3>1. PICK n \in Token : Founds(n)
      BY <1>1, <2>5, SignInFounds
    <3>2. n # f
      BY <2>0, <2>1, <3>1 DEF Founds, TableInv, TableTyped
    <3> QED
      BY <2>0, <2>2, <3>1, <3>2 DEF Founds, TableInv, TableTyped
  <2>6. CASE \E q \in Request : Rotate(q)
    <3>1. PICK u \in Token, n \in Token :
            Extends(u, n) /\ row[u] \in {"live", "expired"}
      BY <1>1, <2>6, RotateExtends
    <3>2. family[u] # f
      BY <2>2, <3>1 DEF InTable
    <3>3. t # n /\ t # u
      BY <2>0, <3>1, <3>2 DEF Extends, TableInv, TableTyped
    <3> QED
      BY <2>0, <2>2, <3>1, <3>3 DEF Extends, TableInv, TableTyped
  <2> QED
    BY <1>1, <2>3, <2>4, <2>5, <2>6, TableStep
<1>2. IInv /\ [Next]_vars =>
        [\A f \in Token : Issued(f) /\ RowsOf(f) = {} => RowsOf(f)' = {}]_table
  BY <1>1
<1> QED
  BY Invariance, <1>2, PTL DEF Spec, GoneStaysGone

-----------------------------------------------------------------------------
(* No wait cycles: a rotation that holds a row waits for none.             *)

\* Row locks never close a circle of waiting requests: only a rotation past markUsed holds
\* one, and all that is left for it is to insert and to commit (rotate, REQUIRES_NEW).
THEOREM NoWaitCycleEver == Spec => []NoWaitCycle
<1>1. NoWaitCycle
  <2>1. \A q, r \in Request : WaitsFor(q, r) => pc[r] = "marked" /\ pc[q] # "marked"
    BY DEF WaitsFor, HoldsLock
  <2> SUFFICES ASSUME NEW S \in SUBSET Request, S # {}
               PROVE  \E q \in S : \A r \in S : ~WaitsFor(q, r)
    BY DEF NoWaitCycle
  <2>2. CASE \E q \in S : pc[q] = "marked"
    BY <2>1, <2>2
  <2>3. CASE \A q \in S : pc[q] # "marked"
    BY <2>1, <2>3
  <2> QED
    BY <2>2, <2>3
<1> QED
  BY <1>1, PTL

-----------------------------------------------------------------------------
(* No false alarm. The argument follows a token from its issue.  Its       *)
(* answer brings it to one browser; until then nobody can use it, and from *)
(* then on only that browser's requests do.  The rotation that uses it up  *)
(* has its successor on the way to that same browser, and while it is on   *)
(* the way the used row cannot leave the grace window without the request  *)
(* outliving it.                                                           *)

\* Requests at rest present nothing before and after every step.
LEMMA AtRestKept ==
  ASSUME IInv, AtRest, [Next]_vars
  PROVE  AtRest'
<1> USE DEF AtRest, RequestsTyped, PCs, Goto, Reply, Finish
<1>0. RequestsTyped
  BY Parts
<1>1. ASSUME NEW q \in Request, NEW b \in Browser,
             SignIn(q, b) \/ Refresh(q, b) \/ Logout(q, b) \/ RevokeOthers(q, b)
               \/ \E t \in Token : RevokeSession(q, b, t)
      PROVE  AtRest'
  BY <1>0, <1>1 DEF SignIn, Refresh, Logout, RevokeOthers, RevokeSession, Submit, Delete
<1>2. ASSUME NEW q \in Request, NEW t \in Token, RefreshCopied(q, t)
      PROVE  AtRest'
  BY <1>0, <1>2 DEF RefreshCopied, Submit
<1>3. ASSUME NEW q \in Request,
             \/ ReadUnknown(q) \/ ReadLive(q) \/ ReadConcurrent(q) \/ ReadReused(q)
             \/ Mark(q) \/ MarkNothing(q) \/ Rotate(q) \/ RevokeReused(q)
      PROVE  AtRest'
  BY <1>0, <1>3 DEF ReadUnknown, ReadLive, ReadConcurrent, ReadReused, Mark, MarkNothing,
                    Rotate, RevokeReused, Delete
<1>4. ASSUME NEW q \in Request, Deleted(q) \/ Deliver(q) \/ Lose(q) \/ Fail(q)
      PROVE  AtRest'
  BY <1>0, <1>4 DEF Deleted, Deliver, Lose, Fail
<1>5. CASE SweepExpired \/ (\E t \in Token : LeaveGrace(t) \/ Expire(t)) \/ UNCHANGED vars
  BY <1>5 DEF SweepExpired, LeaveGrace, Expire, vars
<1> QED
  BY <1>1, <1>2, <1>3, <1>4, <1>5 DEF Next, Arrive, Serve

\* What disturbs is not forgotten.
LEMMA StrainGrows ==
  ASSUME [Next]_vars, strain' = {}
  PROVE  strain = {}
<1>1. ASSUME NEW q \in Request, Arrive(q)  PROVE strain \subseteq strain'
  <2>1. CASE \E b \in Browser : SignIn(q, b) \/ Refresh(q, b)
    BY <2>1 DEF SignIn, Refresh
  <2>2. CASE \E b \in Browser : Logout(q, b) \/ RevokeOthers(q, b)
    BY <2>2 DEF Logout, RevokeOthers
  <2>3. CASE \E b \in Browser, t \in Token : RevokeSession(q, b, t)
    BY <2>3 DEF RevokeSession
  <2>4. CASE \E t \in Token : RefreshCopied(q, t)
    BY <2>4 DEF RefreshCopied
  <2> QED
    BY <1>1, <2>1, <2>2, <2>3, <2>4 DEF Arrive
<1>2. ASSUME NEW q \in Request, Serve(q) \/ Fail(q)  PROVE strain \subseteq strain'
  BY <1>2 DEF Serve, ReadUnknown, ReadLive, ReadConcurrent, ReadReused, Mark, MarkNothing, Rotate,
              RevokeReused, Deleted, Deliver, Lose, Fail
<1>3. CASE \E t \in Token : LeaveGrace(t) \/ Expire(t)
  BY <1>3 DEF LeaveGrace, Expire
<1>4. CASE SweepExpired \/ UNCHANGED vars
  BY <1>4 DEF SweepExpired, vars
<1> QED
  BY <1>1, <1>2, <1>3, <1>4 DEF Next

\* What the undisturbed steps start from: the parts of the invariant they use.
Calm ==
  /\ TableTyped
  /\ RequestsTyped
  /\ Known
  /\ AtRest
  /\ Undisturbed

\* A step at rest: rows age, no request, answer or cookie moves, and a row grows old
\* only if nobody carries its token.
Ages ==
  /\ UNCHANGED <<family, parent, jar, pc, by, tok, answer>>
  /\ \A t \in Token : Consumed(t)' => Consumed(t)
  /\ \A t \in Token : row'[t] = "old" => row[t] = "old" \/ (Consumed(t) /\ ~Carried(t))

LEMMA AgeingUndisturbed ==
  ASSUME Calm, Ages
  PROVE  Undisturbed'
<1> USE DEF Calm, RequestsTyped
<1>1. UNCHANGED <<family, parent, jar, pc, by, tok, answer>>
  BY DEF Ages
<1>2. \A q \in Request : tok[q] # None => pc[q] # "idle"
  BY DEF AtRest
<1>3. ASSUME NEW q \in Request, tok[q] # None  PROVE row'[tok[q]] # "old"
  <2>1. Carried(tok[q])
    BY <1>2, <1>3 DEF Carried
  <2> QED
    BY <1>3, <2>1 DEF Undisturbed, Ages
<1>4. ASSUME NEW b \in Browser, jar[b] # None  PROVE row'[jar[b]] # "old"
  <2>1. CASE Consumed(jar[b])
    <3>1. PICK q \in Request, n \in Token : Brings(q, b, n) /\ parent[n] = jar[b]
      BY <1>4, <2>1 DEF Undisturbed
    <3>2. Carried(jar[b])
      BY <1>2, <3>1 DEF Carried, Brings
    <3> QED
      BY <1>4, <3>2 DEF Undisturbed, Ages
  <2>2. CASE ~Consumed(jar[b])
    BY <1>4, <2>2 DEF Ages, Consumed
  <2> QED
    BY <2>1, <2>2
<1>5. \A q \in Request : pc[q] = "reply" /\ answer[q] = "set" =>
        tok[q] # None /\ ~Consumed(tok[q])'
  BY <1>1 DEF Undisturbed, Ages, Consumed
<1>6. ASSUME NEW b \in Browser, jar[b] # None, Consumed(jar[b])'
      PROVE  \E q \in Request, n \in Token : Brings(q, b, n) /\ parent[n] = jar[b]
  BY <1>1, <1>6 DEF Undisturbed, Ages, Consumed
<1> QED
  BY <1>1, <1>3, <1>4, <1>5, <1>6 DEF Undisturbed, Brings, Has, Consumed

\* A step of the request q that at most deletes rows, brings nobody a token and
\* forgets at most what q presents.
Moves(q) ==
  /\ UNCHANGED <<family, parent, jar>>
  /\ \A t \in Token : /\ Consumed(t)' => Consumed(t)
                      /\ row'[t] = "old" => row[t] = "old"
  /\ \A r \in Request \ {q} : /\ pc'[r] = pc[r] /\ by'[r] = by[r]
                              /\ tok'[r] = tok[r] /\ answer'[r] = answer[r]
  /\ ~(pc[q] = "reply" /\ answer[q] = "set")
  /\ ~(pc'[q] = "reply" /\ answer'[q] = "set")
  /\ pc'[q] # "reuse"
  /\ tok'[q] = None \/ (tok'[q] = tok[q] /\ by'[q] = by[q])

LEMMA MovingUndisturbed ==
  ASSUME Calm, NEW q \in Request, Moves(q)
  PROVE  Undisturbed'
<1> USE DEF Calm, RequestsTyped
<1>1. \A r \in Request : tok'[r] # None => tok'[r] = tok[r] /\ by'[r] = by[r]
  BY DEF Moves
<1>2. \A r \in Request : pc'[r] = "reply" /\ answer'[r] = "set" =>
        r # q /\ pc[r] = "reply" /\ answer[r] = "set" /\ tok'[r] = tok[r] /\ tok[r] # None
  BY DEF Moves, Undisturbed
<1> QED
  BY <1>1, <1>2 DEF Moves, Undisturbed, Brings, Has, Consumed

\* A tab of b sends its cookie.
Presents(q, b) ==
  /\ UNCHANGED <<row, family, parent, jar>>
  /\ pc[q] = "idle" /\ jar[b] # None
  /\ pc' = [pc EXCEPT ![q] = pc'[q]] /\ pc'[q] \in {"sent", "delete"}
  /\ by' = [by EXCEPT ![q] = b]
  /\ tok' = [tok EXCEPT ![q] = jar[b]]
  /\ \A r \in Request \ {q} : answer'[r] = answer[r]

LEMMA PresentingUndisturbed ==
  ASSUME Calm, NEW q \in Request, NEW b \in Browser, Presents(q, b)
  PROVE  Undisturbed'
<1> USE DEF Calm, RequestsTyped
<1>1. \A r \in Request \ {q} : /\ pc'[r] = pc[r] /\ by'[r] = by[r]
                               /\ tok'[r] = tok[r] /\ answer'[r] = answer[r]
  BY DEF Presents
<1>2. tok'[q] = jar[b] /\ by'[q] = b /\ pc'[q] \in {"sent", "delete"} /\ pc[q] = "idle"
  BY DEF Presents
<1>3. \A r \in Request : pc'[r] = "reply" /\ answer'[r] = "set" =>
        r # q /\ pc[r] = "reply" /\ answer[r] = "set" /\ tok'[r] = tok[r] /\ tok[r] # jar[b]
  BY <1>1, <1>2 DEF Undisturbed
<1>4. \A t \in Token, c \in Browser : Has(c, t)' => Has(c, t)
  BY <1>1, <1>2 DEF Has, Presents
<1>5. \A c \in Browser, r \in Request, n \in Token : Brings(r, c, n) => Brings(r, c, n)'
  BY <1>1, <1>2 DEF Brings
<1> QED
  BY <1>1, <1>2, <1>3, <1>4, <1>5 DEF Undisturbed, Consumed, Presents

\* A token n is issued and its answer is on its way to b: a sign-in, or the rotation
\* of what b's request q presented.
Issues(q, b, n) ==
  /\ row[n] = "unissued" /\ row'[n] = "live"
  /\ pc' = [pc EXCEPT ![q] = "reply"]
  /\ answer' = [answer EXCEPT ![q] = "set"]
  /\ tok' = [tok EXCEPT ![q] = n]
  /\ by' = [by EXCEPT ![q] = b]
  /\ pc[q] \in {"idle", "marked"}
  /\ parent'[n] = tok[q]
  /\ \A t \in Token \ {n} : parent'[t] = parent[t]
  /\ \A t \in Token \ {n, tok[q]} : row'[t] = row[t]
  /\ tok[q] # None => by[q] = b /\ row'[tok[q]] # "old"
  /\ UNCHANGED jar

LEMMA IssuingUndisturbed ==
  ASSUME Calm, NEW q \in Request, NEW b \in Browser, NEW n \in Token, Issues(q, b, n)
  PROVE  Undisturbed'
<1> USE DEF Calm, RequestsTyped
<1>1. \A r \in Request \ {q} : /\ pc'[r] = pc[r] /\ by'[r] = by[r]
                               /\ tok'[r] = tok[r] /\ answer'[r] = answer[r]
  BY DEF Issues
<1>2. tok'[q] = n /\ by'[q] = b /\ pc'[q] = "reply" /\ answer'[q] = "set"
  BY DEF Issues
\* Nobody knows n yet.
<1>3. (\A r \in Request : tok[r] # n) /\ (\A c \in Browser : jar[c] # n)
  BY DEF Issues, Known, TableTyped
<1>4. \A t \in Token, c \in Browser : Has(c, t)' => (t = n /\ c = b) \/ (t # n /\ Has(c, t))
  BY <1>1, <1>2, <1>3 DEF Has, Issues
<1>5. ASSUME NEW r \in Request, NEW s \in Request, pc'[r] = "reply", answer'[r] = "set",
             tok'[s] = tok'[r]
      PROVE  s = r
  BY <1>1, <1>2, <1>3, <1>5 DEF Undisturbed
<1>6. ASSUME NEW r \in Request, pc'[r] = "reply", answer'[r] = "set"
      PROVE  /\ tok'[r] # None /\ ~Consumed(tok[r])'
             /\ \A c \in Browser : jar'[c] # tok'[r]
  <2>1. CASE r = q
    BY <1>2, <1>3, <2>1 DEF Issues, Consumed
  <2>2. CASE r # q
    <3>1. tok[r] # None /\ tok[r] # n /\ tok[q] # tok[r] /\ tok'[r] = tok[r]
      BY <1>1, <1>3, <1>6, <2>2 DEF Undisturbed
    <3> QED
      BY <1>1, <1>6, <2>2, <3>1 DEF Issues, Undisturbed, Consumed
  <2> QED
    BY <2>1, <2>2
<1>7. ASSUME NEW c \in Browser, jar'[c] # None, Consumed(jar[c])'
      PROVE  \E r \in Request, m \in Token : Brings(r, c, m)' /\ parent'[m] = jar'[c]
  <2>0. jar'[c] = jar[c] /\ jar[c] # n /\ jar[c] \in Token
    BY <1>3, <1>7 DEF Issues
  <2>1. CASE jar[c] = tok[q]
    <3>1. Has(c, tok[q]) /\ Has(b, tok[q])
      BY <1>7, <2>0, <2>1 DEF Has, Issues
    <3>2. c = b
      BY <2>0, <2>1, <3>1 DEF Undisturbed
    <3>3. Brings(q, c, n)' /\ parent'[n] = jar'[c]
      BY <1>2, <2>0, <2>1, <3>2 DEF Brings, Issues
    <3> QED
      BY <3>3
  <2>2. CASE jar[c] # tok[q]
    <3>1. Consumed(jar[c])
      BY <1>7, <2>0, <2>2 DEF Issues, Consumed
    <3>2. PICK r \in Request, m \in Token : Brings(r, c, m) /\ parent[m] = jar[c]
      BY <2>0, <1>7, <3>1 DEF Undisturbed
    <3>3. r # q /\ m # n
      BY <1>3, <3>2 DEF Brings, Issues
    <3>4. Brings(r, c, m)' /\ parent'[m] = jar'[c]
      BY <1>1, <2>0, <3>2, <3>3 DEF Brings, Issues
    <3> QED
      BY <3>4
  <2> QED
    BY <2>1, <2>2
<1>8. ASSUME NEW t \in Token, row[t] # "old"  PROVE row'[t] # "old"
  BY <1>8 DEF Issues
<1>9. \A r \in Request : /\ tok'[r] # None => by'[r] # None /\ row'[tok'[r]] # "old"
                         /\ pc'[r] # "reuse"
  BY <1>1, <1>2, <1>8 DEF Undisturbed, Issues
<1>10. \A c \in Browser : jar'[c] # None => row'[jar'[c]] # "old"
  BY <1>8 DEF Undisturbed, Issues
<1>11. \A t \in Token, c, d \in Browser : Has(c, t)' /\ Has(d, t)' => c = d
  BY <1>4 DEF Undisturbed
<1> QED
  BY <1>5, <1>6, <1>7, <1>9, <1>10, <1>11 DEF Undisturbed

\* The answer of q arrives.
LEMMA DeliveryUndisturbed ==
  ASSUME Calm, NEW q \in Request, Deliver(q)
  PROVE  Undisturbed'
<1> USE DEF Calm, RequestsTyped
<1>1. \A r \in Request \ {q} : /\ pc'[r] = pc[r] /\ by'[r] = by[r]
                               /\ tok'[r] = tok[r] /\ answer'[r] = answer[r]
  BY DEF Deliver, Finish
<1>2. /\ tok'[q] = None /\ by'[q] = None /\ pc'[q] = "idle" /\ answer'[q] = "keep"
      /\ UNCHANGED <<row, family, parent>>
  BY DEF Deliver, Finish, table
<1>3. \A c \in Browser : \/ jar'[c] = jar[c] /\ (c = by[q] => answer[q] = "keep")
                         \/ c = by[q] /\ answer[q] = "clear" /\ jar'[c] = None
                         \/ c = by[q] /\ answer[q] = "set" /\ jar'[c] = tok[q]
  BY DEF Deliver, Cookie
<1>4. \A t \in Token, c \in Browser : Has(c, t)' => Has(c, t)
  BY <1>1, <1>2, <1>3 DEF Has
<1>5. ASSUME NEW c \in Browser, jar'[c] # None, Consumed(jar[c])'
      PROVE  \E r \in Request, m \in Token : Brings(r, c, m)' /\ parent'[m] = jar'[c]
  <2>1. Consumed(jar'[c])
    BY <1>2, <1>5 DEF Consumed
  <2>2. jar'[c] = jar[c] /\ (c = by[q] => answer[q] = "keep")
    BY <1>3, <1>5, <2>1 DEF Undisturbed, Deliver
  <2>3. PICK r \in Request, m \in Token : Brings(r, c, m) /\ parent[m] = jar[c]
    BY <1>5, <2>1, <2>2 DEF Undisturbed
  <2>4. r # q
    BY <2>2, <2>3 DEF Brings
  <2> QED
    BY <1>1, <1>2, <2>2, <2>3, <2>4 DEF Brings
<1>6. ASSUME NEW r \in Request, pc'[r] = "reply", answer'[r] = "set"
      PROVE  /\ tok'[r] # None /\ ~Consumed(tok[r])'
             /\ \A c \in Browser : jar'[c] # tok'[r]
  <2>1. r # q /\ pc[r] = "reply" /\ answer[r] = "set" /\ tok'[r] = tok[r] /\ tok[q] # tok[r]
    BY <1>1, <1>2, <1>6 DEF Undisturbed
  <2> QED
    BY <1>2, <1>3, <2>1 DEF Undisturbed, Consumed
<1>7. \A r, s \in Request : pc'[r] = "reply" /\ answer'[r] = "set" /\ tok'[s] = tok'[r] => s = r
  BY <1>1, <1>2 DEF Undisturbed
<1>8. \A r \in Request : /\ tok'[r] # None => by'[r] # None /\ row'[tok'[r]] # "old"
                         /\ pc'[r] # "reuse"
  BY <1>1, <1>2 DEF Undisturbed
<1>9. \A c \in Browser : jar'[c] # None => row'[jar'[c]] # "old"
  BY <1>2, <1>3 DEF Undisturbed
<1>10. \A t \in Token, c, d \in Browser : Has(c, t)' /\ Has(d, t)' => c = d
  BY <1>4 DEF Undisturbed
<1> QED
  BY <1>5, <1>6, <1>7, <1>8, <1>9, <1>10 DEF Undisturbed

LEMMA UndisturbedKept ==
  ASSUME IInv, AInv, [Next]_vars, strain' = {}
  PROVE  Undisturbed'
<1> USE DEF Goto, Reply, Finish, table, PCs
<1>0. Calm
  BY Parts, StrainGrows DEF Calm, AInv, TableInv
<1>1. TableTyped /\ RequestsTyped /\ AtRest /\ Undisturbed
  BY <1>0 DEF Calm
<1>2. ASSUME NEW q \in Request, NEW b \in Browser, SignIn(q, b)  PROVE Undisturbed'
  <2>1. PICK n \in Token : Founds(n) /\ tok' = [tok EXCEPT ![q] = n]
    BY <1>2, SignInFounds
  <2>2. tok[q] = None
    BY <1>1, <1>2 DEF SignIn, AtRest
  <2>3. Issues(q, b, n)
    BY <1>1, <1>2, <2>1, <2>2 DEF SignIn, Founds, Issues, TableTyped, RequestsTyped
  <2> QED
    BY <1>0, <2>3, IssuingUndisturbed
<1>3. ASSUME NEW q \in Request, Rotate(q)  PROVE Undisturbed'
  <2>1. PICK n \in Token : Extends(tok[q], n) /\ tok' = [tok EXCEPT ![q] = n]
    BY <1>3, RotateExtends
  <2>2. tok[q] \in Token /\ row[tok[q]] \in {"live", "expired"}
    BY <1>3, RotateExtends
  <2>3. by[q] \in Browser /\ by' = [by EXCEPT ![q] = by[q]]
    BY <1>1, <1>3, <2>2 DEF Undisturbed, RequestsTyped, Rotate
  <2>4. /\ row[n] = "unissued" /\ row'[n] = "live"
        /\ row'[tok[q]] # "old"
        /\ \A t \in Token \ {n, tok[q]} : row'[t] = row[t]
    BY <1>1, <2>1, <2>2 DEF Extends, TableTyped
  <2>5. parent'[n] = tok[q] /\ \A t \in Token \ {n} : parent'[t] = parent[t]
    BY <1>1, <2>1 DEF Extends, TableTyped
  <2>6. Issues(q, by[q], n)
    BY <1>1, <1>3, <2>1, <2>3, <2>4, <2>5 DEF Rotate, Issues, RequestsTyped
  <2> QED
    BY <1>0, <2>3, <2>6, IssuingUndisturbed
<1>4. ASSUME NEW q \in Request, NEW b \in Browser, Refresh(q, b) \/ Logout(q, b)
      PROVE  Undisturbed'
  <2>1. Presents(q, b)
    BY <1>1, <1>4 DEF Refresh, Logout, Submit, Delete, Presents, RequestsTyped
  <2> QED
    BY <1>0, <2>1, PresentingUndisturbed
<1>5. ASSUME NEW q \in Request, NEW b \in Browser,
             RevokeOthers(q, b) \/ \E t \in Token : RevokeSession(q, b, t)
      PROVE  Undisturbed'
  <2>1. tok[q] = None
    BY <1>1, <1>5 DEF RevokeOthers, RevokeSession, Delete, AtRest
  <2>2. Moves(q)
    BY <1>1, <1>5, <2>1 DEF RevokeOthers, RevokeSession, Delete, Moves, Consumed, RequestsTyped
  <2> QED
    BY <1>0, <2>2, MovingUndisturbed
<1>6. ASSUME NEW q \in Request,
             ReadUnknown(q) \/ ReadLive(q) \/ ReadConcurrent(q) \/ Mark(q) \/ MarkNothing(q)
      PROVE  Undisturbed'
  <2>1. Moves(q)
    BY <1>1, <1>6 DEF ReadUnknown, ReadLive, ReadConcurrent, Mark, MarkNothing, Moves, Consumed,
                      RequestsTyped
  <2> QED
    BY <1>0, <2>1, MovingUndisturbed
\* The steps of a false alarm, and those that leave a mark, do not happen.
<1>7. ASSUME NEW q \in Request, ReadReused(q) \/ RevokeReused(q)  PROVE FALSE
  <2>1. CASE ReadReused(q)
    <3>1. row[tok[q]] = "old" /\ tok[q] # None
      BY <1>0, <2>1 DEF ReadReused, Graced, Calm, Known
    <3> QED
      BY <1>1, <3>1 DEF Undisturbed
  <2>2. CASE RevokeReused(q)
    BY <1>1, <2>2 DEF RevokeReused, Delete, Undisturbed
  <2> QED
    BY <1>7, <2>1, <2>2
<1>8. ASSUME NEW q \in Request, Lose(q) \/ \E t \in Token : RefreshCopied(q, t)  PROVE FALSE
  BY <1>8 DEF Lose, RefreshCopied
<1>9. ASSUME NEW q \in Request, Deleted(q)  PROVE Undisturbed'
  <2>1. \A t \in Token : row'[t] = row[t] \/ row'[t] = "deleted"
    BY <1>9 DEF Deleted
  <2>2. Moves(q)
    BY <1>1, <1>9, <2>1 DEF Deleted, Moves, Consumed, RequestsTyped, AtRest
  <2> QED
    BY <1>0, <2>2, MovingUndisturbed
<1>10. ASSUME NEW q \in Request, Fail(q)  PROVE Undisturbed'
  <2>1. Moves(q)
    BY <1>1, <1>10 DEF Fail, Moves, Consumed, RequestsTyped
  <2> QED
    BY <1>0, <2>1, MovingUndisturbed
<1>11. ASSUME NEW q \in Request, Deliver(q)  PROVE Undisturbed'
  BY <1>0, <1>11, DeliveryUndisturbed
<1>12. ASSUME NEW t \in Token, LeaveGrace(t)  PROVE Undisturbed'
  <2>1. ~Carried(t)
    BY <1>12 DEF LeaveGrace
  <2>2. Ages
    BY <1>1, <1>12, <2>1 DEF LeaveGrace, Ages, Consumed, TableTyped
  <2> QED
    BY <1>0, <2>2, AgeingUndisturbed
<1>13. CASE SweepExpired \/ \E t \in Token : Expire(t)
  <2>1. \A t \in Token : row'[t] = row[t] \/ row'[t] \in {"deleted", "expired"}
    BY <1>1, <1>13 DEF SweepExpired, Expire, TableTyped
  <2>2. Ages
    BY <1>13, <2>1 DEF SweepExpired, Expire, Ages, Consumed
  <2> QED
    BY <1>0, <2>2, AgeingUndisturbed
<1>14. CASE UNCHANGED vars
  <2>1. Ages
    BY <1>14 DEF vars, Ages, Consumed
  <2> QED
    BY <1>0, <2>1, AgeingUndisturbed
<1> QED
  BY <1>2, <1>3, <1>4, <1>5, <1>6, <1>7, <1>8, <1>9, <1>10, <1>11, <1>12, <1>13, <1>14
     DEF Next, Arrive, Serve

\* Tabs of one browser that race for one cookie are never taken for theft: without a
\* lost answer, a request older than the grace window or a copied cookie, the branch
\* that revokes the family (RefreshTokenService:126) is never entered.
THEOREM NoFalseAlarmEver == Spec => []NoFalseAlarm
<1>1. Init => AInv
  BY DEF Init, AInv, AtRest, Undisturbed, Has, Consumed
<1>2. IInv /\ AInv /\ [Next]_vars => AInv'
  <2> SUFFICES ASSUME IInv, AInv, [Next]_vars  PROVE AInv'
    OBVIOUS
  <2>1. AtRest'
    BY AtRestKept DEF AInv
  <2>2. strain' = {} => Undisturbed'
    BY UndisturbedKept
  <2> QED
    BY <2>1, <2>2 DEF AInv
<1>3. AInv => NoFalseAlarm
  BY DEF AInv, Undisturbed, NoFalseAlarm
<1> QED
  BY Invariance, <1>1, <1>2, <1>3, PTL DEF Spec
=============================================================================
