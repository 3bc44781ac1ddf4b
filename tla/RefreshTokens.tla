---------------------------- MODULE RefreshTokens ----------------------------
(***************************************************************************)
(* The refresh cookies of one account: RefreshTokenService and the part of *)
(* AuthService that answers with them.  Every statement on refresh_tokens  *)
(* is keyed by a token, a family or an account, so accounts never meet.    *)
(*                                                                         *)
(* Transactions run at READ COMMITTED: a rotation reads the row, then      *)
(* UPDATEs it (holding the row's lock until it commits), then inserts the  *)
(* successor; a DELETE picks its rows from the snapshot it starts with,    *)
(* waits for the locks on them, and never sees rows inserted meanwhile.    *)
(* Each of these is a step, so requests of several tabs, devices and       *)
(* replicas interleave between them.  A request may fail before its        *)
(* transaction commits (users.require throws, the replica is killed).      *)
(*                                                                         *)
(* A row's age is abstract: a live row may pass expires_at, a used row may *)
(* leave REUSE_GRACE (10 s) and later its retention (7 days), at any time. *)
(* Left out: passwords and second factors (who may sign in), access        *)
(* tokens, audit events.                                                   *)
(***************************************************************************)
EXTENDS Integers, FiniteSets

CONSTANTS
  Browser,    \* cookie jars; the tabs of one browser share one
  None,       \* no cookie, no browser
  Request,    \* requests that can be in progress at once, on all replicas
  MaxTokens   \* bound: refresh tokens ever issued

ASSUME RefreshTokensAssumption ==
  /\ MaxTokens \in Nat
  /\ None \notin Browser
  /\ None \notin 1..MaxTokens

Token == 1..MaxTokens

VARIABLES
  row,      \* table refresh_tokens: how far each token's row has come
  family,   \* family_id, named by the token of the sign-in; None before issue
  parent,   \* history: the token whose rotation issued this one
  jar,      \* the CC_Refresh cookie of each browser
  pc,       \* where each request stands
  by,       \* the browser a request came from
  tok,      \* the token a request presents, later the one it sets
  victims,  \* the rows a request's DELETE found
  answer,   \* what the answer does to the cookie
  strain    \* history: "late" once an answer was lost or a request outlived the
            \* grace window, "copied" once someone presented a copy of a cookie

table == <<row, family, parent>>
vars  == <<table, jar, pc, by, tok, victims, answer, strain>>

\* "recent": used_at set within REUSE_GRACE.  "old": used_at set before that.
Rows    == {"unissued", "live", "recent", "old", "expired", "deleted"}
InTable == {"live", "recent", "old", "expired"}
PCs     == {"idle", "sent", "found", "marked", "reuse", "delete", "reply"}

TypeOK ==
  /\ row \in [Token -> Rows]
  /\ family \in [Token -> Token \cup {None}]
  /\ \A t \in Token : family[t] = None <=> row[t] = "unissued"
  /\ parent \in [Token -> Token \cup {None}]
  /\ jar \in [Browser -> Token \cup {None}]
  /\ pc \in [Request -> PCs]
  /\ by \in [Request -> Browser \cup {None}]
  /\ tok \in [Request -> Token \cup {None}]
  /\ victims \in [Request -> SUBSET Token]
  /\ answer \in [Request -> {"set", "keep", "clear"}]
  /\ strain \subseteq {"late", "copied"}

Init ==
  /\ row = [t \in Token |-> "unissued"]
  /\ family = [t \in Token |-> None]
  /\ parent = [t \in Token |-> None]
  /\ jar = [b \in Browser |-> None]
  /\ pc = [q \in Request |-> "idle"]
  /\ by = [q \in Request |-> None]
  /\ tok = [q \in Request |-> None]
  /\ victims = [q \in Request |-> {}]
  /\ answer = [q \in Request |-> "keep"]
  /\ strain = {}

-----------------------------------------------------------------------------
(* The table. *)

RowsOf(f) == {t \in Token : family[t] = f /\ row[t] \in InTable}

\* The lock markUsed takes and the rotation's commit releases.  The branch that
\* deletes the family in a transaction of its own (REQUIRES_NEW) holds none.
\* Faulty variant: the lock kept across that nested transaction.
HoldsLockThroughout(q, t) == pc[q] \in {"marked", "delete"} /\ tok[q] = t
HoldsLock(q, t) == pc[q] = "marked" /\ tok[q] = t

\* where token_hash = :hash and used_at is null and expires_at > :now
\* Faulty variants: no check of used_at; the check of the earlier read relied on.
UnlessDeleted(t) == row[t] # "deleted"
AsWhenRead(t)    == TRUE
Consumable(t) == row[t] = "live"

\* The bound, never hit by a request under way: whatever is presented and may yet
\* be rotated has an unissued token left for its successor.
Pending == {tok[q] : q \in {r \in Request : pc[r] \in {"sent", "found", "marked"}}}
Spare   == Cardinality({t \in Token : row[t] = "unissued"}) > Cardinality(Pending)

\* Tokens are random; here they are named in the order of their issue.
IsNext(n) == row[n] = "unissued" /\ \A m \in Token : m < n => row[m] # "unissued"

\* insert into refresh_tokens; f is None for a sign-in, which starts a family.
Issue(n, f, p) ==
  /\ IsNext(n)
  /\ family' = [family EXCEPT ![n] = IF f = None THEN n ELSE f]
  /\ parent' = [parent EXCEPT ![n] = p]

-----------------------------------------------------------------------------
(* Requests. *)

Goto(q, from, to) ==
  /\ pc[q] = from
  /\ pc' = [pc EXCEPT ![q] = to]

Reply(q, from, what) ==
  /\ Goto(q, from, "reply")
  /\ answer' = [answer EXCEPT ![q] = what]

\* A request for which nothing is left to do.
Finish(q) ==
  /\ pc' = [pc EXCEPT ![q] = "idle"]
  /\ by' = [by EXCEPT ![q] = None]
  /\ tok' = [tok EXCEPT ![q] = None]
  /\ victims' = [victims EXCEPT ![q] = {}]
  /\ answer' = [answer EXCEPT ![q] = "keep"]

\* login, register or the second factor succeeded: a new family, and its cookie.
SignIn(q, b) ==
  /\ Spare
  /\ Reply(q, "idle", "set")
  /\ \E n \in Token : /\ Issue(n, None, None)
                      /\ row' = [row EXCEPT ![n] = "live"]
                      /\ tok' = [tok EXCEPT ![q] = n]
  /\ by' = [by EXCEPT ![q] = b]
  /\ UNCHANGED <<jar, victims, strain>>

\* POST /auth/refresh from a tab of b, or with an old copy of a cookie.
Submit(q, b, t) ==
  /\ row[t] = "live" => t \in Pending \/ Spare
  /\ Goto(q, "idle", "sent")
  /\ by' = [by EXCEPT ![q] = b]
  /\ tok' = [tok EXCEPT ![q] = t]
  /\ UNCHANGED <<table, jar, victims, answer>>

Refresh(q, b) == jar[b] # None /\ Submit(q, b, jar[b]) /\ UNCHANGED strain

RefreshCopied(q, t) ==
  /\ row[t] # "unissued"
  /\ Submit(q, None, t)
  /\ strain' = strain \cup {"copied"}

\* findByTokenHash, and what follows from the row as it is now.
ReadUnknown(q) ==
  /\ Reply(q, "sent", "clear")
  /\ row[tok[q]] \in {"expired", "deleted"}
  /\ UNCHANGED <<table, jar, by, tok, victims, strain>>

ReadLive(q) ==
  /\ Goto(q, "sent", "found")
  /\ row[tok[q]] = "live"
  /\ UNCHANGED <<table, jar, by, tok, victims, answer, strain>>

\* Faulty variant: no grace window.
NeverGraced(t) == FALSE
Graced(t) == row[t] = "recent"

ReadConcurrent(q) ==
  /\ Reply(q, "sent", "keep")
  /\ Graced(tok[q])
  /\ UNCHANGED <<table, jar, by, tok, victims, strain>>

ReadReused(q) ==
  /\ Goto(q, "sent", "reuse")
  /\ row[tok[q]] \in {"recent", "old"} /\ ~Graced(tok[q])
  /\ UNCHANGED <<table, jar, by, tok, victims, answer, strain>>

\* markUsed, once no other transaction holds the row.  Updating no row means a
\* sibling was first (or the row is gone): CONCURRENT.
Mark(q) ==
  /\ Goto(q, "found", "marked")
  /\ \A r \in Request \ {q} : ~HoldsLock(r, tok[q])
  /\ Consumable(tok[q])
  /\ UNCHANGED <<table, jar, by, tok, victims, answer, strain>>

MarkNothing(q) ==
  /\ Reply(q, "found", "keep")
  /\ \A r \in Request \ {q} : ~HoldsLock(r, tok[q])
  /\ ~Consumable(tok[q])
  /\ UNCHANGED <<table, jar, by, tok, victims, strain>>

\* The rotation commits: the row is used and its successor is there.
Rotate(q) ==
  LET t == tok[q]
  IN /\ Reply(q, "marked", "set")
     /\ \E n \in Token :
          /\ Issue(n, family[t], t)
          /\ row' = [row EXCEPT ![n] = "live",
                                ![t] = IF @ = "live" THEN "recent" ELSE @]
          /\ tok' = [tok EXCEPT ![q] = n]
     /\ UNCHANGED <<jar, by, victims, strain>>

\* A DELETE starts: these are the rows it sees.
Delete(q, from, rows, what) ==
  /\ Goto(q, from, "delete")
  /\ victims' = [victims EXCEPT ![q] = rows]
  /\ answer' = [answer EXCEPT ![q] = what]

\* rotate, the reuse branch: deleteByFamilyId in a transaction of its own.
RevokeReused(q) ==
  /\ Delete(q, "reuse", RowsOf(family[tok[q]]), "clear")
  /\ UNCHANGED <<table, jar, by, tok, strain>>

\* POST /auth/logout: revoke, if the cookie still has a row.
Logout(q, b) ==
  LET t == jar[b]
  IN /\ t # None
     /\ Delete(q, "idle", IF row[t] \in InTable THEN RowsOf(family[t]) ELSE {}, "clear")
     /\ by' = [by EXCEPT ![q] = b]
     /\ tok' = [tok EXCEPT ![q] = t]
     /\ UNCHANGED <<table, jar, strain>>

\* DELETE /auth/sessions/{id}: any row of the account names its session.
RevokeSession(q, b, t) ==
  /\ row[t] \in InTable
  /\ Delete(q, "idle", RowsOf(family[t]), "keep")
  /\ by' = [by EXCEPT ![q] = b]
  /\ UNCHANGED <<table, jar, tok, strain>>

\* revokeOthers, on its own or after a password change: every family but the
\* caller's, and that one too if the caller's cookie has no row.
RevokeOthers(q, b) ==
  LET t    == jar[b]
      keep == IF t = None THEN {} ELSE RowsOf(family[t])
  IN /\ Delete(q, "idle", {u \in Token : row[u] \in InTable}
                            \ (IF t \in keep THEN keep ELSE {}), "keep")
     /\ by' = [by EXCEPT ![q] = b]
     /\ UNCHANGED <<table, jar, tok, strain>>

\* The DELETE ends, once no rotation holds one of its rows, and commits.
Deleted(q) ==
  /\ Goto(q, "delete", "reply")
  /\ \A t \in victims[q], r \in Request : ~HoldsLock(r, t)
  /\ row' = [t \in Token |-> IF t \in victims[q] THEN "deleted" ELSE row[t]]
  /\ UNCHANGED <<family, parent, jar, by, tok, victims, answer, strain>>

\* The answer arrives: Set-Cookie with the new token, an empty one, or none.
Cookie(q) == CASE answer[q] = "set"   -> tok[q]
               [] answer[q] = "clear" -> None
               [] OTHER               -> jar[by[q]]

Deliver(q) ==
  /\ pc[q] = "reply"
  /\ jar' = IF by[q] = None THEN jar ELSE [jar EXCEPT ![by[q]] = Cookie(q)]
  /\ Finish(q)
  /\ UNCHANGED <<table, strain>>

\* The answer is lost on its way.
Lose(q) ==
  /\ pc[q] = "reply"
  /\ Finish(q)
  /\ strain' = strain \cup {"late"}
  /\ UNCHANGED <<table, jar>>

\* The request ends before its transaction commits, which rolls back: the lock
\* goes, the rows stay.
Fail(q) ==
  /\ pc[q] \in PCs \ {"idle", "reply"}
  /\ Finish(q)
  /\ UNCHANGED <<table, jar, strain>>

Serve(q) ==
  \/ ReadUnknown(q) \/ ReadLive(q) \/ ReadConcurrent(q) \/ ReadReused(q)
  \/ Mark(q) \/ MarkNothing(q) \/ Rotate(q)
  \/ RevokeReused(q) \/ Deleted(q)
  \/ Deliver(q) \/ Lose(q)

Arrive(q) ==
  \/ \E b \in Browser : SignIn(q, b) \/ Refresh(q, b) \/ Logout(q, b) \/ RevokeOthers(q, b)
  \/ \E b \in Browser, t \in Token : RevokeSession(q, b, t)
  \/ \E t \in Token : RefreshCopied(q, t)

-----------------------------------------------------------------------------
(* Time, and the hourly sweep. *)

\* Some request still carries t, or the answer that replaces it.
Carried(t) ==
  \E q \in Request : /\ pc[q] # "idle"
                     /\ tok[q] # None
                     /\ t \in {tok[q], parent[tok[q]]}

LeaveGrace(t) ==
  /\ row[t] = "recent"
  /\ row' = [row EXCEPT ![t] = "old"]
  /\ strain' = IF Carried(t) THEN strain \cup {"late"} ELSE strain
  /\ UNCHANGED <<family, parent, jar, pc, by, tok, victims, answer>>

Expire(t) ==
  /\ row[t] \in {"live", "recent", "old"}
  /\ row' = [row EXCEPT ![t] = "expired"]
  /\ UNCHANGED <<family, parent, jar, pc, by, tok, victims, answer, strain>>

\* deleteExpired: expired rows, and rows used more than seven days ago.
SweepExpired ==
  /\ \E gone \in (SUBSET {t \in Token : row[t] \in {"old", "expired"}}) \ {{}} :
       /\ \A t \in gone, q \in Request : ~HoldsLock(q, t)
       /\ row' = [t \in Token |-> IF t \in gone THEN "deleted" ELSE row[t]]
  /\ UNCHANGED <<family, parent, jar, pc, by, tok, victims, answer, strain>>

Next ==
  \/ \E q \in Request : Arrive(q) \/ Serve(q) \/ Fail(q)
  \/ \E t \in Token : LeaveGrace(t) \/ Expire(t)
  \/ SweepExpired

Spec == Init /\ [][Next]_vars

-----------------------------------------------------------------------------
(* Properties. *)

Consumed(t) == row[t] \in {"recent", "old"}
Successor(n, t) == parent[n] = t /\ family[n] = family[t]

\* "exactly one of N concurrent presenters of the same token gets 1 back"
\* (RefreshTokenRepository:18): no token is ever rotated twice, and a used one was
\* rotated, in its own family.  A refusal or a rollback burns no cookie.
ExactlyOneSuccessor ==
  /\ \A m, n \in Token : parent[m] # None /\ parent[m] = parent[n] => m = n
  /\ \A t \in Token : Consumed(t) => \E n \in Token : Successor(n, t)

\* One sign-in is one session: a family never has two live rows, so the session
\* list (sessions: used_at is null) shows each device once.
OneLiveRow ==
  \A m, n \in Token :
    row[m] = "live" /\ row[n] = "live" /\ family[m] = family[n] => m = n

\* A family without rows never has one again: a rotation that read its row before
\* the family was deleted, and only then runs markUsed, brings nothing back.
Issued(f)   == \E t \in Token : family[t] = f
GoneStaysGone ==
  [][\A f \in Token : Issued(f) /\ RowsOf(f) = {} => RowsOf(f)' = {}]_table

\* Tabs of one browser racing for one cookie are never taken for theft
\* (RefreshTokenService:34-35): as long as answers arrive, no request outlives
\* the grace window and nobody has a copy of a cookie, no family is revoked as
\* reused.
NoFalseAlarm == strain = {} => \A q \in Request : pc[q] # "reuse"

\* A request whose statement waits for a row that r has locked.
WaitsFor(q, r) ==
  \/ pc[q] = "found" /\ r # q /\ HoldsLock(r, tok[q])
  \/ pc[q] = "delete" /\ \E t \in victims[q] : HoldsLock(r, t)

\* No deadlock in the table: no transaction waits for itself, and none for a circle of
\* others, the one nested in the reuse branch (REQUIRES_NEW) and the DELETEs of whole
\* families included.
NoWaitCycle ==
  \A S \in (SUBSET Request) \ {{}} : \E q \in S : \A r \in S : ~WaitsFor(q, r)

-----------------------------------------------------------------------------
(* The inductive invariant behind the safety properties. *)

\* A family is named by a token of its own, and a rotated token is in the same
\* family as its successor and never live again.
Chained ==
  /\ \A t \in Token : family[t] # None => family[family[t]] = family[t]
  /\ \A n \in Token : parent[n] # None =>
       /\ Successor(n, parent[n])
       /\ row[parent[n]] \notin {"unissued", "live"}

\* A family is one chain: only its last token has no successor.
Last(t) == family[t] # None /\ \A n \in Token : parent[n] # t
OneLast == \A m, n \in Token : Last(m) /\ Last(n) /\ family[m] = family[n] => m = n

\* Requests, cookies and deletes name tokens that were issued.
Known ==
  /\ \A b \in Browser : jar[b] # None => family[jar[b]] # None
  /\ \A q \in Request :
       /\ pc[q] \in {"sent", "found", "marked", "reuse"} => tok[q] # None
       /\ tok[q] # None => family[tok[q]] # None
       /\ \A t \in victims[q] : family[t] # None

\* The row a rotation has locked is there, unrotated, and its own.
Locked ==
  /\ \A q \in Request : pc[q] = "marked" =>
       row[tok[q]] \in {"live", "expired"} /\ Last(tok[q])
  /\ \A q, r \in Request :
       pc[q] = "marked" /\ pc[r] = "marked" /\ tok[q] = tok[r] => q = r

IInv ==
  /\ TypeOK
  /\ Chained
  /\ OneLast
  /\ ExactlyOneSuccessor
  /\ Known
  /\ Locked

\* A request at rest presents nothing, and one that deletes will not set a cookie.
AtRest ==
  \A q \in Request : /\ pc[q] = "idle" => tok[q] = None
                     /\ pc[q] = "delete" => answer[q] # "set"

\* The browsers that have t, or a request or an answer about it on its way.
Has(b, t) == jar[b] = t \/ \E q \in Request : tok[q] = t /\ by[q] = b

\* An answer on its way to b that brings the token n.
Brings(q, b, n) == pc[q] = "reply" /\ answer[q] = "set" /\ by[q] = b /\ tok[q] = n

\* As long as nothing was lost, late or copied, a token is one browser's, nobody uses
\* a new one before it arrives, and the successor of a used one is on its way to
\* whoever still has the used one, which is therefore no older than that answer.
Undisturbed ==
  /\ \A q \in Request : tok[q] # None => by[q] # None
  /\ \A t \in Token, b, c \in Browser : Has(b, t) /\ Has(c, t) => b = c
  /\ \A q, r \in Request : pc[q] = "reply" /\ answer[q] = "set" /\ tok[r] = tok[q] => r = q
  /\ \A q \in Request : pc[q] = "reply" /\ answer[q] = "set" =>
       tok[q] # None /\ ~Consumed(tok[q]) /\ \A b \in Browser : jar[b] # tok[q]
  /\ \A b \in Browser : jar[b] # None /\ Consumed(jar[b]) =>
       \E q \in Request, n \in Token : Brings(q, b, n) /\ parent[n] = jar[b]
  /\ \A q \in Request : tok[q] # None => row[tok[q]] # "old"
  /\ \A b \in Browser : jar[b] # None => row[jar[b]] # "old"
  /\ \A q \in Request : pc[q] # "reuse"

AInv == AtRest /\ (strain = {} => Undisturbed)
=============================================================================
