----------------------------- MODULE RoomProofs -----------------------------
(***************************************************************************)
(* Theorems about rooms, for any number of members, messages and requests: *)
(* who belongs to one (RoomMembership), and what the pages of a room and   *)
(* of a conversation list (RoomView, DmView), whatever the sizes of their  *)
(* loads, pages and syncs.                                                 *)
(*                                                                         *)
(* Membership: a step of one request leaves the others where they were, so *)
(* each step is first reduced to what it does to its own request and to    *)
(* the table: a quiet step reads, a closing step commits and is done.      *)
(* Lists: what each request, page and frame on its way holds is related to *)
(* what the list will be when it is applied, whenever that is.             *)
(***************************************************************************)
EXTENDS RoomMembership, MCRoomView, MCDmView, Lists, FiniteSetTheorems, SequenceTheorems, TLAPS

-----------------------------------------------------------------------------
(* Membership. *)

\* The conjuncts of the invariant, request by request.
Typed ==
  /\ kind \in {"none", "public", "private"}
  /\ role \in [User -> Roles]
  /\ pc \in [Request -> PCs]
  /\ req \in [Request -> Asked \cup {NotAsked}]
  /\ cache \in [Request -> [User -> Roles]]
  /\ hit \in [Request -> BOOLEAN]
  /\ invited \subseteq User
  /\ raced \in BOOLEAN

Rests(q) ==
  /\ pc[q] = "idle" <=> req[q] = NotAsked
  /\ pc[q] = "idle" => cache[q] = NothingIn

Own(q) == Rests(q) /\ OpAt(q) /\ TransferSound(q) /\ ActorInvited(q)

Untouched == kind = "none" => role = NothingIn /\ \A q \in Request : pc[q] = "idle"

LEMMA Parts ==
  IInv <=> /\ Typed
           /\ Untouched
           /\ \A q \in Request : Own(q)
           /\ ~raced => \A q \in Request : StillTrue(q)
           /\ SoleOwnerUnlessRaced
           /\ NobodyUninvited
BY DEF IInv, TypeOK, Typed, Untouched, Own, Rests

-----------------------------------------------------------------------------
(* Data. *)

LEMMA NotAskedIsNoRequest == NotAsked \notin Asked
BY DEF Asked, NotAsked

LEMMA AskedFields ==
  ASSUME NEW x \in Asked
  PROVE  /\ x.op \in Ops /\ x.actor \in User /\ x.target \in User /\ x.as \in Roles
         /\ x.op \in {"send", "join", "leave"} => x.target = x.actor
         /\ x.op = "changeRole" <=> x.as # "none"
BY DEF Asked

LEMMA NothingTyped == NothingIn \in [User -> Roles]
BY DEF NothingIn, Roles

\* A request at work was asked something.
LEMMA BusyAsked ==
  ASSUME Typed, NEW q \in Request, Own(q), pc[q] # "idle"
  PROVE  req[q] \in Asked
BY DEF Typed, Own, Rests

LEMMA LoadEffect ==
  ASSUME Typed, NEW q \in Request, NEW u \in User, Load(q, u)
  PROVE  /\ cache' \in [Request -> [User -> Roles]]
         /\ \A r \in Request \ {q} : cache'[r] = cache[r]
         /\ \A v \in User \ {u} : cache'[q][v] = cache[q][v]
         /\ cache'[q][u] = Seen(q, u)
BY DEF Load, Seen, Typed

-----------------------------------------------------------------------------
(* What a step does to the other requests, to the table and to its own. *)

OthersStay(q) ==
  \A r \in Request \ {q} :
    pc'[r] = pc[r] /\ req'[r] = req[r] /\ cache'[r] = cache[r] /\ hit'[r] = hit[r]

\* A quiet step reads.
Quiet(q) ==
  /\ UNCHANGED <<kind, role, past>>
  /\ pc' \in [Request -> PCs] /\ req' \in [Request -> Asked \cup {NotAsked}]
  /\ cache' \in [Request -> [User -> Roles]] /\ hit' \in [Request -> BOOLEAN]
  /\ OthersStay(q)

\* A closing step is the request's last; its commit, if there is one, made the table
\* new and is a race if it changed a role while others were at work.
Closing(q) ==
  /\ UNCHANGED kind
  /\ pc' \in [Request -> PCs] /\ req' \in [Request -> Asked \cup {NotAsked}]
  /\ cache' \in [Request -> [User -> Roles]] /\ hit' \in [Request -> BOOLEAN]
  /\ role' \in [User -> Roles]
  /\ invited \subseteq invited' /\ invited' \subseteq User
  /\ raced' \in BOOLEAN
  /\ ~raced' => ~raced /\ (role' = role \/ \A r \in Request \ {q} : pc[r] = "idle")
  /\ OthersStay(q)
  /\ pc'[q] = "idle" /\ req'[q] = NotAsked /\ cache'[q] = NothingIn /\ hit'[q] = FALSE

LEMMA FinishEffect ==
  ASSUME Typed, NEW q \in Request, Finish(q)
  PROVE  /\ pc' \in [Request -> PCs] /\ req' \in [Request -> Asked \cup {NotAsked}]
         /\ cache' \in [Request -> [User -> Roles]] /\ hit' \in [Request -> BOOLEAN]
         /\ OthersStay(q)
         /\ pc'[q] = "idle" /\ req'[q] = NotAsked /\ cache'[q] = NothingIn /\ hit'[q] = FALSE
BY NothingTyped DEF Finish, Typed, PCs, OthersStay

LEMMA CommitEffect ==
  ASSUME Typed, NEW q \in Request, NEW new \in [User -> Roles], Commit(q, new)
  PROVE  /\ role' = new
         /\ raced' \in BOOLEAN
         /\ ~raced' => ~raced /\ (role' = role \/ \A r \in Request \ {q} : pc[r] = "idle")
BY DEF Commit, Typed

\* A quiet step of q keeps the invariant if it keeps what concerns q.
LEMMA QuietKeeps ==
  ASSUME IInv, NEW q \in Request, Quiet(q), Own(q)', ~raced => StillTrue(q)',
         kind # "none"
  PROVE  IInv'
<1>1. Typed' /\ Untouched'
  BY Parts DEF Quiet, Typed, past, Untouched
<1>2. \A r \in Request : Own(r)'
  BY Parts DEF Quiet, OthersStay, Own, Rests, OpAt, TransferSound, ActorInvited, past
<1>3. ~raced' => \A r \in Request : StillTrue(r)'
  BY Parts DEF Quiet, OthersStay, StillTrue, InRoom, past
<1>4. SoleOwnerUnlessRaced' /\ NobodyUninvited'
  BY Parts DEF Quiet, SoleOwnerUnlessRaced, SoleOwner, NobodyUninvited, InRoom, past
<1> QED
  BY <1>1, <1>2, <1>3, <1>4 DEF IInv, TypeOK, Typed, Untouched, Own, Rests

\* A closing step of q keeps it if the new table does.
LEMMA ClosingKeeps ==
  ASSUME IInv, NEW q \in Request, Closing(q), kind # "none",
         SoleOwnerUnlessRaced', NobodyUninvited'
  PROVE  IInv'
<1>1. Typed' /\ Untouched'
  BY Parts DEF Closing, Typed, Untouched
<1>2. \A r \in Request : Own(r)'
  BY Parts DEF Closing, OthersStay, Own, Rests, OpAt, TransferSound, ActorInvited
<1>3. ASSUME ~raced', NEW r \in Request  PROVE StillTrue(r)'
  <2>1. CASE pc'[r] = "idle"
    <3>1. cache'[r] = NothingIn
      BY <1>2, <2>1 DEF Own, Rests
    <3> QED
      BY <2>1, <3>1 DEF StillTrue, NothingIn
  <2>2. CASE pc'[r] # "idle"
    BY <1>3, <2>2, Parts DEF Closing, OthersStay, StillTrue, InRoom
  <2> QED
    BY <2>1, <2>2
<1> QED
  BY <1>1, <1>2, <1>3 DEF IInv, TypeOK, Typed, Untouched, Own, Rests

-----------------------------------------------------------------------------
(* Quiet steps. *)

LEMMA AccessKeeps ==
  ASSUME IInv, NEW q \in Request, NEW x \in Asked, Access(q, x)
  PROVE  IInv'
<1>1. Typed /\ pc[q] = "idle" /\ cache[q] = NothingIn /\ hit[q] = FALSE /\ kind # "none"
  BY Parts DEF Access, Goto, Own, Rests, TransferSound, Typed, Exists
<1>2. /\ cache' \in [Request -> [User -> Roles]]
      /\ \A r \in Request \ {q} : cache'[r] = cache[r]
      /\ \A u \in User : cache'[q][u] # "none" => cache'[q][u] = role[u]
  <2>1. CASE kind = "private" /\ x.op # "send"
    <3>1. Load(q, x.actor) /\ x.actor \in User
      BY <2>1, AskedFields DEF Access
    <3> QED
      BY <1>1, <3>1, LoadEffect DEF Seen, NothingIn
  <2>2. CASE ~(kind = "private" /\ x.op # "send")
    BY <1>1, <2>2 DEF Access, Typed, NothingIn
  <2> QED
    BY <2>1, <2>2
<1>3. pc'[q] = AfterAccess[x.op] /\ req'[q] = x /\ hit'[q] = FALSE
  BY <1>1 DEF Access, Goto, Typed
<1>4. /\ x.op \in {"send", "join"} => pc'[q] = "look"
      /\ x.op = "leave" => pc'[q] = "target"
      /\ x.op \in {"invite", "changeRole"} => pc'[q] = "require"
      /\ x.op \in Ops
  BY <1>3, AskedFields DEF AfterAccess, Ops
<1>5. Quiet(q)
  BY <1>1, <1>2, <1>4, AskedFields DEF Quiet, OthersStay, Access, Goto, Typed, PCs, Ops
<1>6. ActorInvited(q)'
  BY <1>1, <1>3, Parts, AskedFields DEF ActorInvited, Access, MayEnter, NobodyUninvited, past
<1>7. Own(q)'
  BY <1>3, <1>4, <1>6, NotAskedIsNoRequest
     DEF Own, Rests, OpAt, TransferSound, Ops
<1>8. StillTrue(q)'
  BY <1>2, <1>3, <1>4 DEF StillTrue, Access, Ops, InRoom
<1> QED
  BY <1>1, <1>5, <1>7, <1>8, QuietKeeps

\* At work, a request was asked something, of a room that exists.
LEMMA AtWork ==
  ASSUME IInv, NEW q \in Request, pc[q] # "idle"
  PROVE  /\ Typed /\ Own(q) /\ kind # "none"
         /\ req[q] \in Asked
         /\ req[q].op \in Ops /\ req[q].actor \in User /\ req[q].target \in User
         /\ req[q].as \in Roles
         /\ req[q].op \in {"send", "join", "leave"} => req[q].target = req[q].actor
         /\ req[q].op = "changeRole" => req[q].as # "none"
         /\ ~raced => StillTrue(q)
BY Parts, BusyAsked, AskedFields DEF Untouched

LEMMA RequireKeeps ==
  ASSUME IInv, NEW q \in Request, Require(q)
  PROVE  IInv'
<1>0. pc[q] = "require" /\ pc'[q] = "target" /\ req' = req /\ hit' = hit
  BY Parts DEF Require, Goto, Typed
<1>1. Typed /\ Own(q) /\ kind # "none" /\ req[q] \in Asked /\ req[q].actor \in User
      /\ (~raced => StillTrue(q))
  BY <1>0, AtWork
<1>2. Load(q, req[q].actor)
  BY DEF Require
<1>3. Quiet(q)
  BY <1>1, <1>2, LoadEffect DEF Require, Quiet, OthersStay, Goto, Typed, PCs
<1>4. Own(q)'
  BY <1>0, <1>1, NotAskedIsNoRequest DEF Require, Own, Rests, OpAt, TransferSound, ActorInvited, past
<1>5. ~raced => StillTrue(q)'
  <2> SUFFICES ASSUME ~raced  PROVE StillTrue(q)'
    OBVIOUS
  <2>1. \A u \in User : cache'[q][u] # "none" => cache'[q][u] = role[u]
    BY <1>1, <1>2, LoadEffect DEF StillTrue, Seen
  <2>2. req[q].op = "changeRole" => role[req[q].actor] = "owner"
    BY <1>1 DEF Require, Seen, StillTrue, Allowed
  <2> QED
    BY <1>0, <2>1, <2>2 DEF StillTrue, Require, InRoom
<1> QED
  BY <1>1, <1>3, <1>4, <1>5, QuietKeeps

LEMMA MergeKeeps ==
  ASSUME IInv, NEW q \in Request, Merge(q)
  PROVE  IInv'
<1>0. pc[q] = "merge" /\ pc'[q] = "save" /\ req' = req /\ hit' = hit
  BY Parts DEF Merge, Goto, Typed
<1>1. Typed /\ Own(q) /\ kind # "none" /\ req[q] \in Asked /\ req[q].target \in User
      /\ (~raced => StillTrue(q))
  BY <1>0, AtWork
<1>2. Load(q, req[q].target)
  BY DEF Merge
<1>3. Quiet(q)
  BY <1>1, <1>2, LoadEffect DEF Merge, Quiet, OthersStay, Goto, Typed, PCs
<1>4. Own(q)'
  BY <1>0, <1>1, NotAskedIsNoRequest DEF Merge, Own, Rests, OpAt, TransferSound, ActorInvited, past
<1>5. ~raced => StillTrue(q)'
  <2> SUFFICES ASSUME ~raced  PROVE StillTrue(q)'
    OBVIOUS
  <2>1. \A u \in User : cache'[q][u] # "none" => cache'[q][u] = role[u]
    BY <1>1, <1>2, LoadEffect DEF StillTrue, Seen
  <2> QED
    BY <1>0, <1>1, <2>1 DEF StillTrue, Merge, InRoom
<1> QED
  BY <1>1, <1>3, <1>4, <1>5, QuietKeeps

LEMMA LookKeeps ==
  ASSUME IInv, NEW q \in Request, Look(q)
  PROVE  IInv'
<1>0. pc[q] \in {"look", "target"} /\ pc'[q] = "merge" /\ UNCHANGED <<role, req, cache, hit>>
  BY Parts DEF Look, Typed
<1>1. Typed /\ Own(q) /\ kind # "none" /\ req[q] \in Asked /\ (~raced => StillTrue(q))
  BY <1>0, AtWork
<1>2. Quiet(q)
  BY <1>1 DEF Look, Quiet, OthersStay, Typed, PCs
<1>3. Own(q)'
  BY <1>0, <1>1, NotAskedIsNoRequest DEF Look, Own, Rests, OpAt, TransferSound, ActorInvited, past
<1>4. ~raced => StillTrue(q)'
  BY <1>0, <1>1 DEF Look, StillTrue, InRoom
<1> QED
  BY <1>1, <1>2, <1>3, <1>4, QuietKeeps

LEMMA LeaveAllowedKeeps ==
  ASSUME IInv, NEW q \in Request, LeaveAllowed(q)
  PROVE  IInv'
<1>0. pc[q] = "target" /\ pc'[q] = "remove" /\ UNCHANGED <<role, req, cache, hit>>
  BY Parts DEF LeaveAllowed, Goto, Typed
<1>1. Typed /\ Own(q) /\ kind # "none" /\ req[q] \in Asked /\ req[q].actor \in User
      /\ (~raced => StillTrue(q))
  BY <1>0, AtWork
<1>2. Quiet(q)
  BY <1>1 DEF LeaveAllowed, Goto, Quiet, OthersStay, Typed, PCs
<1>3. Own(q)'
  BY <1>0, <1>1, NotAskedIsNoRequest
     DEF LeaveAllowed, Own, Rests, OpAt, TransferSound, ActorInvited, past
<1>4. ~raced => StillTrue(q)'
  BY <1>0, <1>1 DEF LeaveAllowed, StillTrue, InRoom, Seen
<1> QED
  BY <1>1, <1>2, <1>3, <1>4, QuietKeeps

LEMMA TargetFoundKeeps ==
  ASSUME IInv, NEW q \in Request, TargetFound(q)
  PROVE  IInv'
<1>0. /\ pc[q] = "target" /\ UNCHANGED <<role, req, cache, hit>>
      /\ req[q].as = "owner" => pc'[q] = "demote"
      /\ req[q].as # "owner" => pc'[q] = "promote"
  BY Parts DEF TargetFound, Goto, Typed
<1>1. Typed /\ Own(q) /\ kind # "none" /\ req[q] \in Asked /\ (~raced => StillTrue(q))
  BY <1>0, AtWork
<1>2. Quiet(q)
  BY <1>1 DEF TargetFound, Goto, Quiet, OthersStay, Typed, PCs
<1>3. Own(q)'
  BY <1>0, <1>1, NotAskedIsNoRequest
     DEF TargetFound, Own, Rests, OpAt, TransferSound, ActorInvited, past
<1>4. ~raced => StillTrue(q)'
  BY <1>0, <1>1 DEF TargetFound, StillTrue, InRoom
<1> QED
  BY <1>1, <1>2, <1>3, <1>4, QuietKeeps

LEMMA DemoteKeeps ==
  ASSUME IInv, NEW q \in Request, Demote(q)
  PROVE  IInv'
<1>0. /\ pc[q] = "demote" /\ pc'[q] = "promote" /\ UNCHANGED <<role, req, cache>>
      /\ hit'[q] = InRoom(req[q].actor)
  BY Parts DEF Demote, Goto, Typed
<1>1. Typed /\ Own(q) /\ kind # "none" /\ req[q] \in Asked /\ (~raced => StillTrue(q))
  BY <1>0, AtWork
<1>2. Quiet(q)
  <2>1. InRoom(req[q].actor) \in BOOLEAN
    BY DEF InRoom
  <2> QED
    BY <1>1, <2>1 DEF Demote, Goto, Quiet, OthersStay, Typed, PCs
<1>3. Own(q)'
  BY <1>0, <1>1, NotAskedIsNoRequest DEF Demote, Own, Rests, OpAt, TransferSound, ActorInvited, past
<1>4. ~raced => StillTrue(q)'
  BY <1>0, <1>1 DEF Demote, StillTrue, InRoom
<1> QED
  BY <1>1, <1>2, <1>3, <1>4, QuietKeeps

-----------------------------------------------------------------------------
(* Closing steps. *)

\* The request ends and the table stays.
LEMMA FinishKeeps ==
  ASSUME IInv, NEW q \in Request, pc[q] # "idle", Finish(q), UNCHANGED <<kind, role, past>>
  PROVE  IInv'
<1>1. Typed /\ kind # "none"
  BY AtWork
<1>2. Closing(q)
  BY <1>1, FinishEffect DEF Closing, Typed, past
<1>3. SoleOwnerUnlessRaced' /\ NobodyUninvited'
  BY Parts DEF SoleOwnerUnlessRaced, SoleOwner, NobodyUninvited, InRoom, past
<1> QED
  BY <1>1, <1>2, <1>3, ClosingKeeps

LEMMA InsertKeeps ==
  ASSUME IInv, NEW q \in Request, Insert(q)
  PROVE  IInv'
<1> DEFINE t == req[q].target
           new == [role EXCEPT ![t] = "member"]
<1>0. pc[q] = "save" /\ ~InRoom(t) /\ Commit(q, new) /\ Finish(q) /\ kind' = kind
      /\ invited' = IF req[q].op = "invite" THEN invited \cup {t} ELSE invited
  BY DEF Insert
<1>1. /\ Typed /\ Own(q) /\ kind # "none" /\ t \in User
      /\ req[q].op \in {"send", "join"} => t = req[q].actor
  BY <1>0, AtWork
<1>2. new \in [User -> Roles]
  BY <1>1 DEF Typed, Roles
<1>3. role' = new /\ (~raced' => ~raced)
  BY <1>0, <1>1, <1>2, CommitEffect
<1>4. Closing(q)
  <2>1. invited \subseteq invited' /\ invited' \subseteq User
    BY <1>0, <1>1 DEF Typed
  <2> HIDE DEF new, t
  <2> QED
    BY <1>0, <1>1, <1>2, <2>1, CommitEffect, FinishEffect DEF Closing
<1>5. SoleOwnerUnlessRaced'
  <2> SUFFICES ASSUME ~raced'  PROVE SoleOwner'
    BY DEF SoleOwnerUnlessRaced
  <2>1. PICK u \in User : \A v \in User : role[v] = "owner" <=> v = u
    BY <1>1, <1>3, Parts DEF SoleOwnerUnlessRaced, SoleOwner
  <2>2. \A v \in User : role'[v] = "owner" <=> v = u
    BY <1>0, <1>1, <1>3, <2>1 DEF InRoom, Typed
  <2> QED
    BY <2>2 DEF SoleOwner
<1>6. NobodyUninvited'
  <2>1. kind = "private" => t \in invited'
    BY <1>0, <1>1 DEF Own, OpAt, ActorInvited
  <2>2. \A v \in User \ {t} : role'[v] = role[v]
    BY <1>1, <1>3 DEF Typed
  <2> HIDE DEF t
  <2> QED
    BY <1>0, <1>4, <2>1, <2>2, Parts DEF NobodyUninvited, InRoom, Closing
<1> QED
  BY <1>1, <1>4, <1>5, <1>6, ClosingKeeps

\* Whoever's row is overwritten had one, so a race has happened before.
LEMMA OverwriteKeeps ==
  ASSUME IInv, NEW q \in Request, Overwrite(q)
  PROVE  IInv'
<1> DEFINE t == req[q].target
           new == [role EXCEPT ![t] = "member"]
<1>0. pc[q] = "save" /\ cache[q][t] # "none" /\ Finish(q) /\ UNCHANGED <<kind, invited>>
  BY DEF Overwrite
<1>1. Typed /\ kind # "none" /\ t \in User /\ (~raced => StillTrue(q))
  BY <1>0, AtWork
<1>2. CASE cache[q][t] = "member"
  BY <1>0, <1>2, FinishKeeps DEF Overwrite, past
<1>3. CASE cache[q][t] # "member"
  <2>1. InRoom(t) /\ Commit(q, new)
    BY <1>3 DEF Overwrite
  <2>2. new \in [User -> Roles]
    BY <1>1 DEF Typed, Roles
  <2>3. role' = new /\ (~raced' => ~raced)
    BY <1>1, <2>1, <2>2, CommitEffect
  <2>4. raced'
    BY <1>0, <1>1, <2>1, <2>3 DEF StillTrue
  <2>5. \A v \in User : InRoom(v) <=> role'[v] # "none"
    BY <1>1, <2>1, <2>3 DEF InRoom, Typed
  <2> HIDE DEF new, t
  <2>6. Closing(q)
    BY <1>0, <1>1, <2>1, <2>2, CommitEffect, FinishEffect DEF Closing, Typed
  <2>7. SoleOwnerUnlessRaced' /\ NobodyUninvited'
    BY <1>0, <2>4, <2>5, Parts DEF SoleOwnerUnlessRaced, NobodyUninvited, InRoom
  <2> QED
    BY <1>1, <2>6, <2>7, ClosingKeeps
<1> QED
  BY <1>2, <1>3

LEMMA RemoveKeeps ==
  ASSUME IInv, NEW q \in Request, Remove(q)
  PROVE  IInv'
<1> DEFINE a == req[q].actor
           new == [role EXCEPT ![a] = "none"]
<1>0. pc[q] = "remove" /\ Commit(q, new) /\ Finish(q) /\ UNCHANGED <<kind, invited>>
  BY DEF Remove
<1>1. Typed /\ kind # "none" /\ a \in User /\ (~raced => StillTrue(q))
  BY <1>0, AtWork
<1>2. new \in [User -> Roles]
  BY <1>1 DEF Typed, Roles
<1>3. role' = new /\ (~raced' => ~raced)
  BY <1>0, <1>1, <1>2, CommitEffect
<1>4. Closing(q)
  <2> HIDE DEF new, a
  <2> QED
    BY <1>0, <1>1, <1>2, CommitEffect, FinishEffect DEF Closing, Typed
<1>5. SoleOwnerUnlessRaced'
  <2> SUFFICES ASSUME ~raced'  PROVE SoleOwner'
    BY DEF SoleOwnerUnlessRaced
  <2>1. PICK u \in User : \A v \in User : role[v] = "owner" <=> v = u
    BY <1>1, <1>3, Parts DEF SoleOwnerUnlessRaced, SoleOwner
  <2>2. role[a] # "owner"
    BY <1>0, <1>1, <1>3 DEF StillTrue
  <2>3. \A v \in User : role'[v] = "owner" <=> v = u
    BY <1>1, <1>3, <2>1, <2>2 DEF Typed
  <2> QED
    BY <2>3 DEF SoleOwner
<1>6. NobodyUninvited'
  <2>1. \A v \in User : role'[v] # "none" => InRoom(v)
    BY <1>1, <1>3 DEF InRoom, Typed
  <2> QED
    BY <1>0, <2>1, Parts DEF NobodyUninvited, InRoom
<1> QED
  BY <1>1, <1>4, <1>5, <1>6, ClosingKeeps

\* Without a race the actor still is the owner: a transfer moves the role, any other
\* change is of somebody else's.
LEMMA PromoteKeeps ==
  ASSUME IInv, NEW q \in Request, Promote(q)
  PROVE  IInv'
<1> DEFINE r == req[q]
           new == Changed(q)
<1>0. pc[q] = "promote" /\ Commit(q, new) /\ Finish(q) /\ UNCHANGED <<kind, invited>>
  BY DEF Promote
<1>1. /\ Typed /\ Own(q) /\ kind # "none" /\ (~raced => StillTrue(q))
      /\ r.actor \in User /\ r.target \in User /\ r.as \in Roles /\ r.op \in Ops
      /\ r.op = "changeRole" => r.as # "none"
  BY <1>0, AtWork
<1>2. new \in [User -> Roles]
  BY <1>1 DEF Changed, Typed, Roles
<1>3. role' = new /\ (~raced' => ~raced)
  BY <1>0, <1>1, <1>2, CommitEffect
<1>4. Closing(q)
  <2> HIDE DEF new
  <2> QED
    BY <1>0, <1>1, <1>2, CommitEffect, FinishEffect DEF Closing, Typed
<1>5. SoleOwnerUnlessRaced'
  <2> SUFFICES ASSUME ~raced'  PROVE SoleOwner'
    BY DEF SoleOwnerUnlessRaced
  <2>1. PICK u \in User : \A v \in User : role[v] = "owner" <=> v = u
    BY <1>1, <1>3, Parts DEF SoleOwnerUnlessRaced, SoleOwner
  <2>2. r.actor = u /\ r.target # u /\ InRoom(r.target) /\ (hit[q] <=> r.as = "owner")
    BY <1>0, <1>1, <1>3, <2>1 DEF StillTrue, Own, TransferSound
  <2>3. CASE r.as = "owner"
    <3>1. \A v \in User : role'[v] = "owner" <=> v = r.target
      BY <1>1, <1>3, <2>1, <2>2, <2>3 DEF Changed
    <3> QED
      BY <1>1, <3>1 DEF SoleOwner
  <2>4. CASE r.as # "owner"
    <3>1. \A v \in User : role'[v] = "owner" <=> v = u
      BY <1>1, <1>3, <2>1, <2>2, <2>4 DEF Changed
    <3> QED
      BY <3>1 DEF SoleOwner
  <2> QED
    BY <2>3, <2>4
<1>6. NobodyUninvited'
  <2>1. hit[q] => r.as = "owner"
    BY <1>1 DEF Own, TransferSound
  <2>2. \A v \in User : v # r.actor /\ role'[v] # "none" => InRoom(v)
    BY <1>1, <1>3 DEF InRoom, Changed
  <2>3. kind = "private" => r.actor \in invited
    BY <1>0, <1>1 DEF Own, ActorInvited
  <2> QED
    BY <1>0, <2>2, <2>3, Parts DEF NobodyUninvited, InRoom
<1> QED
  BY <1>1, <1>4, <1>5, <1>6, ClosingKeeps

-----------------------------------------------------------------------------
(* The creation, and every step. *)

LEMMA CreateKeeps ==
  ASSUME IInv, NEW u \in User, NEW private \in BOOLEAN, Create(u, private)
  PROVE  IInv'
<1>1. Typed /\ role = NothingIn /\ \A q \in Request : pc[q] = "idle" /\ Own(q)
  BY Parts DEF Create, Untouched
<1>2. \A v \in User : role'[v] = IF v = u THEN "owner" ELSE "none"
  BY <1>1 DEF Create, NothingIn
<1>3. Typed' /\ Untouched'
  BY <1>1 DEF Create, Typed, Untouched, Roles, requests
<1>4. ASSUME NEW q \in Request  PROVE Own(q)' /\ StillTrue(q)'
  BY <1>1 DEF Create, Own, Rests, OpAt, TransferSound, ActorInvited, StillTrue, NothingIn,
              requests, InRoom
<1>5. SoleOwnerUnlessRaced' /\ NobodyUninvited'
  BY <1>1, <1>2 DEF Create, SoleOwnerUnlessRaced, SoleOwner, NobodyUninvited, InRoom
<1> QED
  BY <1>3, <1>4, <1>5 DEF IInv, TypeOK, Typed, Untouched, Own, Rests

LEMMA Start ==
  Init => IInv
<1> SUFFICES ASSUME Init  PROVE IInv
  OBVIOUS
<1>1. TypeOK
  BY NothingTyped DEF Init, TypeOK, PCs
<1> QED
  BY <1>1 DEF Init, IInv, OpAt, TransferSound, ActorInvited, StillTrue, SoleOwnerUnlessRaced,
              NobodyUninvited, NothingIn

LEMMA StutterKeeps ==
  IInv /\ UNCHANGED vars => IInv'
BY DEF vars, requests, past, IInv, TypeOK, OpAt, TransferSound, ActorInvited, StillTrue,
       SoleOwnerUnlessRaced, SoleOwner, NobodyUninvited, InRoom

LEMMA Step ==
  IInv /\ [Next]_vars => IInv'
<1> SUFFICES ASSUME IInv, [Next]_vars  PROVE IInv'
  OBVIOUS
<1>1. CASE UNCHANGED vars
  BY <1>1, StutterKeeps
<1>2. ASSUME NEW u \in User, NEW private \in BOOLEAN, Create(u, private)  PROVE IInv'
  BY <1>2, CreateKeeps
<1>3. ASSUME NEW q \in Request, Work(q)  PROVE IInv'
  <2>1. ASSUME NEW x \in Asked, Access(q, x)  PROVE IInv'
    BY <2>1, AccessKeeps
  <2>2. CASE AlreadyIn(q) \/ Fail(q)
    BY <2>2, FinishKeeps DEF AlreadyIn, Fail
  <2> QED
    BY <1>3, <2>1, <2>2, RequireKeeps, LookKeeps, MergeKeeps, InsertKeeps, OverwriteKeeps,
       LeaveAllowedKeeps, RemoveKeeps, TargetFoundKeeps, DemoteKeeps, PromoteKeeps DEF Work
<1> QED
  BY <1>1, <1>2, <1>3 DEF Next

-----------------------------------------------------------------------------

\* The inductive invariant holds in every reachable state of a room.
THEOREM Invariance == Spec => []IInv
BY Start, Step, PTL DEF Spec

\* Every variable keeps its type; a room that was never created has no rows and
\* serves no request.
THEOREM TypeCorrect == Spec => []TypeOK
<1>1. IInv => TypeOK
  BY DEF IInv
<1> QED
  BY <1>1, Invariance, PTL

\* Until a commit races another request a room has exactly one owner.
THEOREM SoleOwnerAlways == Spec => []SoleOwnerUnlessRaced
<1>1. IInv => SoleOwnerUnlessRaced
  BY DEF IInv
<1> QED
  BY <1>1, Invariance, PTL

\* Whatever races, nobody is in a private room who never was its creator or invited.
THEOREM NobodyUninvitedAlways == Spec => []NobodyUninvited
<1>1. IInv => NobodyUninvited
  BY DEF IInv
<1> QED
  BY <1>1, Invariance, PTL

-----------------------------------------------------------------------------
(* Lists. *)

\* An order of a finite set by the elements up to each: all of them, each once.
LEMMA RankedLists ==
  ASSUME NEW S, IsFiniteSet(S), NEW upTo \in [S -> SUBSET S],
         \A i \in S : i \in upTo[i],
         \A i, j \in S : i # j => \/ upTo[i] \subseteq upTo[j] /\ j \notin upTo[i]
                                  \/ upTo[j] \subseteq upTo[i] /\ i \notin upTo[j]
  PROVE  /\ Cardinality(S) \in Nat
         /\ DOMAIN Ranked(upTo) = 1..Cardinality(S)
         /\ \A n \in 1..Cardinality(S) : Ranked(upTo)[n] \in S
         /\ \A m, n \in 1..Cardinality(S) :
              m < n => upTo[Ranked(upTo)[m]] \subseteq upTo[Ranked(upTo)[n]]
                       /\ Ranked(upTo)[n] \notin upTo[Ranked(upTo)[m]]
         /\ \A i \in S : \E n \in 1..Cardinality(S) : Ranked(upTo)[n] = i
<1> DEFINE rank == [i \in S |-> Cardinality(upTo[i])]
           size == Cardinality(S)
<1>0. DOMAIN upTo = S
  OBVIOUS
<1>1. size \in Nat
  BY FS_CardinalityType
<1>2. ASSUME NEW i \in S
      PROVE  /\ IsFiniteSet(upTo[i])
             /\ Cardinality(upTo[i]) \in 1..size
  <2>1. upTo[i] \in SUBSET S /\ i \in upTo[i]
    OBVIOUS
  <2>2. IsFiniteSet(upTo[i]) /\ Cardinality(upTo[i]) <= size
    BY <2>1, FS_Subset
  <2>3. Cardinality(upTo[i]) \in Nat
    BY <2>2, FS_CardinalityType
  <2>4. Cardinality(upTo[i]) # 0
    BY <2>1, <2>2, FS_EmptySet
  <2> QED
    BY <1>1, <2>2, <2>3, <2>4
<1>3. ASSUME NEW i \in S, NEW j \in S, upTo[i] \subseteq upTo[j], j \notin upTo[i]
      PROVE  Cardinality(upTo[i]) < Cardinality(upTo[j])
  <2>1. upTo[i] \in SUBSET upTo[j] /\ upTo[i] # upTo[j]
    BY <1>3
  <2>2. Cardinality(upTo[i]) <= Cardinality(upTo[j])
        /\ (Cardinality(upTo[j]) = Cardinality(upTo[i]) => upTo[i] = upTo[j])
    BY <1>2, <2>1, FS_Subset
  <2>3. Cardinality(upTo[i]) \in 1..size /\ Cardinality(upTo[j]) \in 1..size
    BY <1>2
  <2> QED
    BY <1>1, <2>1, <2>2, <2>3
<1>4. rank \in Injection(S, 1..size)
  <2>1. rank \in [S -> 1..size]
    BY <1>2
  <2>2. \A i, j \in S : rank[i] = rank[j] => i = j
    <3> SUFFICES ASSUME NEW i \in S, NEW j \in S, i # j  PROVE rank[i] # rank[j]
      OBVIOUS
    <3>1. rank[i] \in Nat /\ rank[j] \in Nat
      BY <1>1, <2>1
    <3>2. CASE upTo[i] \subseteq upTo[j] /\ j \notin upTo[i]
      BY <1>3, <3>1, <3>2
    <3>3. CASE upTo[j] \subseteq upTo[i] /\ i \notin upTo[j]
      BY <1>3, <3>1, <3>3
    <3> QED
      BY <3>2, <3>3
  <2> QED
    BY <2>1, <2>2 DEF Injection, IsInjective
<1>5. rank \in Surjection(S, 1..size)
  <2>1. IsFiniteSet(1..size) /\ Cardinality(1..size) = size
    <3>1. IsFiniteSet(1..size) /\ Cardinality(1..size) = IF 1 > size THEN 0 ELSE size - 1 + 1
      BY <1>1, FS_Interval
    <3> QED
      BY <1>1, <3>1
  <2> QED
    BY <1>4, <2>1, FS_Injection
<1>6. ASSUME NEW n \in 1..size
      PROVE  Ranked(upTo)[n] \in S /\ Cardinality(upTo[Ranked(upTo)[n]]) = n
  <2>1. PICK i \in S : Cardinality(upTo[i]) = n
    BY <1>5 DEF Surjection
  <2>2. Ranked(upTo)[n] = CHOOSE k \in S : Cardinality(upTo[k]) = n
    BY <1>0, <1>6 DEF Ranked, Nth
  <2> QED
    BY <2>1, <2>2
<1>7. ASSUME NEW m \in 1..size, NEW n \in 1..size, m < n
      PROVE  upTo[Ranked(upTo)[m]] \subseteq upTo[Ranked(upTo)[n]]
             /\ Ranked(upTo)[n] \notin upTo[Ranked(upTo)[m]]
  <2> DEFINE i == Ranked(upTo)[m]
             j == Ranked(upTo)[n]
  <2>1. i \in S /\ j \in S /\ Cardinality(upTo[i]) = m /\ Cardinality(upTo[j]) = n
    BY <1>6
  <2> HIDE DEF i, j
  <2>2. i # j
    BY <1>7, <2>1
  <2>3. ~(upTo[j] \subseteq upTo[i] /\ i \notin upTo[j])
    BY <1>1, <1>3, <1>7, <2>1
  <2>4. upTo[i] \subseteq upTo[j] /\ j \notin upTo[i]
    BY <2>1, <2>2, <2>3
  <2> QED
    BY <2>4 DEF i, j
<1>8. ASSUME NEW i \in S
      PROVE  \E n \in 1..size : Ranked(upTo)[n] = i
  <2> DEFINE n == Cardinality(upTo[i])
             j == Ranked(upTo)[n]
  <2>1. n \in 1..size
    BY <1>2
  <2>2. j \in S /\ Cardinality(upTo[j]) = n
    BY <1>6, <2>1
  <2>3. rank[i] = rank[j]
    BY <2>2
  <2>4. i = j
    BY <1>4, <2>2, <2>3 DEF Injection, IsInjective
  <2> QED
    BY <2>1, <2>4
<1>9. DOMAIN Ranked(upTo) = 1..size
  BY <1>0 DEF Ranked
<1> QED
  BY <1>1, <1>6, <1>7, <1>8, <1>9

\* So a finite set of numbers, in order.
LEMMA AscendingLists ==
  ASSUME NEW S \in SUBSET Nat, IsFiniteSet(S)
  PROVE  /\ Cardinality(S) \in Nat
         /\ DOMAIN Ascending(S) = 1..Cardinality(S)
         /\ \A n \in 1..Cardinality(S) : Ascending(S)[n] \in S
         /\ \A m, n \in 1..Cardinality(S) : m < n => Ascending(S)[m] < Ascending(S)[n]
         /\ \A i \in S : \E n \in 1..Cardinality(S) : Ascending(S)[n] = i
<1> DEFINE upTo == [i \in S |-> {j \in S : j <= i}]
           size == Cardinality(S)
<1>1. upTo \in [S -> SUBSET S] /\ \A i \in S : i \in upTo[i]
  OBVIOUS
<1>2. ASSUME NEW i \in S, NEW j \in S, i # j
      PROVE  \/ upTo[i] \subseteq upTo[j] /\ j \notin upTo[i]
             \/ upTo[j] \subseteq upTo[i] /\ i \notin upTo[j]
  <2>1. i \in Nat /\ j \in Nat
    OBVIOUS
  <2>2. CASE i < j
    <3>1. ASSUME NEW k \in S, k <= i  PROVE k <= j
      <4>1. k \in Nat
        BY <3>1
      <4> QED
        BY <2>1, <2>2, <3>1, <4>1
    <3>2. j \in upTo[j] /\ j \notin upTo[i]
      BY <2>1, <2>2
    <3>3. upTo[i] \subseteq upTo[j]
      BY <3>1
    <3> QED
      BY <3>2, <3>3
  <2>3. CASE j < i
    <3>1. ASSUME NEW k \in S, k <= j  PROVE k <= i
      <4>1. k \in Nat
        BY <3>1
      <4> QED
        BY <2>1, <2>3, <3>1, <4>1
    <3>2. i \in upTo[i] /\ i \notin upTo[j]
      BY <2>1, <2>3
    <3>3. upTo[j] \subseteq upTo[i]
      BY <3>1
    <3> QED
      BY <3>2, <3>3
  <2> QED
    BY <1>2, <2>1, <2>2, <2>3
<1>3. Ascending(S) = Ranked(upTo)
  BY DEF Ascending
<1> HIDE DEF upTo
<1>4. /\ size \in Nat
      /\ DOMAIN Ranked(upTo) = 1..size
      /\ \A n \in 1..size : Ranked(upTo)[n] \in S
      /\ \A m, n \in 1..size : m < n => Ranked(upTo)[n] \notin upTo[Ranked(upTo)[m]]
      /\ \A i \in S : \E n \in 1..size : Ranked(upTo)[n] = i
  BY <1>1, <1>2, RankedLists
<1>5. ASSUME NEW m \in 1..size, NEW n \in 1..size, m < n
      PROVE  Ranked(upTo)[m] < Ranked(upTo)[n]
  <2>1. PICK i \in S : i = Ranked(upTo)[m]
    BY <1>4
  <2>2. PICK j \in S : j = Ranked(upTo)[n]
    BY <1>4
  <2>3. j \notin upTo[i]
    BY <1>4, <1>5, <2>1, <2>2
  <2>4. i \in Nat /\ j \in Nat /\ ~(j <= i)
    BY <2>3 DEF upTo
  <2> QED
    BY <2>1, <2>2, <2>4
<1> QED
  BY <1>3, <1>4, <1>5

\* A function on 1..n is a sequence.
LEMMA AreLists ==
  ASSUME NEW E, NEW n \in Nat, NEW f, f \in [1..n -> E]
  PROVE  f \in Seq(E) /\ DOMAIN f = 1..n
<1>1. f = [i \in 1..n |-> f[i]] /\ \A i \in 1..n : f[i] \in E
  OBVIOUS
<1> QED
  BY <1>1

\* The places of a list are numbers, and finitely many.
LEMMA Places ==
  ASSUME NEW E, NEW s \in Seq(E), NEW K \in SUBSET DOMAIN s
  PROVE  K \in SUBSET Nat /\ IsFiniteSet(K)
<1>1. DOMAIN s = 1..Len(s) /\ Len(s) \in Nat
  OBVIOUS
<1>2. IsFiniteSet(1..Len(s))
  BY <1>1, FS_Interval
<1> QED
  BY <1>1, <1>2, FS_Subset

\* What is kept of a list is a list of some of its elements, each in its own place, and of
\* all that were to be kept.
LEMMA KeptLists ==
  ASSUME NEW E, NEW s \in Seq(E), NEW K \in SUBSET DOMAIN s
  PROVE  /\ Kept(s, K) \in Seq(E)
         /\ \E a \in [DOMAIN Kept(s, K) -> K] :
              /\ \A n \in DOMAIN Kept(s, K) : Kept(s, K)[n] = s[a[n]]
              /\ \A m, n \in DOMAIN Kept(s, K) : a[m] = a[n] => m = n
              /\ \A k \in K : \E n \in DOMAIN Kept(s, K) : a[n] = k
<1> DEFINE a == Ascending(K)
           size == Cardinality(K)
<1>1. K \in SUBSET Nat /\ IsFiniteSet(K)
  BY Places
<1>2. /\ size \in Nat
      /\ DOMAIN a = 1..size
      /\ \A n \in 1..size : a[n] \in K
      /\ \A m, n \in 1..size : m < n => a[m] < a[n]
      /\ \A k \in K : \E n \in 1..size : a[n] = k
  BY <1>1, AscendingLists
<1>3. Kept(s, K) = [n \in DOMAIN a |-> s[a[n]]]
  BY DEF Kept
<1>4. a = [n \in 1..size |-> a[n]]
  <2>1. DOMAIN [i \in K |-> {j \in K : j <= i}] = K
    OBVIOUS
  <2> QED
    BY <2>1 DEF Ascending, Ranked
<1> HIDE DEF a, size
<1>5. Kept(s, K) \in [1..size -> E]
  BY <1>2, <1>3
<1>6. Kept(s, K) \in Seq(E) /\ DOMAIN Kept(s, K) = 1..size
  BY <1>2, <1>5, AreLists
<1>7. a \in [DOMAIN Kept(s, K) -> K]
  BY <1>2, <1>4, <1>6
<1>8. ASSUME NEW m \in 1..size, NEW n \in 1..size, a[m] = a[n]
      PROVE  m = n
  <2>1. a[m] \in Nat /\ a[n] \in Nat
    BY <1>1, <1>2
  <2>2. ~(m < n) /\ ~(n < m)
    BY <1>2, <1>8, <2>1
  <2> QED
    BY <1>2, <2>2
<1> QED
  BY <1>2, <1>3, <1>6, <1>7, <1>8

\* A list with one more at its end, and one with one replaced.
LEMMA Longer ==
  ASSUME NEW E, NEW s \in Seq(E), NEW e \in E
  PROVE  /\ Append(s, e) \in Seq(E)
         /\ DOMAIN Append(s, e) = DOMAIN s \cup {Len(s) + 1}
         /\ Len(s) + 1 \notin DOMAIN s
         /\ \A k \in DOMAIN s : Append(s, e)[k] = s[k]
         /\ Append(s, e)[Len(s) + 1] = e
OBVIOUS

\* A list with one element replaced.
LEMMA Replaced ==
  ASSUME NEW E, NEW s \in Seq(E), NEW e \in E, NEW j \in DOMAIN s
  PROVE  /\ [s EXCEPT ![j] = e] \in Seq(E)
         /\ DOMAIN [s EXCEPT ![j] = e] = DOMAIN s
         /\ \A k \in DOMAIN s : [s EXCEPT ![j] = e][k] = IF k = j THEN e ELSE s[k]
OBVIOUS

-----------------------------------------------------------------------------
(* The room page. *)

\* A finite set of numbers has a least and a greatest.
LEMMA Extremes ==
  ASSUME NEW S \in SUBSET Nat, IsFiniteSet(S), S # {}
  PROVE  /\ Min(S) \in S /\ \A i \in S : Min(S) <= i
         /\ Max(S) \in S /\ \A i \in S : i <= Max(S)
<1> DEFINE a == Ascending(S)
           size == Cardinality(S)
<1>1. /\ size \in Nat
      /\ \A n \in 1..size : a[n] \in S
      /\ \A m, n \in 1..size : m < n => a[m] < a[n]
      /\ \A i \in S : \E n \in 1..size : a[n] = i
  BY AscendingLists
<1> HIDE DEF a, size
<1>2. 1 \in 1..size /\ size \in 1..size
  <2>1. PICK i \in S : TRUE
    OBVIOUS
  <2>2. PICK n \in 1..size : a[n] = i
    BY <1>1, <2>1
  <2> QED
    BY <1>1, <2>2
<1>3. ASSUME NEW i \in S
      PROVE  a[1] <= i /\ i <= a[size]
  <2>1. PICK n \in 1..size : a[n] = i
    BY <1>1
  <2>2. a[1] \in Nat /\ i \in Nat /\ a[size] \in Nat
    BY <1>1, <1>2
  <2>3. n = 1 \/ a[1] < a[n]
    BY <1>1, <1>2
  <2>4. n = size \/ a[n] < a[size]
    BY <1>1, <1>2
  <2> QED
    BY <2>1, <2>2, <2>3, <2>4
<1>4. \E x \in S : \A y \in S : x <= y
  BY <1>1, <1>2, <1>3
<1>5. \E x \in S : \A y \in S : x >= y
  <2>1. a[size] \in S /\ \A y \in S : a[size] >= y
    BY <1>1, <1>2, <1>3
  <2> QED
    BY <2>1
<1>6. Min(S) \in S /\ \A i \in S : Min(S) <= i
  BY <1>4 DEF Min
<1>7. Max(S) \in S /\ \A i \in S : Max(S) >= i
  BY <1>5 DEF Max
<1>8. \A i \in S : i <= Max(S)
  BY <1>7
<1> QED
  BY <1>6, <1>7, <1>8

\* A page of the newest is what there is from some message on ...
LEMMA LargestLast ==
  ASSUME NEW S \in SUBSET Nat, IsFiniteSet(S), NEW n \in Nat \ {0}
  PROVE  /\ Largest(S, n) \in SUBSET S
         /\ S # {} => Largest(S, n) # {}
         /\ \A i \in Largest(S, n), j \in S : i <= j => j \in Largest(S, n)
<1>1. Largest(S, n) \in SUBSET S
  BY DEF Largest
<1>2. ASSUME S # {}  PROVE Largest(S, n) # {}
  <2>1. PICK m \in S : \A i \in S : i <= m
    BY <1>2, Extremes
  <2>2. ASSUME NEW j \in S  PROVE ~(j > m)
    <3>1. j \in Nat /\ m \in Nat
      BY <2>2
    <3> QED
      BY <2>1, <3>1
  <2>3. {j \in S : j > m} = {}
    BY <2>2
  <2>4. Cardinality({j \in S : j > m}) = 0
    BY <2>3, FS_EmptySet
  <2> QED
    BY <2>4 DEF Largest
<1>3. ASSUME NEW i \in Largest(S, n), NEW j \in S, i <= j
      PROVE  j \in Largest(S, n)
  <2> DEFINE I == {k \in S : k > i}
             J == {k \in S : k > j}
  <2>1. J \in SUBSET I
    <3>1. i \in Nat /\ j \in Nat
      BY <1>1, <1>3
    <3>2. ASSUME NEW k \in S, k > j  PROVE k > i
      <4>1. k \in Nat
        BY <3>2
      <4> QED
        BY <1>3, <3>1, <3>2, <4>1
    <3> QED
      BY <3>2
  <2>2. IsFiniteSet(I)
    <3>1. I \in SUBSET S
      OBVIOUS
    <3> QED
      BY <3>1, FS_Subset
  <2>3. Cardinality(I) \in Nat /\ Cardinality(J) \in Nat /\ Cardinality(J) <= Cardinality(I)
    BY <2>1, <2>2, FS_Subset, FS_CardinalityType
  <2>4. Cardinality(I) < n
    BY <1>3 DEF Largest
  <2>5. Cardinality(J) < n
    BY <2>3, <2>4
  <2> QED
    BY <2>5 DEF Largest
<1> QED
  BY <1>1, <1>2, <1>3

\* ... and a page of a catch-up what there is up to one.
LEMMA SmallestFirst ==
  ASSUME NEW S \in SUBSET Nat, IsFiniteSet(S), NEW n \in Nat \ {0}
  PROVE  /\ Smallest(S, n) \in SUBSET S
         /\ S # {} => Smallest(S, n) # {}
         /\ \A i \in Smallest(S, n), j \in S : j <= i => j \in Smallest(S, n)
<1>1. Smallest(S, n) \in SUBSET S
  BY DEF Smallest
<1>2. ASSUME S # {}  PROVE Smallest(S, n) # {}
  <2>1. PICK m \in S : \A i \in S : m <= i
    BY <1>2, Extremes
  <2>2. ASSUME NEW j \in S  PROVE ~(j < m)
    <3>1. j \in Nat /\ m \in Nat
      BY <2>2
    <3> QED
      BY <2>1, <3>1
  <2>3. {j \in S : j < m} = {}
    BY <2>2
  <2>4. Cardinality({j \in S : j < m}) = 0
    BY <2>3, FS_EmptySet
  <2> QED
    BY <2>4 DEF Smallest
<1>3. ASSUME NEW i \in Smallest(S, n), NEW j \in S, j <= i
      PROVE  j \in Smallest(S, n)
  <2> DEFINE I == {k \in S : k < i}
             J == {k \in S : k < j}
  <2>1. J \in SUBSET I
    <3>1. i \in Nat /\ j \in Nat
      BY <1>1, <1>3
    <3>2. ASSUME NEW k \in S, k < j  PROVE k < i
      <4>1. k \in Nat
        BY <3>2
      <4> QED
        BY <1>3, <3>1, <3>2, <4>1
    <3> QED
      BY <3>2
  <2>2. IsFiniteSet(I)
    <3>1. I \in SUBSET S
      OBVIOUS
    <3> QED
      BY <3>1, FS_Subset
  <2>3. Cardinality(I) \in Nat /\ Cardinality(J) \in Nat /\ Cardinality(J) <= Cardinality(I)
    BY <2>1, <2>2, FS_Subset, FS_CardinalityType
  <2>4. Cardinality(I) < n
    BY <1>3 DEF Smallest
  <2>5. Cardinality(J) < n
    BY <2>3, <2>4
  <2> QED
    BY <2>5 DEF Smallest
<1> QED
  BY <1>1, <1>2, <1>3

\* The later of two.
LEMMA LaterOf ==
  ASSUME NEW m \in Nat, NEW n \in Nat
  PROVE  Max({m, n}) = IF m >= n THEN m ELSE n
<1>1. \E x \in {m, n} : \A y \in {m, n} : x >= y
  OBVIOUS
<1>2. Max({m, n}) \in {m, n} /\ \A y \in {m, n} : Max({m, n}) >= y
  BY <1>1 DEF Max
<1> QED
  BY <1>2

\* A list joined to another.
LEMMA Joined ==
  ASSUME NEW E, NEW s \in Seq(E), NEW t \in Seq(E)
  PROVE  /\ s \o t \in Seq(E)
         /\ \A k \in DOMAIN s : k \in DOMAIN (s \o t) /\ (s \o t)[k] = s[k]
         /\ \A k \in DOMAIN t : Len(s) + k \in DOMAIN (s \o t) /\ (s \o t)[Len(s) + k] = t[k]
         /\ \A n \in DOMAIN (s \o t) : n \in DOMAIN s \/ \E k \in DOMAIN t : n = Len(s) + k
<1>1. /\ s \o t \in Seq(E) /\ Len(s) \in Nat /\ Len(t) \in Nat /\ Len(s \o t) = Len(s) + Len(t)
      /\ DOMAIN s = 1..Len(s) /\ DOMAIN t = 1..Len(t) /\ DOMAIN (s \o t) = 1..(Len(s) + Len(t))
  OBVIOUS
<1>2. \A k \in DOMAIN s : k \in DOMAIN (s \o t) /\ (s \o t)[k] = s[k]
  BY <1>1
<1>3. \A k \in DOMAIN t : Len(s) + k \in DOMAIN (s \o t) /\ (s \o t)[Len(s) + k] = t[k]
  BY <1>1
<1>4. ASSUME NEW n \in DOMAIN (s \o t), n \notin DOMAIN s
      PROVE  \E k \in DOMAIN t : n = Len(s) + k
  <2>1. n - Len(s) \in DOMAIN t /\ n = Len(s) + (n - Len(s))
    BY <1>1, <1>4
  <2> QED
    BY <2>1
<1> QED
  BY <1>1, <1>2, <1>3, <1>4

\* A list sorted is the same entries in other places.
LEMMA SortedLists ==
  ASSUME NEW s \in Seq(Entry)
  PROVE  /\ BySequence(s) \in Seq(Entry)
         /\ \E a \in [DOMAIN BySequence(s) -> DOMAIN s] :
              /\ \A n \in DOMAIN BySequence(s) : BySequence(s)[n] = s[a[n]]
              /\ \A m, n \in DOMAIN BySequence(s) : a[m] = a[n] => m = n
              /\ \A k \in DOMAIN s : \E n \in DOMAIN BySequence(s) : a[n] = k
<1> DEFINE D == DOMAIN s
           upTo == NotAfter(s)
           size == Cardinality(D)
           a == Ranked(upTo)
<1>1. D \in SUBSET Nat /\ IsFiniteSet(D)
  BY Places
<1>2. \A j \in D : s[j].id \in Nat
  <2>1. \A j \in D : s[j] \in Entry
    OBVIOUS
  <2> QED
    BY <2>1, RoomViewAssumption DEF Entry
<1>3. upTo \in [D -> SUBSET D] /\ \A j \in D : j \in upTo[j]
  BY <1>1, <1>2 DEF NotAfter
<1>4. ASSUME NEW i \in D, NEW j \in D, i # j
      PROVE  \/ upTo[i] \subseteq upTo[j] /\ j \notin upTo[i]
             \/ upTo[j] \subseteq upTo[i] /\ i \notin upTo[j]
  <2> DEFINE Before(m, n) == s[m].id < s[n].id \/ (s[m].id = s[n].id /\ m < n)
  <2>1. ASSUME NEW m \in D, NEW n \in D, Before(m, n)
        PROVE  upTo[m] \subseteq upTo[n] /\ n \notin upTo[m]
    <3>1. s[m].id \in Nat /\ s[n].id \in Nat /\ m \in Nat /\ n \in Nat
      BY <1>1, <1>2
    <3>2. n \notin upTo[m]
      BY <2>1, <3>1 DEF NotAfter
    <3>3. ASSUME NEW k \in upTo[m]  PROVE k \in upTo[n]
      <4>1. k \in D /\ (s[k].id < s[m].id \/ (s[k].id = s[m].id /\ k <= m))
        BY <3>3 DEF NotAfter
      <4>2. s[k].id \in Nat /\ k \in Nat
        BY <1>1, <1>2, <4>1
      <4>3. s[k].id < s[n].id \/ (s[k].id = s[n].id /\ k <= n)
        BY <2>1, <3>1, <4>1, <4>2
      <4> QED
        BY <4>1, <4>3 DEF NotAfter
    <3> QED
      BY <3>2, <3>3
  <2>2. Before(i, j) \/ Before(j, i)
    BY <1>1, <1>2, <1>4
  <2> QED
    BY <2>1, <2>2
<1>5. BySequence(s) = [k \in D |-> s[a[k]]]
  BY DEF BySequence
<1> HIDE DEF upTo
<1>6. /\ size \in Nat
      /\ DOMAIN a = 1..size
      /\ \A n \in 1..size : a[n] \in D
      /\ \A m, n \in 1..size : m < n => a[n] \notin upTo[a[m]]
      /\ \A i \in D : \E n \in 1..size : a[n] = i
  BY <1>1, <1>3, <1>4, RankedLists
<1>7. a = [n \in 1..size |-> a[n]]
  <2>1. DOMAIN upTo = D
    BY <1>3
  <2> QED
    BY <2>1 DEF Ranked
<1>8. D = 1..size
  <2>1. D = 1..Len(s) /\ Len(s) \in Nat
    OBVIOUS
  <2>2. Cardinality(1..Len(s)) = IF 1 > Len(s) THEN 0 ELSE Len(s) - 1 + 1
    BY <2>1, FS_Interval
  <2>3. size = Len(s)
    BY <2>1, <2>2
  <2> QED
    BY <2>1, <2>3
<1> HIDE DEF a, size, D
<1>9. ASSUME NEW m \in 1..size, NEW n \in 1..size, a[m] = a[n]
      PROVE  m = n
  <2>1. a[m] \in upTo[a[m]]
    BY <1>3, <1>6
  <2>2. ~(m < n) /\ ~(n < m)
    BY <1>6, <1>9, <2>1
  <2> QED
    BY <1>6, <2>2
<1>10. DOMAIN BySequence(s) = 1..size /\ BySequence(s) \in [1..size -> Entry]
  BY <1>5, <1>6, <1>8 DEF D
<1>11. BySequence(s) \in Seq(Entry)
  BY <1>6, <1>10, AreLists
<1>12. a \in [1..size -> D]
  BY <1>6, <1>7
<1> QED
  BY <1>5, <1>6, <1>9, <1>10, <1>11, <1>12 DEF D

Ats == {"asked", "answered", "done", "off"}
Replies == [at : Ats, rows : Seq(Entry), next : Nat, more : BOOLEAN]

\* The room, and what is on its way: a client id is stored once; what removes a message
\* comes after its removal.
RoomTrue ==
  /\ slots \in Seq(OwnCid \cup {NoCid}) /\ Len(slots) <= MaxSeq
  /\ \A i, j \in DOMAIN slots : slots[i] = slots[j] /\ i # j => slots[i] = NoCid
  /\ dead \subseteq DOMAIN slots /\ patched \subseteq DOMAIN slots
  /\ online \in BOOLEAN
  /\ coming \subseteq Frame
  /\ \A f \in coming : f.id \in DOMAIN slots /\ (f.kind = "delete" => f.id \in dead)
  /\ seen \in 0..Len(slots)
  /\ cursor \in [next : 0..Len(slots), more : BOOLEAN]
  /\ sending \subseteq OwnCid
  /\ delivery \in [OwnCid -> {"none", "sending", "sent", "queued"}]
  /\ \A h \in {erased, stale, synced, late, skipped} : h \subseteq Id
  /\ erased \subseteq dead

\* Rows of the room, each once.
RowsTrue(rows) ==
  /\ rows \in Seq(Entry)
  /\ \A k \in DOMAIN rows :
       rows[k].id \in DOMAIN slots /\ rows[k].cid = NoCid /\ ~rows[k].pending
  /\ \A j, k \in DOMAIN rows : rows[j].id = rows[k].id => j = k

\* Until the initial load is done there is no cursor; its answer lacks nothing between the
\* cursor it will set and the newest message it has.
LoadTrue ==
  /\ load \in Replies /\ load.at # "off" /\ load.next <= Len(slots)
  /\ RowsTrue(load.rows)
  /\ load.at # "done" => cursor = [next |-> 0, more |-> FALSE] /\ older.at = "off"
  /\ load.at = "answered" =>
       /\ load.more => \A k \in DOMAIN load.rows : load.next <= load.rows[k].id
       /\ \A i \in Alive : load.next <= i /\ i <= Newest(load.rows) => Has(load.rows, i)

\* An older page is of messages before the cursor, and lacks none down to the next one.
OlderTrue ==
  /\ older \in Replies /\ older.at # "done" /\ older.next <= Len(slots)
  /\ RowsTrue(older.rows)
  /\ older.at # "off" => cursor.more
  /\ older.at = "answered" =>
       /\ older.next <= cursor.next
       /\ \A k \in DOMAIN older.rows :
            older.rows[k].id < cursor.next /\ (older.more => older.next <= older.rows[k].id)
       /\ \A i \in Alive : older.next <= i /\ i < cursor.next => Has(older.rows, i)

\* A catch-up has all that is new up to the message it has come to.
CatchTrue ==
  /\ catch \in [at : {"off", "due", "paging", "answered"}, from : 0..Len(slots),
                rows : Seq(Entry), high : 0..Len(slots), left : Nat]
  /\ RowsTrue(catch.rows)
  /\ \A k \in DOMAIN catch.rows : catch.rows[k].id <= catch.from
  /\ catch.at \in {"paging", "answered"} =>
       \A i \in Alive : seen < i /\ i <= catch.from => Has(catch.rows, i)

\* An entry of the list is the bubble of a send under way, whose message is not on a page
\* still to be loaded, or a message, which is not on such a page either.
EntryTrue(e) ==
  /\ e.cid # NoCid => delivery[e.cid] # "none"
  /\ e.id = 0 => /\ e.pending /\ e.cid \in OwnCid /\ ~e.mark
                 /\ load.at = "done" => \A i \in DOMAIN slots : slots[i] = e.cid => cursor.next <= i
  /\ e.id # 0 => /\ e.id \in DOMAIN slots /\ ~e.pending
                 /\ e.cid # NoCid => slots[e.id] = e.cid
                 /\ cursor.more => cursor.next <= e.id \/ e.id \in late
                 /\ e.id \in erased => e.id \in stale

\* Two entries are of two messages or sends.
Apart(d, e) ==
  /\ d.id = e.id /\ d.id # 0 => d.id \in late
  /\ d.cid = e.cid => d.cid = NoCid
  /\ d.id = 0 /\ e.id # 0 /\ slots[e.id] = d.cid => e.id \in synced

ListTrue(s) ==
  /\ s \in Seq(Entry)
  /\ \A k \in DOMAIN s : EntryTrue(s[k])
  /\ \A j, k \in DOMAIN s : j # k => Apart(s[j], s[k])

\* What was removed is held only by what was on its way then.
Removed == \A i \in erased \ stale : ~HeldFor(i)

\* Below the watermark nothing is missing, before the load as well.
Covered ==
  \A i \in Alive :
    i <= seen /\ (load.at = "done" => cursor.next <= i) => Has(list, i) \/ InFlight(i) \/ i \in skipped

RoomInv ==
  RoomTrue /\ LoadTrue /\ OlderTrue /\ CatchTrue /\ ListTrue(list) /\ Removed /\ Covered

\* It is what the properties need.
LEMMA RoomInvEnough ==
  ASSUME RoomInv
  PROVE  ListSound /\ RemovedStaysRemoved /\ NoGapBelow
<1>1. MaxSeq \in Nat /\ Len(slots) \in Nat /\ DOMAIN slots = 1..Len(slots) /\ Len(slots) <= MaxSeq
  BY RoomViewAssumption DEF RoomInv, RoomTrue
<1>2. RoomTypeOK
  <2>1. /\ slots \in Seq(OwnCid \cup {NoCid}) /\ Len(slots) <= MaxSeq
        /\ dead \subseteq DOMAIN slots
        /\ patched \subseteq DOMAIN slots
        /\ online \in BOOLEAN
        /\ coming \subseteq Frame
        /\ \A f \in coming : f.id \in DOMAIN slots
        /\ seen \in 0..Len(slots)
        /\ sending \subseteq OwnCid
        /\ delivery \in [OwnCid -> {"none", "sending", "sent", "queued"}]
        /\ \A h \in {erased, stale, synced, late, skipped} : h \subseteq Id
    BY DEF RoomInv, RoomTrue
  <2>2. cursor \in [next : 0..MaxSeq, more : BOOLEAN]
    BY <1>1 DEF RoomInv, RoomTrue
  <2>3. load.at \in {"asked", "answered", "done"} /\ load.rows \in Seq(Entry)
    BY DEF RoomInv, LoadTrue, Replies, Ats
  <2>4. older.at \in {"off", "asked", "answered"} /\ older.rows \in Seq(Entry)
    BY DEF RoomInv, OlderTrue, Replies, Ats
  <2>5. /\ catch.at \in {"off", "due", "paging", "answered"} /\ catch.rows \in Seq(Entry)
        /\ catch.from \in 0..MaxSeq /\ catch.high \in 0..MaxSeq /\ catch.left \in Nat
    BY <1>1 DEF RoomInv, CatchTrue
  <2>6. list \in Seq(Entry)
    BY DEF RoomInv, ListTrue
  <2> QED
    BY <2>1, <2>2, <2>3, <2>4, <2>5, <2>6 DEF RoomTypeOK
<1>3. NoDuplicates
  BY DEF RoomInv, ListTrue, Apart, NoDuplicates
<1>4. OwnMessageOnce
  <2> SUFFICES ASSUME NEW j \in DOMAIN list, NEW k \in DOMAIN list, list[j].pending,
                      list[k].id # 0, slots[list[k].id] = list[j].cid
               PROVE  list[k].id \in synced
    BY DEF OwnMessageOnce
  <2>1. EntryTrue(list[j]) /\ EntryTrue(list[k])
    BY DEF RoomInv, ListTrue
  <2>2. list[j].id = 0 /\ j # k
    BY <2>1 DEF EntryTrue
  <2> QED
    BY <2>2 DEF RoomInv, ListTrue, Apart
<1>5. RemovedStaysRemoved
  <2> SUFFICES ASSUME NEW k \in DOMAIN list, list[k].id \in erased
               PROVE  list[k].id \in stale
    BY DEF RemovedStaysRemoved
  <2>1. list[k].id # 0
    BY <1>1 DEF RoomInv, RoomTrue
  <2> QED
    BY <2>1 DEF RoomInv, ListTrue, EntryTrue
<1>6. NoGapBelow
  BY DEF RoomInv, Covered, NoGapBelow
<1> QED
  BY <1>2, <1>3, <1>4, <1>5, <1>6 DEF ListSound

-----------------------------------------------------------------------------
\* Slots are only ever added, and what is gone stays gone.
RoomGrown ==
  /\ Len(slots') \in Nat /\ Len(slots) <= Len(slots')
  /\ DOMAIN slots' = 1..Len(slots')
  /\ \A i \in DOMAIN slots : slots'[i] = slots[i]
  /\ dead \subseteq dead'
  /\ \A h \in {<<erased, erased'>>, <<stale, stale'>>, <<synced, synced'>>, <<late, late'>>,
               <<skipped, skipped'>>} : h[1] \subseteq h[2]

\* Slots are numbered from one.
LEMMA SlotsAre == ASSUME RoomTrue PROVE Len(slots) \in Nat /\ DOMAIN slots = 1..Len(slots)
                                        /\ MaxSeq \in Nat /\ Len(slots) <= MaxSeq
BY RoomViewAssumption DEF RoomTrue

\* No step takes a slot, a deletion or a recorded exception back.
LEMMA RoomGrows ==
  ASSUME RoomTrue, [NextRoom]_pageVars
  PROVE  RoomGrown
<1>1. slots \in Seq(OwnCid \cup {NoCid}) /\ Len(slots) \in Nat /\ DOMAIN slots = 1..Len(slots)
  BY DEF RoomTrue
<1>2. /\ dead \subseteq dead' /\ erased \subseteq erased' /\ stale \subseteq stale'
      /\ synced \subseteq synced' /\ late \subseteq late' /\ skipped \subseteq skipped'
  <2>1. CASE Loads
    BY <2>1 DEF Loads, LoadAnswered, LoadApplied, LoadFails, OlderAsked, OlderAnswered, OlderApplied,
       OlderFails, shared, hist
  <2>2. CASE CatchUp
    BY <2>2 DEF CatchUp, CatchStart, CatchPage, CatchApplied, CatchFails, shared, hist
  <2>3. CASE Live
    BY <2>3 DEF Live, NewMessage, Patched, Deleted, shared, hist
  <2>4. CASE Others
    BY <2>4 DEF Others, Posted, Patch, Delete, Disconnect, Connect, shared, hist
  <2>5. CASE Sends
    BY <2>5 DEF Sends, Compose, SendSettled, SendQueued, SendRateLimited, shared, hist
  <2>6. CASE UNCHANGED pageVars
    BY <2>6 DEF pageVars, shared, hist
  <2> QED
    BY <2>1, <2>2, <2>3, <2>4, <2>5, <2>6 DEF NextRoom
<1>3. CASE UNCHANGED slots
  BY <1>1, <1>2, <1>3 DEF RoomGrown
<1>4. ASSUME NEW c \in OwnCid \cup {NoCid}, Posted(c)
      PROVE  RoomGrown
  <2>1. slots' = Append(slots, c)
    BY <1>4 DEF Posted
  <2>2. /\ Len(slots') = Len(slots) + 1 /\ DOMAIN slots' = 1..(Len(slots) + 1)
        /\ \A i \in DOMAIN slots : slots'[i] = slots[i]
    BY <1>1, <2>1
  <2> QED
    BY <1>1, <1>2, <2>2 DEF RoomGrown
<1>5. UNCHANGED slots \/ \E c \in OwnCid \cup {NoCid} : Posted(c)
  <2>1. CASE Loads
    BY <2>1 DEF Loads, LoadAnswered, LoadApplied, LoadFails, OlderAsked, OlderAnswered, OlderApplied,
       OlderFails, shared
  <2>2. CASE CatchUp
    BY <2>2 DEF CatchUp, CatchStart, CatchPage, CatchApplied, CatchFails, shared
  <2>3. CASE Live
    BY <2>3 DEF Live, NewMessage, Patched, Deleted, shared
  <2>4. CASE Others
    BY <2>4 DEF Others, Patch, Delete, Disconnect, Connect, shared
  <2>5. CASE Sends
    BY <2>5 DEF Sends, Compose, SendSettled, SendQueued, SendRateLimited, shared
  <2>6. CASE UNCHANGED pageVars
    BY <2>6 DEF pageVars, shared
  <2> QED
    BY <2>1, <2>2, <2>3, <2>4, <2>5, <2>6 DEF NextRoom
<1> QED
  BY <1>3, <1>4, <1>5

\* What is alive was alive before, or is new.
LEMMA AliveBefore ==
  ASSUME RoomTrue, RoomGrown, NEW i, i \in Alive'
  PROVE  /\ i \in Nat \ {0}
         /\ i \in Alive \/ i > Len(slots)
BY SlotsAre DEF RoomGrown, Alive

\* The newest of some rows.
LEMMA NewestOf ==
  ASSUME RoomTrue, NEW rows, RowsTrue(rows)
  PROVE  /\ Newest(rows) \in 0..Len(slots)
         /\ \A k \in DOMAIN rows : rows[k].id <= Newest(rows)
<1>1. CASE rows = <<>>
  BY <1>1, SlotsAre DEF Newest
<1>2. CASE rows # <<>>
  <2> DEFINE S == {rows[k].id : k \in DOMAIN rows}
  <2>1. S \in SUBSET (1..Len(slots))
    BY SlotsAre DEF RowsTrue
  <2>2. IsFiniteSet(S)
    <3>1. IsFiniteSet(1..Len(slots))
      BY SlotsAre, FS_Interval
    <3> QED
      BY <2>1, <3>1, FS_Subset
  <2>3. S # {}
    <3>1. 1 \in DOMAIN rows
      BY <1>2 DEF RowsTrue
    <3> QED
      BY <3>1
  <2>4. S \in SUBSET Nat
    BY <2>1
  <2>5. Max(S) \in S /\ \A i \in S : i <= Max(S)
    BY <2>2, <2>3, <2>4, Extremes
  <2>6. Newest(rows) = Max(S)
    BY <1>2 DEF Newest
  <2> QED
    BY <2>1, <2>5, <2>6, SlotsAre
<1> QED
  BY <1>1, <1>2

\* Rows of the room stay rows of it, as messages are posted and deleted.
LEMMA RowsStay ==
  ASSUME RoomTrue, RoomGrown, NEW rows, RowsTrue(rows)
  PROVE  RowsTrue(rows)'
BY SlotsAre DEF RoomGrown, RowsTrue

-----------------------------------------------------------------------------
\* The room, and what is on its way.
LEMMA RoomStep ==
  ASSUME RoomInv, [NextRoom]_pageVars
  PROVE  RoomTrue'
<1>0. RoomTrue /\ LoadTrue /\ OlderTrue /\ CatchTrue /\ ListTrue(list)
  BY DEF RoomInv
<1>1. /\ Len(slots) \in Nat /\ DOMAIN slots = 1..Len(slots)
      /\ MaxSeq \in Nat /\ Len(slots) <= MaxSeq /\ Id = 1..MaxSeq
  BY <1>0, SlotsAre DEF Id
<1>2. CASE UNCHANGED <<shared, coming, seen, cursor, sending, delivery, hist>> /\ online' \in BOOLEAN
  BY <1>0, <1>2 DEF RoomTrue, shared, hist
<1>3. ASSUME NEW c \in OwnCid \cup {NoCid}, Posted(c)
      PROVE  RoomTrue'
  <2>1. slots' = Append(slots, c) /\ Len(slots) < MaxSeq
        /\ (c # NoCid => \A i \in DOMAIN slots : slots[i] # c)
    BY <1>1, <1>3 DEF Posted, Stored
  <2>2. /\ slots' \in Seq(OwnCid \cup {NoCid})
        /\ Len(slots') = Len(slots) + 1 /\ DOMAIN slots' = 1..(Len(slots) + 1)
        /\ \A i \in DOMAIN slots : slots'[i] = slots[i]
        /\ slots'[Len(slots) + 1] = c
    BY <1>0, <2>1 DEF RoomTrue
  <2>3. \A i, j \in DOMAIN slots' : slots'[i] = slots'[j] /\ i # j => slots'[i] = NoCid
    BY <1>0, <1>1, <2>1, <2>2 DEF RoomTrue
  <2>4. coming' \subseteq coming \cup {[kind |-> "new", id |-> Len(slots) + 1]}
    BY <1>3 DEF Posted, Frames
  <2>5. [kind |-> "new", id |-> Len(slots) + 1] \in Frame
    BY <1>1, <2>1 DEF Frame
  <2>6. coming' \subseteq Frame
    BY <1>0, <2>4, <2>5 DEF RoomTrue
  <2>7. ASSUME NEW f \in coming'
        PROVE  f.id \in DOMAIN slots' /\ (f.kind = "delete" => f.id \in dead)
    BY <1>0, <1>1, <2>2, <2>4 DEF RoomTrue
  <2>8. UNCHANGED <<dead, patched, online, seen, cursor, sending, delivery, hist>>
    BY <1>3 DEF Posted
  <2>9. dead \subseteq DOMAIN slots' /\ patched \subseteq DOMAIN slots' /\ Len(slots') <= MaxSeq
        /\ seen \in 0..Len(slots') /\ cursor \in [next : 0..Len(slots'), more : BOOLEAN]
    BY <1>0, <1>1, <2>1, <2>2 DEF RoomTrue
  <2> QED
    BY <1>0, <2>2, <2>3, <2>6, <2>7, <2>8, <2>9 DEF RoomTrue, hist
<1>4. ASSUME NEW i \in Id, NEW mine \in BOOLEAN, Patch(i, mine) \/ Delete(i, mine)
      PROVE  RoomTrue'
  <2>1. i \in DOMAIN slots
    BY <1>4 DEF Patch, Delete, Alive
  <2>2. PICK what \in {"patch", "delete"} :
          /\ coming' \subseteq coming \cup {[kind |-> what, id |-> i]}
          /\ what = "delete" => i \in dead'
    BY <1>4 DEF Patch, Delete, Frames
  <2>3. [kind |-> what, id |-> i] \in Frame
    BY <1>4 DEF Frame
  <2>4. /\ dead \subseteq dead' /\ dead' \subseteq dead \cup {i} /\ patched' \subseteq patched \cup {i}
        /\ UNCHANGED <<slots, online, seen, cursor, sending, delivery, hist>>
    BY <1>4 DEF Patch, Delete
  <2>5. coming' \subseteq Frame
    BY <1>0, <2>2, <2>3 DEF RoomTrue
  <2>6. ASSUME NEW f \in coming'
        PROVE  f.id \in DOMAIN slots /\ (f.kind = "delete" => f.id \in dead')
    BY <1>0, <2>1, <2>2, <2>4 DEF RoomTrue
  <2> QED
    BY <1>0, <2>1, <2>4, <2>5, <2>6 DEF RoomTrue, hist
<1>5. CASE Disconnect
  <2>1. /\ coming' \subseteq coming /\ online' = FALSE
        /\ skipped' = skipped \cup {i \in 1..seen : \E f \in coming : f.kind = "new" /\ f.id = i}
        /\ UNCHANGED <<shared, seen, cursor, sending, delivery, erased, stale, synced, late>>
    BY <1>5 DEF Disconnect
  <2>2. skipped' \subseteq Id
    BY <1>0, <1>1, <2>1 DEF RoomTrue
  <2> QED
    BY <1>0, <2>1, <2>2 DEF RoomTrue, shared
<1>6. CASE Connect
  BY <1>2, <1>6 DEF Connect
<1>7. CASE LoadAnswered \/ LoadFails \/ OlderAsked \/ OlderAnswered \/ OlderFails
           \/ CatchStart \/ CatchPage \/ CatchFails
  <2>1. UNCHANGED <<shared, online, coming, seen, cursor, sending, delivery, hist>>
    BY <1>7 DEF LoadAnswered, LoadFails, OlderAsked, OlderAnswered, OlderFails, CatchStart, CatchPage,
       CatchFails
  <2> QED
    BY <1>0, <1>2, <2>1 DEF RoomTrue
<1>8. CASE LoadApplied
  <2>1. /\ seen' = Max({seen, Newest(load.rows)})
        /\ cursor' = [next |-> load.next, more |-> load.more]
        /\ skipped' \subseteq skipped \cup ((Newest(load.rows) + 1)..seen)
        /\ UNCHANGED <<shared, online, coming, sending, delivery, erased, stale, synced, late>>
    BY <1>8 DEF LoadApplied
  <2>2. Newest(load.rows) \in 0..Len(slots)
    BY <1>0, NewestOf DEF LoadTrue
  <2>3. seen' \in 0..Len(slots)
    <3>1. seen \in 0..Len(slots)
      BY <1>0 DEF RoomTrue
    <3>2. seen' = seen \/ seen' = Newest(load.rows)
      BY <1>1, <2>1, <2>2, <3>1, LaterOf
    <3> QED
      BY <2>2, <3>1, <3>2
  <2>4. cursor' \in [next : 0..Len(slots), more : BOOLEAN]
    BY <1>0, <1>1, <2>1 DEF LoadTrue, Replies
  <2>5. skipped' \subseteq Id
    BY <1>0, <1>1, <2>1, <2>2 DEF RoomTrue
  <2> QED
    BY <1>0, <2>1, <2>3, <2>4, <2>5 DEF RoomTrue, shared
<1>9. CASE OlderApplied
  <2>1. /\ cursor' = [next |-> older.next, more |-> older.more]
        /\ UNCHANGED <<shared, online, coming, seen, sending, delivery, hist>>
    BY <1>9 DEF OlderApplied
  <2>2. cursor' \in [next : 0..Len(slots), more : BOOLEAN]
    BY <1>0, <1>1, <2>1 DEF OlderTrue, Replies
  <2> QED
    BY <1>0, <2>1, <2>2 DEF RoomTrue, shared, hist
<1>10. CASE CatchApplied
  <2>1. UNCHANGED <<shared, online, coming, cursor, sending, delivery, erased, stale>>
    BY <1>10 DEF CatchApplied
  <2>2. CASE catch.rows = <<>>
    <3>1. UNCHANGED <<seen, synced, late, skipped>>
      BY <1>10, <2>2 DEF CatchApplied
    <3> QED
      BY <1>0, <2>1, <3>1 DEF RoomTrue, shared
  <2>3. CASE catch.rows # <<>>
    <3>1. /\ seen' = Max({seen, catch.high})
          /\ synced' = synced \cup {i \in {Fresh(catch.rows)[k].id : k \in DOMAIN Fresh(catch.rows)} : slots[i] # NoCid}
          /\ late' = late \cup {i \in {Fresh(catch.rows)[k].id : k \in DOMAIN Fresh(catch.rows)} : Behind(i)}
          /\ skipped' \subseteq skipped \cup ((catch.from + 1)..catch.high)
      BY <1>10, <2>3 DEF CatchApplied
    <3>2. /\ seen \in 0..Len(slots) /\ catch.high \in 0..Len(slots) /\ catch.from \in 0..Len(slots)
      BY <1>0 DEF RoomTrue, CatchTrue
    <3>3. seen' = seen \/ seen' = catch.high
      BY <1>1, <3>1, <3>2, LaterOf
    <3>4. \A k \in DOMAIN Fresh(catch.rows) : Fresh(catch.rows)[k].id \in Id
      <4> DEFINE K == {k \in DOMAIN catch.rows : ~Has(list, catch.rows[k].id)}
      <4>1. K \in SUBSET DOMAIN catch.rows /\ catch.rows \in Seq(Entry) /\ Fresh(catch.rows) = Kept(catch.rows, K)
        BY <1>0 DEF CatchTrue, RowsTrue, Fresh
      <4> HIDE DEF K
      <4>2. PICK a \in [DOMAIN Kept(catch.rows, K) -> K] :
              \A n \in DOMAIN Kept(catch.rows, K) : Kept(catch.rows, K)[n] = catch.rows[a[n]]
        BY <4>1, KeptLists
      <4> QED
        BY <1>0, <1>1, <4>1, <4>2 DEF CatchTrue, RowsTrue
    <3>5. seen' \in 0..Len(slots)
      BY <3>2, <3>3
    <3>6. synced' \subseteq Id /\ late' \subseteq Id
      BY <1>0, <3>1, <3>4 DEF RoomTrue
    <3>7. skipped' \subseteq Id
      BY <1>0, <1>1, <3>1, <3>2 DEF RoomTrue
    <3> QED
      BY <1>0, <2>1, <3>5, <3>6, <3>7 DEF RoomTrue, shared
  <2> QED
    BY <2>2, <2>3
<1>11. ASSUME NEW f \in coming, NewMessage(f)
       PROVE  RoomTrue'
  <2>1. f \in Frame /\ f.id \in 1..Len(slots)
    BY <1>0, <1>1 DEF RoomTrue
  <2>2. /\ seen' = Max({seen, f.id})
        /\ delivery' = IF slots[f.id] = NoCid THEN delivery ELSE [delivery EXCEPT ![slots[f.id]] = "sent"]
        /\ late' \subseteq late \cup {f.id}
        /\ skipped' \subseteq skipped \cup Alive
        /\ coming' \subseteq coming
        /\ UNCHANGED <<shared, online, cursor, sending, erased, stale, synced>>
    BY <1>11 DEF NewMessage
  <2>3. seen \in 0..Len(slots)
    BY <1>0 DEF RoomTrue
  <2>4. seen' = seen \/ seen' = f.id
    BY <1>1, <2>1, <2>2, <2>3, LaterOf
  <2>5. seen' \in 0..Len(slots)
    BY <2>1, <2>3, <2>4
  <2>6. delivery' \in [OwnCid -> {"none", "sending", "sent", "queued"}]
    BY <1>0, <2>2 DEF RoomTrue
  <2>7. late' \subseteq Id /\ skipped' \subseteq Id
    BY <1>0, <1>1, <2>1, <2>2 DEF RoomTrue, Alive
  <2> QED
    BY <1>0, <2>2, <2>5, <2>6, <2>7 DEF RoomTrue, shared
<1>12. ASSUME NEW f \in coming, Patched(f)
       PROVE  RoomTrue'
  <2>1. coming' \subseteq coming
        /\ UNCHANGED <<shared, online, seen, cursor, sending, delivery, hist>>
    BY <1>12 DEF Patched
  <2> QED
    BY <1>0, <2>1 DEF RoomTrue, shared, hist
<1>13. ASSUME NEW f \in coming, Deleted(f)
       PROVE  RoomTrue'
  <2>1. /\ coming' \subseteq coming /\ erased' = erased \cup {f.id} /\ stale' \subseteq stale \cup {f.id}
        /\ UNCHANGED <<shared, online, seen, cursor, sending, delivery, synced, late, skipped>>
    BY <1>13 DEF Deleted
  <2>2. f.id \in dead /\ f.id \in Id
    BY <1>0, <1>1, <1>13 DEF RoomTrue, Deleted
  <2> QED
    BY <1>0, <2>1, <2>2 DEF RoomTrue, shared
<1>14. ASSUME NEW c \in OwnCid, Compose(c) \/ SendSettled(c) \/ SendQueued(c)
       PROVE  RoomTrue'
  <2>1. /\ UNCHANGED <<shared, online, coming, seen, cursor, hist>>
        /\ sending' \subseteq sending \cup {c}
        /\ delivery' = delivery \/ \E v \in {"sending", "queued"} : delivery' = [delivery EXCEPT ![c] = v]
    BY <1>14 DEF Compose, SendSettled, SendQueued
  <2>2. delivery' \in [OwnCid -> {"none", "sending", "sent", "queued"}]
    BY <1>0, <2>1 DEF RoomTrue
  <2>3. sending' \subseteq OwnCid
    BY <1>0, <2>1 DEF RoomTrue
  <2> QED
    BY <1>0, <2>1, <2>2, <2>3 DEF RoomTrue, shared, hist
<1>15. ASSUME NEW c \in OwnCid, SendRateLimited(c)
       PROVE  RoomTrue'
  <2>1. /\ UNCHANGED <<shared, online, coming, seen, cursor, erased, stale, synced, late>>
        /\ sending' \subseteq sending
        /\ delivery' = [delivery EXCEPT ![c] = "none"]
        /\ skipped' \subseteq skipped \cup ({list[k].id : k \in DOMAIN list} \ {0})
    BY <1>15 DEF SendRateLimited
  <2>2. \A k \in DOMAIN list : list[k].id \in 0..MaxSeq
    <3>1. \A k \in DOMAIN list : list[k] \in Entry
      BY <1>0 DEF ListTrue
    <3> QED
      BY <3>1 DEF Entry
  <2>3. skipped' \subseteq Id
    BY <1>0, <1>1, <2>1, <2>2 DEF RoomTrue
  <2>4. delivery' \in [OwnCid -> {"none", "sending", "sent", "queued"}]
    BY <1>0, <2>1 DEF RoomTrue
  <2> QED
    BY <1>0, <2>1, <2>3, <2>4 DEF RoomTrue, shared
<1>16. CASE UNCHANGED pageVars
  BY <1>0, <1>2, <1>16 DEF pageVars, RoomTrue
<1> QED
  BY <1>3, <1>4, <1>5, <1>6, <1>7, <1>8, <1>9, <1>10, <1>11, <1>12, <1>13, <1>14, <1>15, <1>16
     DEF NextRoom, Loads, CatchUp, Live, Others, Sends

-----------------------------------------------------------------------------
\* A page of the room holds rows of it, each once, and all of those it is of.
LEMMA RowsOfRoom ==
  ASSUME RoomTrue, NEW P \in SUBSET DOMAIN slots
  PROVE  /\ RowsTrue(RowsOf(P))
         /\ \A i \in P : Has(RowsOf(P), i)
         /\ \A k \in DOMAIN RowsOf(P) : RowsOf(P)[k].id \in P
<1> DEFINE a == Ascending(P)
           size == Cardinality(P)
<1>1. /\ Len(slots) \in Nat /\ DOMAIN slots = 1..Len(slots)
      /\ MaxSeq \in Nat /\ Len(slots) <= MaxSeq
  BY SlotsAre
<1>2. P \in SUBSET Nat /\ IsFiniteSet(P)
  BY Places DEF RoomTrue
<1>3. /\ size \in Nat
      /\ DOMAIN a = 1..size
      /\ \A n \in 1..size : a[n] \in P
      /\ \A m, n \in 1..size : m < n => a[m] < a[n]
      /\ \A i \in P : \E n \in 1..size : a[n] = i
  BY <1>2, AscendingLists
<1>4. RowsOf(P) = [k \in DOMAIN a |-> Row(a[k])]
  BY DEF RowsOf
<1> HIDE DEF a, size
<1>5. \A k \in 1..size : Row(a[k]) \in Entry
  <2>1. \A i \in P : Row(i) \in Entry
    BY <1>1 DEF Row, Entry
  <2> QED
    BY <1>3, <2>1
<1>6. RowsOf(P) \in Seq(Entry) /\ DOMAIN RowsOf(P) = 1..size
  <2>1. RowsOf(P) \in [1..size -> Entry]
    BY <1>3, <1>4, <1>5
  <2> QED
    BY <1>3, <2>1, AreLists
<1>7. \A k \in 1..size : RowsOf(P)[k].id = a[k] /\ RowsOf(P)[k].cid = NoCid /\ RowsOf(P)[k].pending = FALSE
  BY <1>3, <1>4 DEF Row
<1>8. ASSUME NEW j \in 1..size, NEW k \in 1..size, a[j] = a[k]
      PROVE  j = k
  <2>1. a[j] \in Nat /\ a[k] \in Nat
    BY <1>2, <1>3
  <2>2. ~(j < k) /\ ~(k < j)
    BY <1>3, <1>8, <2>1
  <2> QED
    BY <1>3, <2>2
<1>9. RowsTrue(RowsOf(P))
  BY <1>3, <1>6, <1>7, <1>8 DEF RowsTrue
<1>10. ASSUME NEW i \in P  PROVE Has(RowsOf(P), i)
  BY <1>3, <1>6, <1>7 DEF Has
<1> QED
  BY <1>3, <1>6, <1>7, <1>9, <1>10

\* The history before a slot: its newest page, and where it stops.
LEMMA HistoryOf ==
  ASSUME RoomTrue, NEW b \in Nat
  PROVE  LET h == History(b)
         IN /\ h \in Replies /\ h.at = "answered" /\ h.next <= Len(slots)
            /\ RowsTrue(h.rows)
            /\ h.next < b \/ h.next = 0
            /\ \A k \in DOMAIN h.rows : /\ h.rows[k].id < b /\ h.rows[k].id \in Alive
                                        /\ h.more => h.next <= h.rows[k].id
            /\ \A i \in Alive : h.next <= i /\ i < b => Has(h.rows, i)
<1> DEFINE S == {i \in Alive : i < b}
           P == Largest(S, PageSize)
           h == History(b)
<1>1. /\ Len(slots) \in Nat /\ DOMAIN slots = 1..Len(slots) /\ Alive \in SUBSET (1..Len(slots))
  BY SlotsAre DEF Alive
<1>2. S \in SUBSET Nat /\ IsFiniteSet(S) /\ S \in SUBSET DOMAIN slots
  <2>1. S \in SUBSET DOMAIN slots
    BY <1>1
  <2> QED
    BY <2>1, Places DEF RoomTrue
<1>3. PageSize \in Nat \ {0}
  BY RoomViewAssumption
<1>4. h = [at |-> "answered", rows |-> RowsOf(P), next |-> IF P # S THEN Min(P) ELSE 0, more |-> P # S]
  BY DEF History
<1> HIDE DEF S, P, h
<1>5. /\ P \in SUBSET S /\ (S # {} => P # {})
      /\ \A i \in P, j \in S : i <= j => j \in P
  BY <1>2, <1>3, LargestLast DEF P
<1>6. /\ RowsTrue(RowsOf(P)) /\ (\A i \in P : Has(RowsOf(P), i))
      /\ \A k \in DOMAIN RowsOf(P) : RowsOf(P)[k].id \in P
  BY <1>2, <1>5, RowsOfRoom
<1>7. ASSUME P # S  PROVE Min(P) \in P /\ \A i \in P : Min(P) <= i
  <2>1. P # {} /\ P \in SUBSET Nat
    BY <1>2, <1>5, <1>7
  <2>2. IsFiniteSet(P)
    BY <1>2, <1>5, FS_Subset
  <2> QED
    BY <2>1, <2>2, Extremes
<1>8. h.next \in Nat /\ h.next <= Len(slots) /\ (h.next < b \/ h.next = 0)
  <2>1. CASE P # S
    <3>1. h.next \in S
      BY <1>4, <1>5, <1>7, <2>1
    <3>2. h.next \in Alive /\ h.next < b
      BY <3>1 DEF S
    <3>3. h.next \in 1..Len(slots)
      BY <1>1, <3>2
    <3> QED
      BY <1>1, <3>2, <3>3
  <2>2. CASE P = S
    BY <1>1, <1>4, <2>2
  <2> QED
    BY <2>1, <2>2
<1>9. h \in Replies
  <2>1. RowsOf(P) \in Seq(Entry)
    BY <1>6 DEF RowsTrue
  <2> QED
    BY <1>4, <1>8, <2>1 DEF Replies, Ats
<1>10. ASSUME NEW k \in DOMAIN h.rows
       PROVE  h.rows[k].id < b /\ h.rows[k].id \in Alive /\ (h.more => h.next <= h.rows[k].id)
  <2>1. h.rows[k].id \in P
    BY <1>4, <1>6, <1>10
  <2>2. h.rows[k].id \in S
    BY <1>5, <2>1
  <2>3. h.more => h.next <= h.rows[k].id
    BY <1>4, <1>7, <2>1
  <2> QED
    BY <2>2, <2>3 DEF S
<1>11. ASSUME NEW i \in Alive, h.next <= i, i < b
       PROVE  Has(h.rows, i)
  <2>1. i \in S
    BY <1>11 DEF S
  <2>2. i \in P
    <3>1. CASE P # S
      <4>1. Min(P) \in P /\ h.next = Min(P)
        BY <1>4, <1>7, <3>1
      <4> QED
        BY <1>5, <1>11, <2>1, <4>1
    <3>2. CASE P = S
      BY <2>1, <3>2
    <3> QED
      BY <3>1, <3>2
  <2> QED
    BY <1>4, <1>6, <2>2
<1> QED
  BY <1>4, <1>6, <1>8, <1>9, <1>10, <1>11 DEF h

\* What is true of the answers stays so while the room goes on.
LEMMA NewestKept ==
  ASSUME RoomTrue, RoomGrown, NEW rows, RowsTrue(rows), NEW lo, NEW i, i \in Alive',
         \A m \in Alive : lo <= m /\ m <= Newest(rows) => Has(rows, m),
         lo <= i, i <= Newest(rows)
  PROVE  Has(rows, i)
BY AliveBefore, NewestOf, SlotsAre

\* What is kept of loadInitial, at each step.
LEMMA LoadStep ==
  ASSUME RoomInv, [NextRoom]_pageVars, RoomGrown
  PROVE  LoadTrue'
<1>0. RoomTrue /\ LoadTrue
  BY DEF RoomInv
<1>1. Len(slots) \in Nat /\ Len(slots') \in Nat /\ Len(slots) <= Len(slots')
  BY <1>0, SlotsAre DEF RoomGrown
\* What the load is, whatever became of it.
<1>2. ASSUME NEW l, load' = l, l \in Replies, l.at # "off", l.next <= Len(slots), RowsTrue(l.rows),
             l.at # "done" => cursor' = [next |-> 0, more |-> FALSE] /\ older'.at = "off",
             l.at = "answered" /\ l.more => \A k \in DOMAIN l.rows : l.next <= l.rows[k].id,
             l.at = "answered" => \A i \in Alive : l.next <= i /\ i <= Newest(l.rows) => Has(l.rows, i)
      PROVE  LoadTrue'
  <2>1. PICK r : r = l.rows
    OBVIOUS
  <2>2. RowsTrue(r)'
    BY <1>0, <1>2, <2>1, RowsStay
  <2>3. l.next <= Len(slots')
    BY <1>1, <1>2 DEF Replies
  <2>4. ASSUME l.at = "answered", NEW i, i \in Alive', l.next <= i, i <= Newest(r)
        PROVE  Has(r, i)
    BY <1>0, <1>2, <2>1, <2>4, NewestKept
  <2>5. Newest(r)' = Newest(r) /\ \A i : Has(r, i)' = Has(r, i)
    BY DEF Newest, Has
  <2> QED
    BY <1>2, <2>1, <2>2, <2>3, <2>4, <2>5 DEF LoadTrue
<1>3. CASE UNCHANGED load /\ (load.at # "done" => UNCHANGED <<cursor, older>>)
  <2>1. PICK l : l = load
    OBVIOUS
  <2> QED
    BY <1>0, <1>2, <1>3, <2>1 DEF LoadTrue
<1>4. CASE LoadAnswered
  <2>1. PICK l : l = History(MaxSeq + 1)
    OBVIOUS
  <2>2. load' = l /\ load.at = "asked" /\ UNCHANGED <<cursor, older>>
    BY <1>4, <2>1 DEF LoadAnswered
  <2>3. MaxSeq + 1 \in Nat
    BY RoomViewAssumption
  <2>4. /\ l \in Replies /\ l.at = "answered" /\ l.next <= Len(slots) /\ RowsTrue(l.rows)
        /\ \A k \in DOMAIN l.rows : l.more => l.next <= l.rows[k].id
        /\ \A i \in Alive : l.next <= i /\ i < MaxSeq + 1 => Has(l.rows, i)
    BY <1>0, <2>1, <2>3, HistoryOf
  <2>5. \A i \in Alive : i < MaxSeq + 1
    BY <1>0, SlotsAre DEF Alive
  <2>6. cursor' = [next |-> 0, more |-> FALSE] /\ older'.at = "off"
    BY <1>0, <2>2 DEF LoadTrue
  <2> QED
    BY <1>2, <2>2, <2>4, <2>5, <2>6
<1>5. CASE LoadApplied \/ LoadFails
  <2>1. PICK l : l = [NoAnswer EXCEPT !.at = "done"]
    OBVIOUS
  <2>2. load' = l
    BY <1>5, <2>1 DEF LoadApplied, LoadFails
  <2>3. l = [at |-> "done", rows |-> <<>>, next |-> 0, more |-> FALSE]
    BY <2>1 DEF NoAnswer
  <2>4. l \in Replies
    BY <2>3 DEF Replies, Ats
  <2>5. RowsTrue(l.rows)
    BY <2>3 DEF RowsTrue
  <2> QED
    BY <1>1, <1>2, <2>2, <2>3, <2>4, <2>5
<1>6. CASE OlderAsked \/ OlderAnswered \/ OlderApplied \/ OlderFails
  <2>1. UNCHANGED load
    BY <1>6 DEF OlderAsked, OlderAnswered, OlderApplied, OlderFails
  <2>2. load.at = "done"
    <3>1. cursor.more \/ older.at # "off"
      BY <1>6 DEF OlderAsked, OlderAnswered, OlderApplied, OlderFails
    <3> QED
      BY <1>0, <3>1 DEF LoadTrue
  <2> QED
    BY <1>3, <2>1, <2>2
<1>7. CASE CatchUp \/ Live \/ Others \/ Sends \/ UNCHANGED pageVars
  <2>1. UNCHANGED <<load, cursor, older>>
    <3>1. CASE CatchUp
      BY <3>1 DEF CatchUp, CatchStart, CatchPage, CatchApplied, CatchFails
    <3>2. CASE Live
      BY <3>2 DEF Live, NewMessage, Patched, Deleted
    <3>3. CASE Others
      BY <3>3 DEF Others, Posted, Patch, Delete, Disconnect, Connect
    <3>4. CASE Sends
      BY <3>4 DEF Sends, Compose, SendSettled, SendQueued, SendRateLimited
    <3>5. CASE UNCHANGED pageVars
      BY <3>5 DEF pageVars
    <3> QED
      BY <1>7, <3>1, <3>2, <3>3, <3>4, <3>5
  <2> QED
    BY <1>3, <2>1
<1> QED
  BY <1>4, <1>5, <1>6, <1>7 DEF NextRoom, Loads

\* What is kept of loadOlder, at each step.
LEMMA OlderStep ==
  ASSUME RoomInv, [NextRoom]_pageVars, RoomGrown
  PROVE  OlderTrue'
<1>0. RoomTrue /\ LoadTrue /\ OlderTrue
  BY DEF RoomInv
<1>1. Len(slots) \in Nat /\ Len(slots') \in Nat /\ Len(slots) <= Len(slots')
  BY <1>0, SlotsAre DEF RoomGrown
<1>2. cursor \in [next : 0..Len(slots), more : BOOLEAN]
  BY <1>0 DEF RoomTrue
<1>3. ASSUME NEW o, older' = o, o \in Replies, o.at # "done", o.next <= Len(slots), RowsTrue(o.rows),
             o.at # "off" => cursor.more,
             o.at = "answered" =>
               /\ o.next <= cursor.next
               /\ \A k \in DOMAIN o.rows :
                    o.rows[k].id < cursor.next /\ (o.more => o.next <= o.rows[k].id)
               /\ \A i \in Alive : o.next <= i /\ i < cursor.next => Has(o.rows, i),
             o.at = "off" \/ UNCHANGED cursor
      PROVE  OlderTrue'
  <2>1. PICK r : r = o.rows
    OBVIOUS
  <2>2. RowsTrue(r)'
    BY <1>0, <1>3, <2>1, RowsStay
  <2>3. o.next <= Len(slots')
    BY <1>1, <1>3 DEF Replies
  <2>4. PICK n \in 0..Len(slots) : n = cursor.next
    BY <1>2
  <2>5. ASSUME o.at = "answered", NEW i, i \in Alive', o.next <= i, i < n
        PROVE  Has(r, i)
    <3>1. i \in Alive
      BY <1>0, <1>1, <2>4, <2>5, AliveBefore
    <3> QED
      BY <1>3, <2>1, <2>4, <2>5, <3>1
  <2>6. \A i : Has(r, i)' = Has(r, i)
    BY DEF Has
  <2>7. CASE o.at = "off"
    BY <1>3, <2>1, <2>2, <2>3, <2>7 DEF OlderTrue
  <2>8. CASE cursor' = cursor
    BY <1>3, <2>1, <2>2, <2>3, <2>4, <2>5, <2>6, <2>8 DEF OlderTrue
  <2> QED
    BY <1>3, <2>7, <2>8
<1>4. CASE UNCHANGED older /\ (older.at # "off" => UNCHANGED cursor)
  <2>1. PICK o : o = older
    OBVIOUS
  <2> QED
    BY <1>0, <1>3, <1>4, <2>1 DEF OlderTrue
<1>5. CASE OlderAnswered
  <2>1. PICK o : o = History(cursor.next)
    OBVIOUS
  <2>2. older' = o /\ older.at = "asked" /\ UNCHANGED cursor
    BY <1>5, <2>1 DEF OlderAnswered
  <2>3. PICK n \in Nat : n = cursor.next
    BY <1>2
  <2>4. /\ o \in Replies /\ o.at = "answered" /\ o.next <= Len(slots) /\ RowsTrue(o.rows)
        /\ o.next < n \/ o.next = 0
        /\ \A k \in DOMAIN o.rows : o.rows[k].id < n /\ (o.more => o.next <= o.rows[k].id)
        /\ \A i \in Alive : o.next <= i /\ i < n => Has(o.rows, i)
    BY <1>0, <2>1, <2>3, HistoryOf
  <2>5. cursor.more
    BY <1>0, <2>2 DEF OlderTrue
  <2>6. o.next <= n
    BY <2>3, <2>4 DEF Replies
  <2> QED
    BY <1>3, <2>2, <2>3, <2>4, <2>5, <2>6
<1>6. CASE OlderAsked \/ OlderFails \/ OlderApplied
  <2>1. PICK o : older' = o
    OBVIOUS
  <2>2. /\ o.at \in {"asked", "off"} /\ o.next = 0 /\ o.rows = <<>> /\ o \in Replies
        /\ o.at = "asked" => cursor.more
    <3>1. PICK a \in {"asked", "off"} :
            /\ o = [at |-> a, rows |-> <<>>, next |-> 0, more |-> FALSE]
            /\ a = "asked" => cursor.more
      BY <1>6, <2>1 DEF OlderAsked, OlderFails, OlderApplied, NoAnswer
    <3>2. <<>> \in Seq(Entry)
      OBVIOUS
    <3>3. o \in Replies
      BY <3>1, <3>2 DEF Replies, Ats
    <3> QED
      BY <3>1, <3>3
  <2>3. o.at = "off" \/ UNCHANGED cursor
    BY <1>6, <2>1 DEF OlderAsked, OlderFails, OlderApplied, NoAnswer
  <2>4. RowsTrue(o.rows)
    BY <2>2 DEF RowsTrue
  <2> QED
    BY <1>1, <1>3, <2>1, <2>2, <2>3, <2>4
<1>7. CASE LoadApplied
  <2>1. UNCHANGED older
    BY <1>7 DEF LoadApplied
  <2>2. older.at = "off"
    BY <1>0, <1>7 DEF LoadApplied, LoadTrue
  <2> QED
    BY <1>4, <2>1, <2>2
<1>8. CASE LoadAnswered \/ LoadFails \/ CatchUp \/ Live \/ Others \/ Sends \/ UNCHANGED pageVars
  <2>1. UNCHANGED <<cursor, older>>
    <3>1. CASE CatchUp
      BY <3>1 DEF CatchUp, CatchStart, CatchPage, CatchApplied, CatchFails
    <3>2. CASE Live
      BY <3>2 DEF Live, NewMessage, Patched, Deleted
    <3>3. CASE Others
      BY <3>3 DEF Others, Posted, Patch, Delete, Disconnect, Connect
    <3>4. CASE Sends
      BY <3>4 DEF Sends, Compose, SendSettled, SendQueued, SendRateLimited
    <3>5. CASE UNCHANGED pageVars
      BY <3>5 DEF pageVars
    <3>6. CASE LoadAnswered \/ LoadFails
      BY <3>6 DEF LoadAnswered, LoadFails
    <3> QED
      BY <1>8, <3>1, <3>2, <3>3, <3>4, <3>5, <3>6
  <2> QED
    BY <1>4, <2>1
<1> QED
  BY <1>5, <1>6, <1>7, <1>8 DEF NextRoom, Loads

\* A watermark never goes back.
LEMMA SeenGrows ==
  ASSUME RoomInv, [NextRoom]_pageVars
  PROVE  seen \in Nat /\ seen' \in Nat /\ seen <= seen'
<1>0. RoomTrue /\ LoadTrue /\ CatchTrue
  BY DEF RoomInv
<1>1. seen \in 0..Len(slots) /\ Len(slots) \in Nat
  BY <1>0, SlotsAre DEF RoomTrue
<1>2. ASSUME NEW n \in Nat, seen' = Max({seen, n})
      PROVE  seen' \in Nat /\ seen <= seen'
  <2>1. Max({seen, n}) = IF seen >= n THEN seen ELSE n
    BY <1>1, LaterOf
  <2> QED
    BY <1>1, <1>2, <2>1
<1>3. CASE LoadApplied
  <2>1. PICK n : n = Newest(load.rows)
    OBVIOUS
  <2>2. n \in Nat
    BY <1>0, <1>1, <2>1, NewestOf DEF LoadTrue
  <2>3. seen' = Max({seen, n})
    BY <1>3, <2>1 DEF LoadApplied
  <2> QED
    BY <1>1, <1>2, <2>2, <2>3
<1>4. CASE CatchApplied
  <2>1. PICK n \in Nat : n = catch.high
    BY <1>0, <1>1 DEF CatchTrue
  <2>2. seen' = seen \/ seen' = Max({seen, n})
    BY <1>4, <2>1 DEF CatchApplied
  <2> QED
    BY <1>1, <1>2, <2>1, <2>2
<1>5. ASSUME NEW f \in coming, NewMessage(f)
      PROVE  seen' \in Nat /\ seen <= seen'
  <2>1. f.id \in Nat
    BY <1>0, SlotsAre DEF RoomTrue
  <2> QED
    BY <1>1, <1>2, <1>5, <2>1 DEF NewMessage
<1>6. CASE UNCHANGED seen
  BY <1>1, <1>6
<1>7. UNCHANGED seen \/ LoadApplied \/ CatchApplied \/ \E f \in coming : NewMessage(f)
  <2>1. CASE Loads
    BY <2>1 DEF Loads, LoadAnswered, LoadFails, OlderAsked, OlderAnswered, OlderApplied, OlderFails
  <2>2. CASE CatchUp
    BY <2>2 DEF CatchUp, CatchStart, CatchPage, CatchFails
  <2>3. CASE Live
    BY <2>3 DEF Live, Patched, Deleted
  <2>4. CASE Others
    BY <2>4 DEF Others, Posted, Patch, Delete, Disconnect, Connect
  <2>5. CASE Sends
    BY <2>5 DEF Sends, Compose, SendSettled, SendQueued, SendRateLimited
  <2>6. CASE UNCHANGED pageVars
    BY <2>6 DEF pageVars
  <2> QED
    BY <2>1, <2>2, <2>3, <2>4, <2>5, <2>6 DEF NextRoom
<1> QED
  BY <1>1, <1>3, <1>4, <1>5, <1>6, <1>7

\* Two parts of a catch-up's rows, and the rows they make.
LEMMA RowsJoined ==
  ASSUME RoomTrue, NEW r, NEW t, RowsTrue(r), RowsTrue(t),
         \A j \in DOMAIN r, k \in DOMAIN t : r[j].id # t[k].id
  PROVE  /\ RowsTrue(r \o t)
         /\ \A i : Has(r, i) \/ Has(t, i) => Has(r \o t, i)
         /\ \A n \in DOMAIN (r \o t) : (\E j \in DOMAIN r : (r \o t)[n] = r[j])
                                       \/ (\E k \in DOMAIN t : (r \o t)[n] = t[k])
<1> DEFINE u == r \o t
<1>0. r \in Seq(Entry) /\ t \in Seq(Entry)
  BY DEF RowsTrue
<1>1. /\ u \in Seq(Entry)
      /\ \A k \in DOMAIN r : k \in DOMAIN u /\ u[k] = r[k]
      /\ \A k \in DOMAIN t : Len(r) + k \in DOMAIN u /\ u[Len(r) + k] = t[k]
      /\ \A n \in DOMAIN u : n \in DOMAIN r \/ \E k \in DOMAIN t : n = Len(r) + k
  BY <1>0, Joined
<1> HIDE DEF u
<1>2. \A n \in DOMAIN u : (\E j \in DOMAIN r : u[n] = r[j]) \/ (\E k \in DOMAIN t : u[n] = t[k])
  BY <1>1
<1>3. \A n \in DOMAIN u : u[n].id \in DOMAIN slots /\ u[n].cid = NoCid /\ ~u[n].pending
  BY <1>2 DEF RowsTrue
<1>4. ASSUME NEW m \in DOMAIN u, NEW n \in DOMAIN u, u[m].id = u[n].id
      PROVE  m = n
  <2>1. CASE m \in DOMAIN r /\ n \in DOMAIN r
    BY <1>1, <1>4, <2>1 DEF RowsTrue
  <2>2. CASE m \in DOMAIN r /\ n \notin DOMAIN r
    BY <1>1, <1>4, <2>2
  <2>3. CASE m \notin DOMAIN r /\ n \in DOMAIN r
    BY <1>1, <1>4, <2>3
  <2>4. CASE m \notin DOMAIN r /\ n \notin DOMAIN r
    <3>1. PICK j \in DOMAIN t : m = Len(r) + j /\ u[m] = t[j]
      BY <1>1, <2>4
    <3>2. PICK k \in DOMAIN t : n = Len(r) + k /\ u[n] = t[k]
      BY <1>1, <2>4
    <3>3. j = k
      BY <1>4, <3>1, <3>2 DEF RowsTrue
    <3> QED
      BY <3>1, <3>2, <3>3
  <2> QED
    BY <2>1, <2>2, <2>3, <2>4
<1>5. RowsTrue(u)
  BY <1>1, <1>3, <1>4 DEF RowsTrue
<1>6. \A i : Has(r, i) \/ Has(t, i) => Has(u, i)
  BY <1>1 DEF Has
<1> QED
  BY <1>2, <1>5, <1>6 DEF u

\* What is kept of the catch-up, at each step.
LEMMA CatchStep ==
  ASSUME RoomInv, [NextRoom]_pageVars, RoomGrown
  PROVE  CatchTrue'
<1>0. RoomTrue /\ CatchTrue
  BY DEF RoomInv
<1>1. Len(slots) \in Nat /\ Len(slots') \in Nat /\ Len(slots) <= Len(slots')
  BY <1>0, SlotsAre DEF RoomGrown
<1> DEFINE Catches == [at : {"off", "due", "paging", "answered"}, from : 0..Len(slots),
                       rows : Seq(Entry), high : 0..Len(slots), left : Nat]
<1>2. ASSUME NEW c, catch' = c, c \in Catches, RowsTrue(c.rows),
             \A k \in DOMAIN c.rows : c.rows[k].id <= c.from,
             c.at \in {"paging", "answered"} =>
               \A i \in Alive : seen < i /\ i <= c.from => Has(c.rows, i)
      PROVE  CatchTrue'
  <2>1. PICK r : r = c.rows
    OBVIOUS
  <2>2. RowsTrue(r)'
    BY <1>0, <1>2, <2>1, RowsStay
  <2>3. c \in [at : {"off", "due", "paging", "answered"}, from : 0..Len(slots'),
               rows : Seq(Entry), high : 0..Len(slots'), left : Nat]
    BY <1>1, <1>2
  <2>4. seen \in Nat /\ seen' \in Nat /\ seen <= seen'
    BY SeenGrows
  <2>5. ASSUME c.at \in {"paging", "answered"}, NEW i, i \in Alive', seen' < i, i <= c.from
        PROVE  Has(r, i)
    <3>1. i \in Nat /\ (i \in Alive \/ i > Len(slots))
      BY <1>0, <2>5, AliveBefore
    <3>2. c.from \in 0..Len(slots)
      BY <1>2
    <3>3. i \in Alive /\ seen < i
      BY <1>1, <2>4, <2>5, <3>1, <3>2
    <3> QED
      BY <1>2, <2>1, <2>5, <3>3
  <2>6. \A i : Has(r, i)' = Has(r, i)
    BY DEF Has
  <2> QED
    BY <1>2, <2>1, <2>2, <2>3, <2>5, <2>6 DEF CatchTrue
<1>3. CASE UNCHANGED catch
  <2>1. PICK c : c = catch
    OBVIOUS
  <2>2. c \in Catches
    BY <1>0, <2>1 DEF CatchTrue
  <2> QED
    BY <1>0, <1>2, <1>3, <2>1, <2>2 DEF CatchTrue
<1>4. ASSUME NEW a \in {"off", "due"}, NEW c, catch' = c,
             c = [at |-> a, from |-> 0, rows |-> <<>>, high |-> 0, left |-> 0]
      PROVE  CatchTrue'
  <2>1. c \in Catches
    BY <1>1, <1>4
  <2>2. RowsTrue(c.rows)
    BY <1>4 DEF RowsTrue
  <2>3. c.rows = <<>> /\ c.at \notin {"paging", "answered"}
    BY <1>4
  <2>4. \A k \in DOMAIN c.rows : c.rows[k].id <= c.from
    BY <2>3
  <2> QED
    BY <1>2, <1>4, <2>1, <2>2, <2>3, <2>4
<1>5. CASE Connect
  <2>1. PICK c : catch' = c
    OBVIOUS
  <2>2. CASE catch.at = "off"
    <3>1. c = [at |-> "due", from |-> 0, rows |-> <<>>, high |-> 0, left |-> 0]
      BY <1>5, <2>1, <2>2 DEF Connect, NoCatch
    <3> QED
      BY <1>4, <2>1, <3>1
  <2>3. CASE catch.at # "off"
    BY <1>3, <1>5, <2>3 DEF Connect
  <2> QED
    BY <2>2, <2>3
<1>6. CASE CatchFails \/ CatchApplied
  <2>1. PICK c : catch' = c
    OBVIOUS
  <2>2. c = [at |-> "off", from |-> 0, rows |-> <<>>, high |-> 0, left |-> 0]
    BY <1>6, <2>1 DEF CatchFails, CatchApplied, NoCatch
  <2> QED
    BY <1>4, <2>1, <2>2
<1>7. CASE CatchStart
  <2>1. PICK n \in PageLimits :
          catch' = IF seen = 0 THEN NoCatch
                   ELSE [at |-> "paging", from |-> seen, rows |-> <<>>, high |-> seen, left |-> n]
    BY <1>7 DEF CatchStart
  <2>2. PICK c : catch' = c
    OBVIOUS
  <2>3. CASE seen = 0
    <3>1. c = [at |-> "off", from |-> 0, rows |-> <<>>, high |-> 0, left |-> 0]
      BY <2>1, <2>2, <2>3 DEF NoCatch
    <3> QED
      BY <1>4, <2>2, <3>1
  <2>4. CASE seen # 0
    <3>1. c = [at |-> "paging", from |-> seen, rows |-> <<>>, high |-> seen, left |-> n]
      BY <2>1, <2>2, <2>4
    <3>2. seen \in 0..Len(slots) /\ n \in Nat
      BY <1>0, RoomViewAssumption DEF RoomTrue
    <3>3. c \in Catches
      BY <3>1, <3>2
    <3>4. RowsTrue(c.rows)
      BY <3>1 DEF RowsTrue
    <3>5. \A i \in Alive : ~(seen < i /\ i <= c.from)
      <4>1. \A i \in Alive : i \in Nat
        BY <1>0, SlotsAre DEF Alive
      <4> QED
        BY <3>1, <3>2, <4>1
    <3>6. c.rows = <<>>
      BY <3>1
    <3>7. \A k \in DOMAIN c.rows : c.rows[k].id <= c.from
      BY <3>6
    <3> QED
      BY <1>2, <2>2, <3>3, <3>4, <3>5, <3>7
  <2> QED
    BY <2>3, <2>4
<1>8. CASE CatchPage
  <2> DEFINE S == {i \in Alive : i > catch.from}
             P == Smallest(S, SyncMax)
             from == IF P = {} THEN catch.from ELSE Max(P)
             rows == catch.rows \o RowsOf(P)
  <2>0. catch.at = "paging"
    BY <1>8 DEF CatchPage
  <2>1. PICK c :
          /\ catch' = c
          /\ c = [at   |-> IF P # S /\ catch.left > 1 THEN "paging" ELSE "answered",
                  from |-> from,
                  rows |-> rows,
                  high |-> IF P # S THEN Max(S) ELSE from,
                  left |-> IF P # S /\ catch.left > 1 THEN catch.left - 1 ELSE 0]
    BY <1>8 DEF CatchPage
  <2>2. Alive \in SUBSET (1..Len(slots)) /\ catch.from \in 0..Len(slots) /\ catch.left \in Nat
    BY <1>0, SlotsAre DEF Alive, CatchTrue
  <2>3. S \in SUBSET Nat /\ IsFiniteSet(S) /\ S \in SUBSET DOMAIN slots
    <3>1. S \in SUBSET DOMAIN slots
      BY <1>0, <2>2, SlotsAre
    <3> QED
      BY <1>0, <3>1, Places DEF RoomTrue
  <2>4. SyncMax \in Nat \ {0}
    BY RoomViewAssumption
  <2>5. \A i \in S : i \in Alive /\ i > catch.from
    OBVIOUS
  <2>6. \A i \in Alive : i > catch.from => i \in S
    OBVIOUS
  <2> HIDE DEF S, P
  <2>7. /\ P \in SUBSET S /\ (S # {} => P # {})
        /\ \A i \in P, j \in S : j <= i => j \in P
    BY <2>3, <2>4, SmallestFirst DEF P
  <2>8. /\ RowsTrue(RowsOf(P)) /\ (\A i \in P : Has(RowsOf(P), i))
        /\ \A k \in DOMAIN RowsOf(P) : RowsOf(P)[k].id \in P
    <3>1. P \in SUBSET DOMAIN slots
      BY <2>3, <2>7
    <3> QED
      BY <1>0, <3>1, RowsOfRoom
  <2>9. P # {} => Max(P) \in P /\ \A i \in P : i <= Max(P)
    <3>1. P \in SUBSET Nat /\ IsFiniteSet(P)
      BY <2>3, <2>7, FS_Subset
    <3> QED
      BY <3>1, Extremes
  <2>10. S # {} => Max(S) \in S
    BY <2>3, Extremes
  <2>11. /\ from \in 0..Len(slots) /\ catch.from <= from
         /\ \A i \in P : i <= from
    <3>1. CASE P = {}
      BY <2>2, <3>1
    <3>2. CASE P # {}
      <4>1. from \in P /\ \A i \in P : i <= from
        BY <2>9, <3>2
      <4>2. from \in Alive /\ from > catch.from
        BY <2>5, <2>7, <4>1
      <4>3. from \in 1..Len(slots)
        BY <2>2, <4>2
      <4> QED
        BY <1>1, <2>2, <4>1, <4>2, <4>3
    <3> QED
      BY <3>1, <3>2
  <2>12. (IF P # S THEN Max(S) ELSE from) \in 0..Len(slots)
    <3>1. CASE P # S
      <4>1. S # {}
        BY <2>7, <3>1
      <4>2. Max(S) \in 1..Len(slots)
        BY <2>2, <2>5, <2>10, <4>1
      <4> QED
        BY <3>1, <4>2
    <3>2. CASE P = S
      BY <2>11, <3>2
    <3> QED
      BY <3>1, <3>2
  <2>13. \A j \in DOMAIN catch.rows, k \in DOMAIN RowsOf(P) : catch.rows[j].id # RowsOf(P)[k].id
    <3> SUFFICES ASSUME NEW j \in DOMAIN catch.rows, NEW k \in DOMAIN RowsOf(P)
                 PROVE  catch.rows[j].id # RowsOf(P)[k].id
      OBVIOUS
    <3>1. catch.rows[j].id <= catch.from /\ catch.rows[j].id \in 1..Len(slots)
      BY <1>0, SlotsAre DEF CatchTrue, RowsTrue
    <3>2. RowsOf(P)[k].id > catch.from /\ RowsOf(P)[k].id \in 1..Len(slots)
      BY <2>2, <2>5, <2>7, <2>8
    <3> QED
      BY <1>1, <2>2, <3>1, <3>2
  <2>14. /\ RowsTrue(rows)
         /\ \A i : Has(catch.rows, i) \/ Has(RowsOf(P), i) => Has(rows, i)
         /\ \A n \in DOMAIN rows : (\E j \in DOMAIN catch.rows : rows[n] = catch.rows[j])
                                   \/ (\E k \in DOMAIN RowsOf(P) : rows[n] = RowsOf(P)[k])
    <3>1. PICK r : r = catch.rows
      OBVIOUS
    <3>2. PICK t : t = RowsOf(P)
      OBVIOUS
    <3>3. /\ RowsTrue(r) /\ RowsTrue(t)
          /\ \A j \in DOMAIN r, k \in DOMAIN t : r[j].id # t[k].id
      BY <1>0, <2>8, <2>13, <3>1, <3>2 DEF CatchTrue
    <3>4. /\ RowsTrue(r \o t)
          /\ \A i : Has(r, i) \/ Has(t, i) => Has(r \o t, i)
          /\ \A n \in DOMAIN (r \o t) : (\E j \in DOMAIN r : (r \o t)[n] = r[j])
                                        \/ (\E k \in DOMAIN t : (r \o t)[n] = t[k])
      BY <1>0, <3>3, RowsJoined
    <3>5. rows = r \o t
      BY <3>1, <3>2
    <3> QED
      BY <3>1, <3>2, <3>4, <3>5
  <2> HIDE DEF from, rows
  <2>15. c \in Catches
    <3>1. rows \in Seq(Entry)
      BY <2>14 DEF RowsTrue
    <3> QED
      BY <2>1, <2>2, <2>11, <2>12, <3>1
  <2>16. ASSUME NEW n \in DOMAIN rows
         PROVE  rows[n].id <= from
    <3>1. CASE \E j \in DOMAIN catch.rows : rows[n] = catch.rows[j]
      <4>1. PICK j \in DOMAIN catch.rows : rows[n] = catch.rows[j]
        BY <3>1
      <4>2. catch.rows[j].id <= catch.from /\ catch.rows[j].id \in 1..Len(slots)
        BY <1>0, SlotsAre DEF CatchTrue, RowsTrue
      <4> QED
        BY <1>1, <2>2, <2>11, <4>1, <4>2
    <3>2. CASE \E k \in DOMAIN RowsOf(P) : rows[n] = RowsOf(P)[k]
      BY <2>8, <2>11, <3>2
    <3> QED
      BY <2>14, <3>1, <3>2
  <2>17. ASSUME NEW i \in Alive, seen < i, i <= from
         PROVE  Has(rows, i)
    <3>0. i \in Nat
      BY <2>2
    <3>1. CASE i <= catch.from
      <4>1. Has(catch.rows, i)
        BY <1>0, <2>0, <2>17, <3>1 DEF CatchTrue
      <4> QED
        BY <2>14, <4>1
    <3>2. CASE i > catch.from
      <4>1. i \in S
        BY <2>6, <3>2
      <4>2. P # {}
        BY <2>7, <4>1
      <4>3. from \in P
        BY <2>9, <4>2 DEF from
      <4>4. i \in P
        BY <2>7, <2>17, <4>1, <4>3
      <4> QED
        BY <2>8, <2>14, <4>4
    <3> QED
      BY <2>2, <3>0, <3>1, <3>2
  <2> QED
    BY <1>2, <2>1, <2>14, <2>15, <2>16, <2>17
<1>9. CASE UNCHANGED catch
  BY <1>3, <1>9
<1>10. UNCHANGED catch \/ Connect \/ CatchUp
  <2>1. CASE Loads
    BY <2>1 DEF Loads, LoadAnswered, LoadApplied, LoadFails, OlderAsked, OlderAnswered, OlderApplied,
       OlderFails
  <2>2. CASE Live
    BY <2>2 DEF Live, NewMessage, Patched, Deleted
  <2>3. CASE Others
    BY <2>3 DEF Others, Posted, Patch, Delete, Disconnect
  <2>4. CASE Sends
    BY <2>4 DEF Sends, Compose, SendSettled, SendQueued, SendRateLimited
  <2>5. CASE UNCHANGED pageVars
    BY <2>5 DEF pageVars
  <2> QED
    BY <2>1, <2>2, <2>3, <2>4, <2>5 DEF NextRoom
<1> QED
  BY <1>3, <1>5, <1>6, <1>7, <1>8, <1>10 DEF CatchUp

-----------------------------------------------------------------------------
\* What becomes of the list.  A frame's message goes where its bubble was, or to the end.
LEMMA MergedList ==
  ASSUME RoomInv, NEW e \in Entry, e.id \in DOMAIN slots, e.cid = slots[e.id], ~Has(list, e.id)
  PROVE  \/ /\ Merged(e) = Append(list, e)
            /\ e.cid # NoCid => \A k \in DOMAIN list : list[k].cid # e.cid
         \/ \E j \in DOMAIN list : /\ list[j].id = 0 /\ list[j].cid = e.cid /\ e.cid # NoCid
                                   /\ Merged(e) = [list EXCEPT ![j] = e]
<1>1. RoomTrue /\ ListTrue(list)
  BY DEF RoomInv
<1>2. Merged(e) = Put(e)
  BY DEF Merged
<1>3. CASE Same(e) = {}
  <2>1. Merged(e) = Append(list, e)
    BY <1>2, <1>3 DEF Put
  <2>2. e.cid # NoCid => \A k \in DOMAIN list : list[k].cid # e.cid
    BY <1>3 DEF Same
  <2> QED
    BY <2>1, <2>2
<1>4. CASE Same(e) # {}
  <2>1. Same(e) \in SUBSET DOMAIN list
    BY DEF Same
  <2>2. Same(e) \in SUBSET Nat /\ IsFiniteSet(Same(e))
    BY <1>1, <2>1, Places DEF ListTrue
  <2>3. PICK j \in Same(e) : j = Min(Same(e))
    BY <1>4, <2>2, Extremes
  <2>4. j \in DOMAIN list /\ list[j].cid = e.cid /\ e.cid # NoCid
    BY <2>3 DEF Same, Has
  <2>5. list[j].id = 0
    <3>1. EntryTrue(list[j]) /\ list[j].id # e.id
      BY <1>1, <2>4 DEF ListTrue, Has
    <3>2. list[j].id # 0 => list[j].id \in DOMAIN slots /\ slots[list[j].id] = slots[e.id]
      BY <2>4, <3>1 DEF EntryTrue
    <3> QED
      BY <1>1, <2>4, <3>1, <3>2 DEF RoomTrue
  <2>6. Merged(e) = [list EXCEPT ![j] = e]
    BY <1>2, <1>4, <2>3 DEF Put
  <2> QED
    BY <2>4, <2>5, <2>6
<1> QED
  BY <1>3, <1>4

\* A sync's rows that are new, and the list with them in order.
LEMMA CaughtUpList ==
  ASSUME RoomInv, CatchApplied, catch.rows # <<>>
  PROVE  \E p \in Seq(Entry) :
           /\ \A k \in DOMAIN list : k \in DOMAIN p /\ p[k] = list[k]
           /\ \A n \in DOMAIN p \ DOMAIN list :
                ~Has(list, p[n].id) /\ \E k \in DOMAIN catch.rows : p[n] = catch.rows[k]
           /\ \A m, n \in DOMAIN p \ DOMAIN list : p[m].id = p[n].id => m = n
           /\ \A k \in DOMAIN catch.rows :
                Has(list, catch.rows[k].id) \/ \E n \in DOMAIN p \ DOMAIN list : p[n] = catch.rows[k]
           /\ \A n \in DOMAIN p \ DOMAIN list :
                /\ slots[p[n].id] # NoCid => p[n].id \in synced'
                /\ Behind(p[n].id) => p[n].id \in late'
           /\ list' \in Seq(Entry)
           /\ \E a \in [DOMAIN list' -> DOMAIN p] :
                /\ \A n \in DOMAIN list' : list'[n] = p[a[n]]
                /\ \A m, n \in DOMAIN list' : a[m] = a[n] => m = n
                /\ \A k \in DOMAIN p : \E n \in DOMAIN list' : a[n] = k
<1> DEFINE K == {k \in DOMAIN catch.rows : ~Has(list, catch.rows[k].id)}
           fresh == Fresh(catch.rows)
           p == list \o fresh
<1>1. RowsTrue(catch.rows) /\ list \in Seq(Entry)
  BY DEF RoomInv, CatchTrue, ListTrue
<1>2. /\ list' = IF fresh = <<>> THEN list ELSE BySequence(p)
      /\ synced' = synced \cup {i \in {fresh[k].id : k \in DOMAIN fresh} : slots[i] # NoCid}
      /\ late' = late \cup {i \in {fresh[k].id : k \in DOMAIN fresh} : Behind(i)}
  BY DEF CatchApplied
<1>3. K \in SUBSET DOMAIN catch.rows /\ catch.rows \in Seq(Entry) /\ fresh = Kept(catch.rows, K)
  BY <1>1 DEF RowsTrue, Fresh
<1>4. \A k \in DOMAIN catch.rows : k \in K <=> ~Has(list, catch.rows[k].id)
  OBVIOUS
<1> HIDE DEF K, fresh
<1>5. /\ fresh \in Seq(Entry)
      /\ \E b \in [DOMAIN fresh -> K] :
           /\ \A n \in DOMAIN fresh : fresh[n] = catch.rows[b[n]]
           /\ \A m, n \in DOMAIN fresh : b[m] = b[n] => m = n
           /\ \A k \in K : \E n \in DOMAIN fresh : b[n] = k
  BY <1>3, KeptLists
<1>6. PICK b \in [DOMAIN fresh -> K] :
        /\ \A n \in DOMAIN fresh : fresh[n] = catch.rows[b[n]]
        /\ \A m, n \in DOMAIN fresh : b[m] = b[n] => m = n
        /\ \A k \in K : \E n \in DOMAIN fresh : b[n] = k
  BY <1>5
<1>7. /\ p \in Seq(Entry)
      /\ \A k \in DOMAIN list : k \in DOMAIN p /\ p[k] = list[k]
      /\ \A k \in DOMAIN fresh : Len(list) + k \in DOMAIN p /\ p[Len(list) + k] = fresh[k]
      /\ \A n \in DOMAIN p : n \in DOMAIN list \/ \E k \in DOMAIN fresh : n = Len(list) + k
  BY <1>1, <1>5, Joined
<1>8. \A k \in DOMAIN fresh : Len(list) + k \notin DOMAIN list
  <2>1. DOMAIN list = 1..Len(list) /\ Len(list) \in Nat /\ DOMAIN fresh = 1..Len(fresh) /\ Len(fresh) \in Nat
    BY <1>1, <1>5
  <2> QED
    BY <2>1
<1> HIDE DEF p
<1>9. ASSUME NEW n \in DOMAIN p \ DOMAIN list
      PROVE  /\ ~Has(list, p[n].id)
             /\ \E k \in DOMAIN catch.rows : p[n] = catch.rows[k]
             /\ slots[p[n].id] # NoCid => p[n].id \in synced'
             /\ Behind(p[n].id) => p[n].id \in late'
  <2>1. PICK k \in DOMAIN fresh : p[n] = fresh[k]
    BY <1>7, <1>9
  <2>2. p[n] = catch.rows[b[k]] /\ b[k] \in K
    BY <1>6, <2>1
  <2> QED
    BY <1>2, <1>3, <1>4, <2>1, <2>2
<1>10. ASSUME NEW m \in DOMAIN p \ DOMAIN list, NEW n \in DOMAIN p \ DOMAIN list, p[m].id = p[n].id
       PROVE  m = n
  <2>1. PICK j \in DOMAIN fresh : m = Len(list) + j /\ p[m] = fresh[j]
    BY <1>7, <1>10
  <2>2. PICK k \in DOMAIN fresh : n = Len(list) + k /\ p[n] = fresh[k]
    BY <1>7, <1>10
  <2>3. catch.rows[b[j]].id = catch.rows[b[k]].id /\ b[j] \in DOMAIN catch.rows /\ b[k] \in DOMAIN catch.rows
    BY <1>3, <1>6, <1>10, <2>1, <2>2
  <2>4. b[j] = b[k]
    BY <1>1, <2>3 DEF RowsTrue
  <2> QED
    BY <1>6, <2>1, <2>2, <2>4
<1>11. ASSUME NEW k \in DOMAIN catch.rows, ~Has(list, catch.rows[k].id)
       PROVE  \E n \in DOMAIN p \ DOMAIN list : p[n] = catch.rows[k]
  <2>1. PICK m \in DOMAIN fresh : b[m] = k
    BY <1>4, <1>6, <1>11
  <2>2. Len(list) + m \in DOMAIN p \ DOMAIN list /\ p[Len(list) + m] = catch.rows[k]
    BY <1>6, <1>7, <1>8, <2>1
  <2> QED
    BY <2>2
<1>12. /\ list' \in Seq(Entry)
       /\ \E a \in [DOMAIN list' -> DOMAIN p] :
            /\ \A n \in DOMAIN list' : list'[n] = p[a[n]]
            /\ \A m, n \in DOMAIN list' : a[m] = a[n] => m = n
            /\ \A k \in DOMAIN p : \E n \in DOMAIN list' : a[n] = k
  <2>1. CASE fresh = <<>>
    <3>1. list' = list /\ DOMAIN fresh = {}
      BY <1>2, <2>1
    <3>2. DOMAIN p = DOMAIN list /\ \A k \in DOMAIN p : p[k] = list'[k]
      BY <1>7, <3>1
    <3>3. [k \in DOMAIN list' |-> k] \in [DOMAIN list' -> DOMAIN p]
      BY <3>1, <3>2
    <3>4. \A n \in DOMAIN list' : list'[n] = p[[k \in DOMAIN list' |-> k][n]]
      BY <3>1, <3>2
    <3> QED
      BY <1>1, <3>1, <3>2, <3>3, <3>4
  <2>2. CASE fresh # <<>>
    <3>1. list' = BySequence(p)
      BY <1>2, <2>2
    <3> QED
      BY <1>7, <3>1, SortedLists
  <2> QED
    BY <2>1, <2>2
<1>13. \A k \in DOMAIN catch.rows :
         Has(list, catch.rows[k].id) \/ \E n \in DOMAIN p \ DOMAIN list : p[n] = catch.rows[k]
  BY <1>11
<1>14. p \in Seq(Entry) /\ \A k \in DOMAIN list : k \in DOMAIN p /\ p[k] = list[k]
  BY <1>7
<1>15. p \in Seq(Entry)
  BY <1>14
<1> USE <1>15
<1> WITNESS p \in Seq(Entry)
<1> QED
  BY <1>9, <1>10, <1>12, <1>13, <1>14

-----------------------------------------------------------------------------
\* What is true of an entry, and of two, stays so.
LEMMA EntryStays ==
  ASSUME RoomTrue, RoomTrue', RoomGrown, NEW e \in Entry, EntryTrue(e),
         e.cid # NoCid => delivery'[e.cid] # "none",
         cursor'.next <= cursor.next, cursor'.more => cursor.more,
         load'.at = "done" => load.at = "done" \/ cursor'.next = 0,
         e.id \in erased' => e.id \in erased
  PROVE  EntryTrue(e)'
<1>1. /\ Len(slots) \in Nat /\ DOMAIN slots = 1..Len(slots)
      /\ Len(slots') \in Nat /\ DOMAIN slots' = 1..Len(slots') /\ Len(slots) <= Len(slots')
      /\ \A i \in DOMAIN slots : slots'[i] = slots[i]
  BY SlotsAre DEF RoomGrown
<1>2. late \subseteq late' /\ stale \subseteq stale'
  BY DEF RoomGrown
<1>3. PICK m \in Nat, n \in Nat : m = cursor.next /\ n = cursor'.next /\ m <= Len(slots)
  BY <1>1 DEF RoomTrue
<1>4. ASSUME e.id = 0, load'.at = "done", NEW i \in DOMAIN slots', slots'[i] = e.cid
      PROVE  n <= i
  <2>1. CASE i \in DOMAIN slots
    <3>1. CASE load.at = "done"
      <4>1. m <= i
        BY <1>1, <1>3, <1>4, <2>1, <3>1 DEF EntryTrue
      <4> QED
        BY <1>1, <1>3, <2>1, <4>1
    <3>2. CASE n = 0
      BY <1>1, <3>2
    <3> QED
      BY <1>3, <1>4, <3>1, <3>2
  <2>2. CASE i \notin DOMAIN slots
    BY <1>1, <1>3, <1>4, <2>2
  <2> QED
    BY <2>1, <2>2
<1>5. ASSUME e.id # 0
      PROVE  /\ e.id \in DOMAIN slots' /\ ~e.pending
             /\ e.cid # NoCid => slots'[e.id] = e.cid
             /\ cursor'.more => n <= e.id \/ e.id \in late'
             /\ e.id \in erased' => e.id \in stale'
  <2>1. e.id \in DOMAIN slots /\ ~e.pending /\ (e.cid # NoCid => slots[e.id] = e.cid)
        /\ (cursor.more => m <= e.id \/ e.id \in late) /\ (e.id \in erased => e.id \in stale)
    BY <1>3, <1>5 DEF EntryTrue
  <2>2. m <= e.id => n <= e.id
    BY <1>1, <1>3, <2>1
  <2> QED
    BY <1>1, <1>2, <2>1, <2>2
<1>6. e.id = 0 => e.pending /\ e.cid \in OwnCid /\ ~e.mark
  BY DEF EntryTrue
<1> QED
  BY <1>3, <1>4, <1>5, <1>6 DEF EntryTrue

\* Entries of two messages stay so, whatever is posted.
LEMMA ApartStays ==
  ASSUME RoomGrown, NEW d, NEW e, Apart(d, e), EntryTrue(e)
  PROVE  Apart(d, e)'
<1>1. late \subseteq late' /\ synced \subseteq synced'
  BY DEF RoomGrown
<1>2. e.id # 0 => slots'[e.id] = slots[e.id]
  BY DEF EntryTrue, RoomGrown
<1> QED
  BY <1>1, <1>2 DEF Apart

\* A row of an answer is an entry, of a message that no other entry is of.
LEMMA RowEnters ==
  ASSUME RoomTrue', RoomGrown, NEW rows, RowsTrue(rows), RoomTrue, NEW k \in DOMAIN rows,
         rows[k].id \in erased' => rows[k].id \in stale',
         cursor'.more => cursor'.next <= rows[k].id \/ rows[k].id \in late'
  PROVE  EntryTrue(rows[k])'
<1>1. rows[k].id \in DOMAIN slots /\ rows[k].cid = NoCid /\ ~rows[k].pending
  BY DEF RowsTrue
<1>2. rows[k].id \in DOMAIN slots' /\ rows[k].id # 0
  BY <1>1, SlotsAre DEF RoomGrown
<1> QED
  BY <1>1, <1>2 DEF EntryTrue

\* What is left of a list, or the same in other places.
LEMMA ListDrawn ==
  ASSUME NEW p, NEW t \in Seq(Entry), NEW a \in [DOMAIN t -> DOMAIN p],
         \A n \in DOMAIN t : t[n] = p[a[n]],
         \A m, n \in DOMAIN t : a[m] = a[n] => m = n,
         \A n \in DOMAIN t : EntryTrue(p[a[n]])',
         \A j, k \in DOMAIN p : j # k => Apart(p[j], p[k])'
  PROVE  ListTrue(t)'
<1>1. \A n \in DOMAIN t : EntryTrue(t[n])'
  OBVIOUS
<1>2. \A j, k \in DOMAIN t : j # k => Apart(t[j], t[k])'
  OBVIOUS
<1> QED
  BY <1>1, <1>2 DEF ListTrue

\* An answer that holds a message removed was on its way then.
LEMMA HeldIsStale ==
  ASSUME RoomInv, NEW i \in erased, HeldFor(i)
  PROVE  i \in stale
BY DEF RoomInv, Removed

-----------------------------------------------------------------------------
\* The list, as each step leaves it.
LEMMA ListStep ==
  ASSUME RoomInv, [NextRoom]_pageVars, RoomGrown, RoomTrue'
  PROVE  ListTrue(list)'
<1>0. RoomTrue /\ LoadTrue /\ OlderTrue /\ CatchTrue /\ ListTrue(list)
  BY DEF RoomInv
<1>1. PICK s \in Seq(Entry) :
        /\ s = list
        /\ \A k \in DOMAIN s : s[k] \in Entry /\ EntryTrue(s[k])
        /\ \A j, k \in DOMAIN s : j # k => Apart(s[j], s[k])
  BY <1>0 DEF ListTrue
<1>2. ASSUME NEW j \in DOMAIN s, NEW k \in DOMAIN s, j # k
      PROVE  Apart(s[j], s[k])'
  BY <1>1, <1>2, ApartStays
<1>3. ASSUME NEW t, list' = t, ListTrue(t)'
      PROVE  ListTrue(list)'
  BY <1>3 DEF ListTrue
<1>4. cursor.next \in Nat /\ (load.at # "done" => cursor = [next |-> 0, more |-> FALSE])
  BY <1>0, SlotsAre DEF RoomTrue, LoadTrue
\* An entry that is not removed stays true, if its send goes on.
<1>5. ASSUME NEW k \in DOMAIN s, UNCHANGED cursor,
             s[k].cid # NoCid => delivery'[s[k].cid] # "none",
             s[k].id \in erased' => s[k].id \in erased
      PROVE  EntryTrue(s[k])'
  <2>1. cursor'.next <= cursor.next /\ (cursor'.more => cursor.more)
    BY <1>4, <1>5
  <2>2. load'.at = "done" => load.at = "done" \/ cursor'.next = 0
    BY <1>4, <1>5
  <2> QED
    BY <1>0, <1>1, <1>5, <2>1, <2>2, EntryStays
<1>6. ASSUME UNCHANGED <<list, cursor, erased>>,
             \A c \in OwnCid : delivery[c] # "none" => delivery'[c] # "none"
      PROVE  ListTrue(list)'
  <2>1. ASSUME NEW k \in DOMAIN s  PROVE EntryTrue(s[k])'
    <3>1. s[k].cid # NoCid => s[k].cid \in OwnCid /\ delivery[s[k].cid] # "none"
      BY <1>1 DEF EntryTrue, Entry
    <3> QED
      BY <1>5, <1>6, <3>1
  <2>2. ListTrue(s)'
    BY <1>2, <2>1 DEF ListTrue
  <2> QED
    BY <1>1, <1>3, <1>6, <2>2
<1>7. CASE LoadApplied
  <2>1. PICK r : r = load.rows
    OBVIOUS
  <2>2. /\ list' = r /\ RowsTrue(r) /\ load.at = "answered"
        /\ cursor' = [next |-> load.next, more |-> load.more]
        /\ UNCHANGED <<erased, stale>>
    BY <1>0, <1>7, <2>1 DEF LoadApplied, LoadTrue
  <2>3. ASSUME NEW k \in DOMAIN r  PROVE EntryTrue(r[k])'
    <3>1. r[k].id \in erased => r[k].id \in stale
      BY <2>1, HeldIsStale DEF HeldFor, Has
    <3>2. cursor'.more => cursor'.next <= r[k].id
      BY <1>0, <2>1, <2>2 DEF LoadTrue
    <3> QED
      BY <1>0, <2>2, <3>1, <3>2, RowEnters
  <2>4. ASSUME NEW j \in DOMAIN r, NEW k \in DOMAIN r, j # k  PROVE Apart(r[j], r[k])'
    <3>1. /\ r[j].id # r[k].id /\ r[j].id # 0
          /\ r[j].cid = NoCid
      BY <1>0, <2>2, <2>4, SlotsAre DEF RowsTrue
    <3> QED
      BY <3>1 DEF Apart
  <2>5. ListTrue(r)'
    BY <2>2, <2>3, <2>4 DEF ListTrue, RowsTrue
  <2> QED
    BY <1>3, <2>2, <2>5
<1>8. CASE OlderApplied
  <2>1. PICK r : r = older.rows
    OBVIOUS
  <2>2. PICK t : t = r \o s
    OBVIOUS
  <2>3. /\ list' = t /\ RowsTrue(r) /\ older.at = "answered" /\ cursor.more
        /\ cursor' = [next |-> older.next, more |-> older.more]
        /\ UNCHANGED <<slots, load, delivery, erased, stale, late, synced>>
    BY <1>0, <1>1, <1>8, <2>1, <2>2 DEF OlderApplied, OlderTrue, shared, hist
  <2>4. /\ older.next <= cursor.next
        /\ \A k \in DOMAIN r : r[k].id < cursor.next /\ (older.more => older.next <= r[k].id)
    BY <1>0, <2>1, <2>3 DEF OlderTrue
  <2>5. load.at = "done"
    BY <1>4, <2>3
  <2>6. ASSUME NEW k \in DOMAIN r  PROVE EntryTrue(r[k])'
    <3>1. r[k].id \in erased => r[k].id \in stale
      BY <2>1, HeldIsStale DEF HeldFor, Has
    <3>2. cursor'.more => cursor'.next <= r[k].id
      BY <2>3, <2>4
    <3> QED
      BY <1>0, <2>3, <3>1, <3>2, RowEnters
  <2>7. ASSUME NEW k \in DOMAIN s  PROVE EntryTrue(s[k])'
    <3>1. cursor'.next <= cursor.next /\ (cursor'.more => cursor.more)
      BY <2>3, <2>4
    <3>2. s[k].cid # NoCid => delivery'[s[k].cid] # "none"
      BY <1>1, <2>3 DEF EntryTrue
    <3> QED
      BY <1>0, <1>1, <2>3, <2>5, <3>1, <3>2, EntryStays
  <2>8. ASSUME NEW j \in DOMAIN r, NEW k \in DOMAIN s
        PROVE  Apart(r[j], s[k])' /\ Apart(s[k], r[j])'
    <3>1. r[j].id \in 1..Len(slots) /\ r[j].cid = NoCid /\ r[j].id < cursor.next
      BY <1>0, <2>3, <2>4, SlotsAre DEF RowsTrue
    <3>2. s[k].id # 0 => s[k].id \in 1..Len(slots) /\ (cursor.next <= s[k].id \/ s[k].id \in late)
      BY <1>0, <1>1, <2>3, SlotsAre DEF EntryTrue
    <3>3. s[k].id = r[j].id => s[k].id \in late
      BY <1>4, <3>1, <3>2
    <3>4. s[k].id = 0 => slots[r[j].id] # s[k].cid
      <4>1. ASSUME s[k].id = 0, slots[r[j].id] = s[k].cid  PROVE cursor.next <= r[j].id
        BY <1>0, <1>1, <2>5, <3>1, <4>1, SlotsAre DEF EntryTrue
      <4> QED
        BY <1>4, <3>1, <4>1
    <3> QED
      BY <2>3, <3>1, <3>3, <3>4 DEF Apart
  <2>9. ASSUME NEW j \in DOMAIN r, NEW k \in DOMAIN r, j # k  PROVE Apart(r[j], r[k])'
    <3>1. /\ r[j].id # r[k].id /\ r[j].id # 0
          /\ r[j].cid = NoCid
      BY <1>0, <2>3, <2>9, SlotsAre DEF RowsTrue
    <3> QED
      BY <3>1 DEF Apart
  <2>10. /\ t \in Seq(Entry)
         /\ \A k \in DOMAIN r : k \in DOMAIN t /\ t[k] = r[k]
         /\ \A n \in DOMAIN t : n \in DOMAIN r \/ \E k \in DOMAIN s : n = Len(r) + k /\ t[n] = s[k]
    <3>1. r \in Seq(Entry)
      BY <2>3 DEF RowsTrue
    <3> QED
      BY <1>1, <2>2, <3>1, Joined
  <2>11. ListTrue(t)'
    <3>1. ASSUME NEW n \in DOMAIN t  PROVE EntryTrue(t[n])'
      BY <2>6, <2>7, <2>10
    <3>2. ASSUME NEW m \in DOMAIN t, NEW n \in DOMAIN t, m # n  PROVE Apart(t[m], t[n])'
      <4>1. CASE m \in DOMAIN r /\ n \in DOMAIN r
        BY <2>9, <2>10, <3>2, <4>1
      <4>2. CASE m \in DOMAIN r /\ n \notin DOMAIN r
        BY <2>8, <2>10, <4>2
      <4>3. CASE m \notin DOMAIN r /\ n \in DOMAIN r
        BY <2>8, <2>10, <4>3
      <4>4. CASE m \notin DOMAIN r /\ n \notin DOMAIN r
        <5>1. PICK j \in DOMAIN s : m = Len(r) + j /\ t[m] = s[j]
          BY <2>10, <4>4
        <5>2. PICK k \in DOMAIN s : n = Len(r) + k /\ t[n] = s[k]
          BY <2>10, <4>4
        <5> QED
          BY <1>2, <3>2, <5>1, <5>2
      <4> QED
        BY <4>1, <4>2, <4>3, <4>4
    <3> QED
      BY <2>10, <3>1, <3>2 DEF ListTrue
  <2> QED
    BY <1>3, <2>3, <2>11
<1>9. CASE CatchApplied /\ catch.rows # <<>>
  <2>1. PICK r : r = catch.rows
    OBVIOUS
  <2>2. PICK t : t = list'
    OBVIOUS
  <2>3. PICK p \in Seq(Entry) :
          /\ \A k \in DOMAIN list : k \in DOMAIN p /\ p[k] = list[k]
          /\ \A n \in DOMAIN p \ DOMAIN list :
               ~Has(list, p[n].id) /\ \E k \in DOMAIN catch.rows : p[n] = catch.rows[k]
          /\ \A m, n \in DOMAIN p \ DOMAIN list : p[m].id = p[n].id => m = n
          /\ \A k \in DOMAIN catch.rows :
               Has(list, catch.rows[k].id) \/ \E n \in DOMAIN p \ DOMAIN list : p[n] = catch.rows[k]
          /\ \A n \in DOMAIN p \ DOMAIN list :
               /\ slots[p[n].id] # NoCid => p[n].id \in synced'
               /\ Behind(p[n].id) => p[n].id \in late'
          /\ list' \in Seq(Entry)
          /\ \E a \in [DOMAIN list' -> DOMAIN p] :
               /\ \A n \in DOMAIN list' : list'[n] = p[a[n]]
               /\ \A m, n \in DOMAIN list' : a[m] = a[n] => m = n
               /\ \A k \in DOMAIN p : \E n \in DOMAIN list' : a[n] = k
    BY <1>9, CaughtUpList
  <2>4. /\ \A k \in DOMAIN s : k \in DOMAIN p /\ p[k] = s[k]
        /\ \A n \in DOMAIN p \ DOMAIN s : ~Has(s, p[n].id) /\ \E k \in DOMAIN r : p[n] = r[k]
        /\ \A m, n \in DOMAIN p \ DOMAIN s : p[m].id = p[n].id => m = n
        /\ \A n \in DOMAIN p \ DOMAIN s : /\ slots[p[n].id] # NoCid => p[n].id \in synced'
                                          /\ Behind(p[n].id) => p[n].id \in late'
        /\ t \in Seq(Entry)
        /\ \E a \in [DOMAIN t -> DOMAIN p] :
             /\ \A n \in DOMAIN t : t[n] = p[a[n]]
             /\ \A m, n \in DOMAIN t : a[m] = a[n] => m = n
    BY <1>1, <2>3, <2>1, <2>2
  <2>5. RowsTrue(r) /\ UNCHANGED <<slots, cursor, load, delivery, erased, stale>>
    BY <1>0, <1>9, <2>1 DEF CatchApplied, CatchTrue, shared
  <2>6. ASSUME NEW n \in DOMAIN p \ DOMAIN s
        PROVE  /\ EntryTrue(p[n])'
               /\ p[n].id \in DOMAIN slots /\ p[n].id # 0 /\ p[n].cid = NoCid
    <3>1. PICK k \in DOMAIN r : p[n] = r[k]
      BY <2>4
    <3>2. r[k].id \in erased => r[k].id \in stale
      BY <2>1, HeldIsStale DEF HeldFor, Has
    <3>3. cursor'.more => cursor'.next <= r[k].id \/ r[k].id \in late'
      <4>1. r[k].id \in Nat
        BY <1>0, <2>5, SlotsAre DEF RowsTrue
      <4> QED
        BY <1>4, <2>4, <2>5, <3>1, <4>1 DEF Behind
    <3>4. r[k].id \in DOMAIN slots /\ r[k].id # 0 /\ r[k].cid = NoCid
      BY <1>0, <2>5, SlotsAre DEF RowsTrue
    <3> QED
      BY <1>0, <2>5, <3>1, <3>2, <3>3, <3>4, RowEnters
  <2>7. ASSUME NEW k \in DOMAIN s  PROVE EntryTrue(p[k])'
    <3>1. s[k].cid # NoCid => delivery'[s[k].cid] # "none"
      BY <1>1, <2>5 DEF EntryTrue
    <3> QED
      BY <1>5, <2>4, <2>5, <3>1
  <2>8. ASSUME NEW j \in DOMAIN p, NEW k \in DOMAIN p, j # k  PROVE Apart(p[j], p[k])'
    <3>1. CASE j \in DOMAIN s /\ k \in DOMAIN s
      BY <1>2, <2>4, <2>8, <3>1
    <3>2. CASE j \in DOMAIN s /\ k \notin DOMAIN s
      <4>1. p[j].id # p[k].id /\ p[k].cid = NoCid /\ p[k].id # 0
        BY <2>4, <2>6, <3>2 DEF Has
      <4>2. p[j].id = 0 => p[j].cid \in OwnCid
        BY <1>1, <2>4, <3>2 DEF EntryTrue
      <4>3. p[j].id = 0 /\ slots[p[k].id] = p[j].cid => p[k].id \in synced'
        BY <2>4, <3>2, <4>2, RoomViewAssumption
      <4> QED
        BY <2>5, <4>1, <4>3 DEF Apart
    <3>3. CASE j \notin DOMAIN s /\ k \in DOMAIN s
      <4>1. p[j].id # p[k].id /\ p[j].cid = NoCid /\ p[j].id # 0
        BY <2>4, <2>6, <3>3 DEF Has
      <4> QED
        BY <4>1 DEF Apart
    <3>4. CASE j \notin DOMAIN s /\ k \notin DOMAIN s
      <4>1. p[j].id # p[k].id /\ p[j].cid = NoCid /\ p[j].id # 0
        BY <2>4, <2>6, <2>8, <3>4
      <4> QED
        BY <4>1 DEF Apart
    <3> QED
      BY <3>1, <3>2, <3>3, <3>4
  <2>9. ListTrue(t)'
    <3>1. PICK a \in [DOMAIN t -> DOMAIN p] :
            /\ \A n \in DOMAIN t : t[n] = p[a[n]]
            /\ \A m, n \in DOMAIN t : a[m] = a[n] => m = n
      BY <2>4
    <3>2. \A n \in DOMAIN t : EntryTrue(p[a[n]])'
      BY <2>6, <2>7, <3>1
    <3> QED
      BY <2>4, <2>8, <3>1, <3>2, ListDrawn
  <2> QED
    BY <1>3, <2>2, <2>9
<1>10. ASSUME NEW f \in coming, NewMessage(f)
       PROVE  ListTrue(list)'
  <2>1. PICK i : i = f.id
    OBVIOUS
  <2>2. PICK c : c = slots[i]
    OBVIOUS
  <2>3. PICK e : e = [id |-> i, cid |-> c, pending |-> FALSE, mark |-> FALSE]
    OBVIOUS
  <2>4. /\ list' = Merged(e)
        /\ delivery' = IF c = NoCid THEN delivery ELSE [delivery EXCEPT ![c] = "sent"]
        /\ late' = IF Behind(i) THEN late \cup {i} ELSE late
        /\ UNCHANGED <<slots, cursor, load, erased, stale, synced>>
    BY <1>10, <2>1, <2>2, <2>3 DEF NewMessage, shared
  <2>5. i \in DOMAIN slots /\ i # 0 /\ i \in Nat /\ c \in OwnCid \cup {NoCid}
    BY <1>0, <1>10, <2>1, <2>2, SlotsAre DEF RoomTrue
  <2>6. \A d \in OwnCid : delivery[d] # "none" => delivery'[d] # "none"
    BY <1>0, <2>4 DEF RoomTrue
  <2>7. CASE Has(list, i)
    <3>1. list' = list
      BY <2>3, <2>4, <2>7 DEF Merged
    <3> QED
      BY <1>6, <2>4, <2>6, <3>1
  <2>8. CASE ~Has(list, i)
    <3>1. e \in Entry /\ e.id = i /\ e.cid = c /\ ~e.pending
      BY <1>0, <2>3, <2>5, SlotsAre DEF Entry
    <3>2. EntryTrue(e)'
      <4>1. c # NoCid => delivery'[c] # "none"
        BY <1>0, <2>4, <2>5 DEF RoomTrue
      <4>2. cursor'.more => cursor'.next <= i \/ i \in late'
        BY <1>4, <2>4, <2>5 DEF Behind
      <4>3. i \in erased' => i \in stale'
        <5>1. HeldFor(i)
          BY <1>10, <2>1 DEF HeldFor, InFlight, NewMessage
        <5> QED
          BY <2>4, <5>1, HeldIsStale
      <4> QED
        BY <2>2, <2>4, <2>5, <3>1, <4>1, <4>2, <4>3 DEF EntryTrue
    <3>3. ASSUME NEW k \in DOMAIN s  PROVE EntryTrue(s[k])'
      <4>1. s[k].cid # NoCid => s[k].cid \in OwnCid /\ delivery[s[k].cid] # "none"
        BY <1>1 DEF EntryTrue, Entry
      <4> QED
        BY <1>5, <2>4, <2>6, <4>1
    <3>4. \A k \in DOMAIN s : s[k].id # i
      BY <1>1, <2>8 DEF Has
    <3>5. ASSUME NEW k \in DOMAIN s, c # NoCid => s[k].cid # c
          PROVE  Apart(s[k], e)' /\ Apart(e, s[k])'
      <4>1. s[k].id = 0 => s[k].cid \in OwnCid
        BY <1>1 DEF EntryTrue
      <4>2. s[k].id = 0 => slots[i] # s[k].cid
        BY <2>2, <3>5, <4>1, RoomViewAssumption
      <4> QED
        BY <2>4, <2>5, <3>1, <3>4, <3>5, <4>2 DEF Apart
    <3>6. CASE list' = Append(s, e) /\ (c # NoCid => \A k \in DOMAIN s : s[k].cid # c)
      <4>1. PICK t : t = Append(s, e)
        OBVIOUS
      <4>2. /\ t \in Seq(Entry)
            /\ DOMAIN t = DOMAIN s \cup {Len(s) + 1}
            /\ Len(s) + 1 \notin DOMAIN s
            /\ \A k \in DOMAIN s : t[k] = s[k]
            /\ t[Len(s) + 1] = e
        BY <3>1, <4>1, Longer
      <4>3. ASSUME NEW k \in DOMAIN t  PROVE EntryTrue(t[k])'
        BY <3>2, <3>3, <4>2
      <4>4. ASSUME NEW j \in DOMAIN t, NEW k \in DOMAIN t, j # k  PROVE Apart(t[j], t[k])'
        BY <1>2, <3>5, <3>6, <4>2, <4>4
      <4>5. ListTrue(t)'
        BY <4>2, <4>3, <4>4 DEF ListTrue
      <4> QED
        BY <1>3, <3>6, <4>1, <4>5
    <3>7. ASSUME NEW j \in DOMAIN s, s[j].cid = c, c # NoCid, list' = [s EXCEPT ![j] = e]
          PROVE  ListTrue(list)'
      <4>1. PICK t : t = [s EXCEPT ![j] = e]
        OBVIOUS
      <4>2. /\ t \in Seq(Entry)
            /\ DOMAIN t = DOMAIN s
            /\ \A k \in DOMAIN s : t[k] = IF k = j THEN e ELSE s[k]
        BY <3>1, <4>1, Replaced
      <4>3. ASSUME NEW k \in DOMAIN t  PROVE EntryTrue(t[k])'
        BY <3>2, <3>3, <4>2
      <4>4. \A k \in DOMAIN s : k # j => s[k].cid # c
        BY <1>1, <3>7 DEF Apart
      <4>5. ASSUME NEW m \in DOMAIN t, NEW k \in DOMAIN t, m # k  PROVE Apart(t[m], t[k])'
        BY <1>2, <3>5, <4>2, <4>4, <4>5
      <4>6. ListTrue(t)'
        BY <4>2, <4>3, <4>5 DEF ListTrue
      <4> QED
        BY <1>3, <3>7, <4>1, <4>6
    <3>8. \/ /\ Merged(e) = Append(list, e)
             /\ e.cid # NoCid => \A k \in DOMAIN list : list[k].cid # e.cid
          \/ \E j \in DOMAIN list : /\ list[j].id = 0 /\ list[j].cid = e.cid /\ e.cid # NoCid
                                    /\ Merged(e) = [list EXCEPT ![j] = e]
      BY <2>2, <2>5, <2>8, <3>1, MergedList
    <3> QED
      BY <1>1, <2>4, <3>1, <3>6, <3>7, <3>8
  <2> QED
    BY <2>7, <2>8
<1>11. ASSUME NEW f \in coming, Patched(f)
       PROVE  ListTrue(list)'
  <2>1. PICK t : t = [k \in DOMAIN s |-> IF s[k].id = f.id THEN [s[k] EXCEPT !.mark = TRUE] ELSE s[k]]
    OBVIOUS
  <2>2. list' = t /\ UNCHANGED <<slots, cursor, load, delivery, hist>>
    BY <1>1, <1>11, <2>1 DEF Patched, shared
  <2>3. f.id \in DOMAIN slots /\ f.id # 0
    BY <1>0, <1>11, SlotsAre DEF RoomTrue
  <2>4. ASSUME NEW k \in DOMAIN s
        PROVE  /\ t[k] \in Entry
               /\ t[k].id = s[k].id /\ t[k].cid = s[k].cid /\ t[k].pending = s[k].pending
               /\ s[k].id = 0 => t[k] = s[k]
    <3>1. s[k] \in Entry
      BY <1>1
    <3>2. CASE s[k].id = f.id
      <4>1. t[k] = [s[k] EXCEPT !.mark = TRUE]
        BY <2>1, <3>2
      <4>2. s[k] = [id |-> s[k].id, cid |-> s[k].cid, pending |-> s[k].pending, mark |-> s[k].mark]
        BY <3>1 DEF Entry
      <4> QED
        BY <2>3, <3>1, <3>2, <4>1, <4>2 DEF Entry
    <3>3. CASE s[k].id # f.id
      BY <2>1, <3>1, <3>3
    <3> QED
      BY <3>2, <3>3
  <2>5. t \in Seq(Entry) /\ DOMAIN t = DOMAIN s
    <3>1. DOMAIN s = 1..Len(s) /\ Len(s) \in Nat
      OBVIOUS
    <3>2. t \in [1..Len(s) -> Entry]
      BY <2>1, <2>4, <3>1
    <3> QED
      BY <3>1, <3>2, AreLists
  <2>6. ASSUME NEW k \in DOMAIN s  PROVE EntryTrue(t[k])'
    <3>1. s[k].cid # NoCid => delivery'[s[k].cid] # "none"
      BY <1>1, <2>2 DEF EntryTrue
    <3>2. EntryTrue(s[k])'
      BY <1>5, <2>2, <3>1 DEF hist
    <3> QED
      BY <2>4, <3>2 DEF EntryTrue
  <2>7. ASSUME NEW j \in DOMAIN s, NEW k \in DOMAIN s, j # k  PROVE Apart(t[j], t[k])'
    <3>1. Apart(s[j], s[k])'
      BY <1>2, <2>7
    <3> QED
      BY <2>4, <3>1 DEF Apart
  <2>8. ListTrue(t)'
    BY <2>5, <2>6, <2>7 DEF ListTrue
  <2> QED
    BY <1>3, <2>2, <2>8
\* What is kept of the list.
<1>12. ASSUME NEW K \in SUBSET DOMAIN s, list' = Kept(s, K),
              \A k \in K : EntryTrue(s[k])'
       PROVE  ListTrue(list)'
  <2>1. PICK t : t = Kept(s, K)
    OBVIOUS
  <2>2. PICK a \in [DOMAIN t -> K] :
          /\ t \in Seq(Entry)
          /\ \A n \in DOMAIN t : t[n] = s[a[n]]
          /\ \A m, n \in DOMAIN t : a[m] = a[n] => m = n
    BY <2>1, KeptLists
  <2>3. a \in [DOMAIN t -> DOMAIN s] /\ \A n \in DOMAIN t : EntryTrue(s[a[n]])'
    BY <1>12, <2>2
  <2>4. ListTrue(t)'
    BY <1>2, <2>2, <2>3, ListDrawn
  <2> QED
    BY <1>3, <1>12, <2>1, <2>4
<1>13. ASSUME NEW f \in coming, Deleted(f)
       PROVE  ListTrue(list)'
  <2>1. PICK K : K = {k \in DOMAIN s : s[k].id # f.id}
    OBVIOUS
  <2>2. list' = Kept(s, K)
    BY <1>1, <1>13, <2>1 DEF Deleted, Without
  <2>3. UNCHANGED <<cursor, delivery>> /\ erased' = erased \cup {f.id}
    BY <1>13 DEF Deleted
  <2>4. ASSUME NEW k \in K  PROVE EntryTrue(s[k])'
    <3>1. k \in DOMAIN s /\ s[k].id # f.id
      BY <2>1
    <3>2. s[k].cid # NoCid => delivery'[s[k].cid] # "none"
      BY <1>1, <2>3, <3>1 DEF EntryTrue
    <3> QED
      BY <1>5, <2>3, <3>1, <3>2
  <2> QED
    BY <1>12, <2>1, <2>2, <2>4
<1>14. ASSUME NEW c \in OwnCid, SendRateLimited(c)
       PROVE  ListTrue(list)'
  <2>1. PICK K : K = {k \in DOMAIN s : s[k].cid # c}
    OBVIOUS
  <2>2. list' = Kept(s, K)
    BY <1>1, <1>14, <2>1 DEF SendRateLimited
  <2>3. UNCHANGED <<cursor, erased>> /\ delivery' = [delivery EXCEPT ![c] = "none"]
    BY <1>14 DEF SendRateLimited
  <2>4. ASSUME NEW k \in K  PROVE EntryTrue(s[k])'
    <3>1. k \in DOMAIN s /\ s[k].cid # c
      BY <2>1
    <3>2. s[k].cid # NoCid => s[k].cid \in OwnCid /\ delivery[s[k].cid] # "none"
      BY <1>1, <3>1 DEF EntryTrue, Entry
    <3>3. s[k].cid # NoCid => delivery'[s[k].cid] # "none"
      BY <1>0, <2>3, <3>1, <3>2 DEF RoomTrue
    <3> QED
      BY <1>5, <2>3, <3>1, <3>3
  <2> QED
    BY <1>12, <2>1, <2>2, <2>4
<1>15. ASSUME NEW c \in OwnCid, Compose(c)
       PROVE  ListTrue(list)'
  <2>1. PICK e : e = [id |-> 0, cid |-> c, pending |-> TRUE, mark |-> FALSE]
    OBVIOUS
  <2>2. PICK t : t = Append(s, e)
    OBVIOUS
  <2>3. /\ list' = t /\ delivery[c] = "none" /\ delivery' = [delivery EXCEPT ![c] = "sending"]
        /\ \A i \in DOMAIN slots : slots[i] # c
        /\ UNCHANGED <<slots, cursor, erased>>
    BY <1>0, <1>1, <1>15, <2>1, <2>2, SlotsAre DEF Compose, Stored, shared, hist
  <2>4. e \in Entry /\ e.id = 0 /\ e.cid = c /\ e.pending /\ ~e.mark
    BY <1>0, <2>1, SlotsAre DEF Entry
  <2>5. delivery' \in [OwnCid -> {"none", "sending", "sent", "queued"}] /\ delivery'[c] = "sending"
        /\ \A d \in OwnCid : delivery[d] # "none" => delivery'[d] # "none"
    BY <1>0, <2>3 DEF RoomTrue
  <2>6. EntryTrue(e)'
    BY <2>3, <2>4, <2>5 DEF EntryTrue
  <2>7. ASSUME NEW k \in DOMAIN s
        PROVE  /\ EntryTrue(s[k])' /\ s[k].cid # c
               /\ Apart(s[k], e)' /\ Apart(e, s[k])'
    <3>1. s[k].cid # NoCid => s[k].cid \in OwnCid /\ delivery[s[k].cid] # "none"
      BY <1>1 DEF EntryTrue, Entry
    <3>2. EntryTrue(s[k])'
      BY <1>5, <2>3, <2>5, <3>1
    <3>3. s[k].cid # c
      BY <2>3, <3>1, RoomViewAssumption
    <3>4. s[k].id # 0 => slots'[s[k].id] # c
      BY <1>1, <2>3 DEF EntryTrue
    <3> QED
      BY <2>4, <3>2, <3>3, <3>4 DEF Apart
  <2>8. /\ t \in Seq(Entry)
        /\ DOMAIN t = DOMAIN s \cup {Len(s) + 1}
        /\ Len(s) + 1 \notin DOMAIN s
        /\ \A k \in DOMAIN s : t[k] = s[k]
        /\ t[Len(s) + 1] = e
    BY <2>2, <2>4, Longer
  <2>9. ASSUME NEW k \in DOMAIN t  PROVE EntryTrue(t[k])'
    BY <2>6, <2>7, <2>8
  <2>10. ASSUME NEW j \in DOMAIN t, NEW k \in DOMAIN t, j # k  PROVE Apart(t[j], t[k])'
    BY <1>2, <2>7, <2>8, <2>10
  <2>11. ListTrue(t)'
    BY <2>8, <2>9, <2>10 DEF ListTrue
  <2> QED
    BY <1>3, <2>3, <2>11
\* Nothing happens to the list.
<1>16. CASE LoadAnswered \/ LoadFails \/ OlderAsked \/ OlderAnswered \/ OlderFails
            \/ CatchStart \/ CatchPage \/ CatchFails \/ (CatchApplied /\ catch.rows = <<>>)
  <2>1. UNCHANGED <<list, cursor, delivery, erased>>
    BY <1>16 DEF LoadAnswered, LoadFails, OlderAsked, OlderAnswered, OlderFails, CatchStart, CatchPage,
       CatchFails, CatchApplied, hist
  <2> QED
    BY <1>6, <2>1
<1>17. CASE Others \/ UNCHANGED pageVars
  <2>1. UNCHANGED <<list, cursor, delivery, erased>>
    BY <1>17 DEF Others, Posted, Patch, Delete, Disconnect, Connect, hist, pageVars
  <2> QED
    BY <1>6, <2>1
<1>18. ASSUME NEW c \in OwnCid, SendSettled(c) \/ SendQueued(c)
       PROVE  ListTrue(list)'
  <2>1. /\ UNCHANGED <<list, cursor, erased>>
        /\ delivery' = delivery \/ delivery' = [delivery EXCEPT ![c] = "queued"]
    BY <1>18 DEF SendSettled, SendQueued, hist
  <2>2. \A d \in OwnCid : delivery[d] # "none" => delivery'[d] # "none"
    BY <1>0, <2>1 DEF RoomTrue
  <2> QED
    BY <1>6, <2>1, <2>2
<1> QED
  BY <1>7, <1>8, <1>9, <1>10, <1>11, <1>13, <1>14, <1>15, <1>16, <1>17, <1>18
     DEF NextRoom, Loads, CatchUp, Live, Sends

-----------------------------------------------------------------------------
\* What a page of answers holds is alive; a message removed and held nowhere is not held again.
LEMMA HeldBefore ==
  ASSUME RoomInv, [NextRoom]_pageVars, NEW i \in dead, ~HeldFor(i)
  PROVE  ~HeldFor(i)'
<1>1. RoomTrue /\ LoadTrue /\ OlderTrue /\ CatchTrue
  BY DEF RoomInv
<1>2. /\ i \in DOMAIN slots /\ i # Len(slots) + 1 /\ i \notin Alive
      /\ ~InFlight(i) /\ ~Has(load.rows, i) /\ ~Has(older.rows, i) /\ ~Has(catch.rows, i)
  BY <1>1, SlotsAre DEF RoomTrue, Alive, HeldFor
<1>3. ASSUME NEW b \in Nat  PROVE ~Has(History(b).rows, i)
  BY <1>1, <1>2, <1>3, HistoryOf DEF Has
<1>4. MaxSeq + 1 \in Nat /\ cursor.next \in Nat
  BY <1>1, SlotsAre DEF RoomTrue
<1>5. ~Has(<<>>, i)
  BY DEF Has
<1>6. ASSUME \A f \in coming' : f \in coming \/ f.kind # "new" \/ f.id = Len(slots) + 1
      PROVE  ~InFlight(i)'
  BY <1>2, <1>6 DEF InFlight
<1>7. ASSUME UNCHANGED <<load, older, catch>>,
             \A f \in coming' : f \in coming \/ f.kind # "new" \/ f.id = Len(slots) + 1
      PROVE  ~HeldFor(i)'
  BY <1>2, <1>6, <1>7 DEF HeldFor, Has
<1>8. ASSUME UNCHANGED coming,
             load'.rows = load.rows \/ ~Has(load'.rows, i),
             older'.rows = older.rows \/ ~Has(older'.rows, i),
             catch'.rows = catch.rows \/ ~Has(catch'.rows, i)
      PROVE  ~HeldFor(i)'
  BY <1>2, <1>6, <1>8 DEF HeldFor, Has
<1>9. CASE LoadAnswered
  <2>1. UNCHANGED <<coming, older, catch>> /\ load' = History(MaxSeq + 1)
    BY <1>9 DEF LoadAnswered
  <2> QED
    BY <1>3, <1>4, <1>8, <2>1
<1>10. CASE OlderAnswered
  <2>1. UNCHANGED <<coming, load, catch>> /\ older' = History(cursor.next)
    BY <1>10 DEF OlderAnswered
  <2> QED
    BY <1>3, <1>4, <1>8, <2>1
<1>11. CASE LoadApplied \/ LoadFails
  <2>1. UNCHANGED <<coming, older, catch>> /\ load'.rows = <<>>
    BY <1>11 DEF LoadApplied, LoadFails, NoAnswer
  <2> QED
    BY <1>5, <1>8, <2>1
<1>12. CASE OlderAsked \/ OlderApplied \/ OlderFails
  <2>1. UNCHANGED <<coming, load, catch>> /\ older'.rows = <<>>
    BY <1>12 DEF OlderAsked, OlderApplied, OlderFails, NoAnswer
  <2> QED
    BY <1>5, <1>8, <2>1
<1>13. CASE CatchStart \/ CatchApplied \/ CatchFails
  <2>1. UNCHANGED <<coming, load, older>> /\ catch'.rows = <<>>
    BY <1>13 DEF CatchStart, CatchApplied, CatchFails, NoCatch
  <2> QED
    BY <1>5, <1>8, <2>1
<1>14. CASE CatchPage
  <2>1. PICK P : P = Smallest({j \in Alive : j > catch.from}, SyncMax)
    OBVIOUS
  <2>2. UNCHANGED <<coming, load, older>> /\ catch'.rows = catch.rows \o RowsOf(P)
    BY <1>14, <2>1 DEF CatchPage
  <2>3. P \subseteq Alive /\ P \in SUBSET DOMAIN slots
    BY <2>1 DEF Smallest, Alive
  <2>4. RowsTrue(RowsOf(P)) /\ \A k \in DOMAIN RowsOf(P) : RowsOf(P)[k].id \in P
    BY <1>1, <2>3, RowsOfRoom
  <2>5. PICK r \in Seq(Entry), q \in Seq(Entry) : r = catch.rows /\ q = RowsOf(P)
    BY <1>1, <2>4 DEF CatchTrue, RowsTrue
  <2>6. /\ \A k \in DOMAIN r : k \in DOMAIN (r \o q) /\ (r \o q)[k] = r[k]
        /\ \A k \in DOMAIN q : Len(r) + k \in DOMAIN (r \o q) /\ (r \o q)[Len(r) + k] = q[k]
        /\ \A n \in DOMAIN (r \o q) : n \in DOMAIN r \/ \E k \in DOMAIN q : n = Len(r) + k
    BY Joined
  <2>7. ~Has(r, i) /\ ~Has(q, i)
    BY <1>2, <2>3, <2>4, <2>5 DEF Has
  <2>8. ~Has(r \o q, i)
    BY <2>6, <2>7 DEF Has
  <2> QED
    BY <1>8, <2>2, <2>5, <2>8
<1>15. CASE Live
  <2>1. UNCHANGED <<load, older, catch>> /\ coming' \subseteq coming
    BY <1>15 DEF Live, NewMessage, Patched, Deleted
  <2> QED
    BY <1>7, <2>1
<1>16. CASE Others
  <2>1. ASSUME NEW c \in OwnCid \cup {NoCid}, Posted(c)
        PROVE  ~HeldFor(i)'
    BY <1>7, <2>1 DEF Posted, Frames
  <2>2. ASSUME NEW j \in Id, NEW mine \in BOOLEAN, Patch(j, mine) \/ Delete(j, mine)
        PROVE  ~HeldFor(i)'
    BY <1>7, <2>2 DEF Patch, Delete, Frames
  <2>3. CASE Disconnect
    <3>1. UNCHANGED <<load, older, catch>> /\ coming' \subseteq coming
      BY <2>3 DEF Disconnect
    <3> QED
      BY <1>7, <3>1
  <2>4. CASE Connect
    <3>1. UNCHANGED <<coming, load, older>> /\ (catch'.rows = <<>> \/ catch' = catch)
      BY <2>4 DEF Connect, NoCatch
    <3> QED
      BY <1>5, <1>8, <3>1
  <2> QED
    BY <1>16, <2>1, <2>2, <2>3, <2>4 DEF Others
<1>17. CASE Sends
  <2>1. UNCHANGED <<coming, load, older, catch>>
    BY <1>17 DEF Sends, Compose, SendSettled, SendQueued, SendRateLimited
  <2> QED
    BY <1>8, <2>1
<1>18. CASE UNCHANGED pageVars
  <2>1. UNCHANGED <<coming, load, older, catch>>
    BY <1>18 DEF pageVars
  <2> QED
    BY <1>8, <2>1
<1> QED
  BY <1>9, <1>10, <1>11, <1>12, <1>13, <1>14, <1>15, <1>16, <1>17, <1>18 DEF NextRoom, Loads, CatchUp

\* What was removed and is held nowhere is held nowhere again.
LEMMA RemovedStep ==
  ASSUME RoomInv, [NextRoom]_pageVars
  PROVE  Removed'
<1>1. RoomTrue
  BY DEF RoomInv
<1>2. /\ \/ UNCHANGED <<erased, stale>>
         \/ \E f \in coming : Deleted(f)
  <2>1. CASE Loads
    BY <2>1 DEF Loads, LoadAnswered, LoadApplied, LoadFails, OlderAsked, OlderAnswered, OlderApplied,
       OlderFails, hist
  <2>2. CASE CatchUp
    BY <2>2 DEF CatchUp, CatchStart, CatchPage, CatchApplied, CatchFails, hist
  <2>3. CASE Live
    BY <2>3 DEF Live, NewMessage, Patched, hist
  <2>4. CASE Others
    BY <2>4 DEF Others, Posted, Patch, Delete, Disconnect, Connect, hist
  <2>5. CASE Sends
    BY <2>5 DEF Sends, Compose, SendSettled, SendQueued, SendRateLimited, hist
  <2>6. CASE UNCHANGED pageVars
    BY <2>6 DEF pageVars, hist
  <2> QED
    BY <2>1, <2>2, <2>3, <2>4, <2>5, <2>6 DEF NextRoom
<1>3. ASSUME NEW i \in erased' \ stale'
      PROVE  i \in dead /\ ~HeldFor(i)
  <2>1. CASE UNCHANGED <<erased, stale>>
    BY <1>1, <1>3, <2>1 DEF RoomInv, RoomTrue, Removed
  <2>2. ASSUME NEW f \in coming, Deleted(f)
        PROVE  i \in dead /\ ~HeldFor(i)
    <3>1. /\ f.kind = "delete" /\ f.id \in dead
          /\ erased' = erased \cup {f.id}
          /\ stale' = IF HeldFor(f.id) THEN stale \cup {f.id} ELSE stale
      BY <1>1, <2>2 DEF Deleted, RoomTrue
    <3>2. CASE i = f.id
      BY <1>3, <3>1, <3>2
    <3>3. CASE i \in erased
      BY <1>1, <1>3, <3>1, <3>3 DEF RoomInv, RoomTrue, Removed
    <3> QED
      BY <1>3, <3>1, <3>2, <3>3
  <2> QED
    BY <1>2, <2>1, <2>2
<1> QED
  BY <1>3, HeldBefore DEF Removed

-----------------------------------------------------------------------------
\* What is kept of a list, and what a row at its end adds.
LEMMA KeptHas ==
  ASSUME NEW s \in Seq(Entry), NEW K \in SUBSET DOMAIN s, NEW k \in K
  PROVE  Has(Kept(s, K), s[k].id)
<1>1. PICK t : t = Kept(s, K)
  OBVIOUS
<1>2. PICK a \in [DOMAIN t -> K] :
        /\ \A n \in DOMAIN t : t[n] = s[a[n]]
        /\ \A j \in K : \E n \in DOMAIN t : a[n] = j
  BY <1>1, KeptLists
<1>3. PICK n \in DOMAIN t : a[n] = k
  BY <1>2
<1>4. t[n].id = s[k].id
  BY <1>2, <1>3
<1> QED
  BY <1>1, <1>4 DEF Has

\* Below the watermark nothing gets lost: each step that passes a message over says so.
LEMMA CoveredStep ==
  ASSUME RoomInv, [NextRoom]_pageVars, RoomGrown
  PROVE  Covered'
<1>0. RoomTrue /\ LoadTrue /\ OlderTrue /\ CatchTrue /\ ListTrue(list) /\ Covered
  BY DEF RoomInv
<1>1. /\ Len(slots) \in Nat /\ DOMAIN slots = 1..Len(slots) /\ seen \in 0..Len(slots)
      /\ cursor.next \in 0..Len(slots) /\ skipped \subseteq skipped'
      /\ load.at # "done" => cursor.next = 0
  BY <1>0, SlotsAre DEF RoomTrue, LoadTrue, RoomGrown
<1>2. PICK s \in Seq(Entry) : s = list
  BY <1>0 DEF ListTrue
<1>3. ASSUME NEW i, i \in Alive', i <= seen
      PROVE  i \in Alive
  BY <1>0, <1>1, <1>3, AliveBefore
<1>4. \A i \in Alive : i \in DOMAIN slots /\ i \in Nat \ {0}
  BY <1>1 DEF Alive
<1>5. ASSUME NEW i \in Alive, i <= seen, load.at = "done" => cursor.next <= i
      PROVE  Has(s, i) \/ InFlight(i) \/ i \in skipped'
  BY <1>0, <1>1, <1>2, <1>5 DEF Covered
\* Watermark and cursor stay.
<1>6. ASSUME UNCHANGED <<seen, cursor>>,
             load'.at = "done" => load.at = "done" \/ cursor.next = 0,
             \A i \in Alive : Has(s, i) => Has(list, i)' \/ i \in skipped',
             \A i \in Alive : i <= seen /\ InFlight(i) => InFlight(i)' \/ i \in skipped'
      PROVE  Covered'
  <2>1. ASSUME NEW i, i \in Alive', i <= seen, load'.at = "done" => cursor.next <= i
        PROVE  Has(list, i)' \/ InFlight(i)' \/ i \in skipped'
    <3>1. i \in Alive
      BY <1>3, <2>1
    <3>2. load.at = "done" => cursor.next <= i
      <4>1. CASE load'.at = "done"
        BY <2>1, <4>1
      <4>2. CASE load'.at # "done" /\ load.at = "done"
        <5>1. FALSE
          <6>1. load' = load \/ load'.at = "done"
            BY <4>2 DEF NextRoom, Loads, LoadAnswered, LoadApplied, LoadFails, OlderAsked,
               OlderAnswered, OlderApplied, OlderFails, CatchUp, CatchStart, CatchPage, CatchApplied,
               CatchFails, Live, NewMessage, Patched, Deleted, Others, Posted, Patch, Delete,
               Disconnect, Connect, Sends, Compose, SendSettled, SendQueued, SendRateLimited,
               pageVars, NoAnswer
          <6> QED
            BY <4>2, <6>1
        <5> QED
          BY <5>1
      <4> QED
        BY <4>1, <4>2
    <3>3. Has(s, i) \/ InFlight(i) \/ i \in skipped'
      BY <1>5, <2>1, <3>1, <3>2
    <3> QED
      BY <1>6, <2>1, <3>1, <3>3
  <2>2. UNCHANGED seen /\ UNCHANGED cursor
    BY <1>6
  <2> QED
    BY <2>1, <2>2 DEF Covered
\* The list stays as well.
<1>7. ASSUME UNCHANGED <<list, seen, cursor>>,
             load'.at = "done" => load.at = "done" \/ cursor.next = 0,
             \A f \in coming : f.kind = "new" => f \in coming' \/ f.id \in skipped' \/ f.id > seen
      PROVE  Covered'
  <2>1. ASSUME NEW i \in Alive, i <= seen, InFlight(i)
        PROVE  InFlight(i)' \/ i \in skipped'
    <3>1. PICK f \in coming : f.kind = "new" /\ f.id = i
      BY <2>1 DEF InFlight
    <3>2. ~(i > seen)
      BY <1>1, <1>4, <2>1
    <3>3. f \in coming' \/ i \in skipped'
      BY <1>7, <3>1, <3>2
    <3> QED
      BY <3>1, <3>3 DEF InFlight
  <2>2. \A i \in Alive : Has(s, i) => Has(list, i)'
    BY <1>2, <1>7 DEF Has
  <2> QED
    BY <1>6, <1>7, <2>1, <2>2
<1>8. CASE LoadAnswered \/ LoadFails \/ OlderAsked \/ OlderAnswered \/ OlderFails
           \/ CatchStart \/ CatchPage \/ CatchFails \/ Connect \/ Sends \/ UNCHANGED pageVars
  <2>1. CASE LoadAnswered \/ LoadFails \/ OlderAsked \/ OlderAnswered \/ OlderFails
             \/ CatchStart \/ CatchPage \/ CatchFails \/ Connect \/ UNCHANGED pageVars
    <3>1. UNCHANGED <<list, seen, cursor, coming>> /\ (load' = load \/ load.at # "done")
      BY <2>1 DEF LoadAnswered, LoadFails, OlderAsked, OlderAnswered, OlderFails, CatchStart,
         CatchPage, CatchFails, Connect, pageVars
    <3> QED
      BY <1>1, <1>7, <3>1
  <2>2. ASSUME NEW c \in OwnCid, SendSettled(c) \/ SendQueued(c)
        PROVE  Covered'
    <3>1. UNCHANGED <<list, seen, cursor, coming, load>>
      BY <2>2 DEF SendSettled, SendQueued
    <3> QED
      BY <1>7, <3>1
  <2>3. ASSUME NEW c \in OwnCid, Compose(c)
        PROVE  Covered'
    <3>1. PICK e : e = [id |-> 0, cid |-> c, pending |-> TRUE, mark |-> FALSE]
      OBVIOUS
    <3>2. PICK t : t = Append(s, e)
      OBVIOUS
    <3>3. list' = t /\ UNCHANGED <<seen, cursor, coming, load>>
      BY <1>2, <2>3, <3>1, <3>2 DEF Compose
    <3>4. e \in Entry
      BY <1>0, <3>1, SlotsAre DEF Entry
    <3>5. \A k \in DOMAIN s : k \in DOMAIN t /\ t[k] = s[k]
      BY <3>2, <3>4, Longer
    <3>6. \A i \in Alive : Has(s, i) => Has(list, i)'
      BY <3>3, <3>5 DEF Has
    <3>7. \A i : InFlight(i) => InFlight(i)'
      BY <3>3 DEF InFlight
    <3> QED
      BY <1>6, <3>3, <3>6, <3>7
  <2>4. ASSUME NEW c \in OwnCid, SendRateLimited(c)
        PROVE  Covered'
    <3>1. PICK K : K = {k \in DOMAIN s : s[k].cid # c}
      OBVIOUS
    <3>2. PICK t : t = Kept(s, K)
      OBVIOUS
    <3>3. list' = t /\ UNCHANGED <<seen, cursor, coming, load>>
      BY <1>2, <2>4, <3>1, <3>2 DEF SendRateLimited
    <3>4. skipped' = skipped \cup ({s[k].id : k \in {j \in DOMAIN s : s[j].cid = c}} \ {0})
      BY <1>2, <2>4 DEF SendRateLimited
    <3>5. ASSUME NEW i \in Alive, Has(s, i)
          PROVE  Has(t, i) \/ i \in skipped'
      <4>1. PICK k \in DOMAIN s : s[k].id = i
        BY <3>5 DEF Has
      <4>2. CASE s[k].cid = c
        BY <1>4, <3>4, <4>1, <4>2
      <4>3. CASE s[k].cid # c
        <5>1. k \in K /\ K \in SUBSET DOMAIN s
          BY <3>1, <4>3
        <5> QED
          BY <3>2, <4>1, <5>1, KeptHas
      <4> QED
        BY <4>2, <4>3
    <3>6. \A i \in Alive : Has(s, i) => Has(list, i)' \/ i \in skipped'
      BY <3>3, <3>5 DEF Has
    <3>7. \A i : InFlight(i) => InFlight(i)'
      BY <3>3 DEF InFlight
    <3> QED
      BY <1>6, <3>3, <3>6, <3>7
  <2> QED
    BY <1>8, <2>1, <2>2, <2>3, <2>4 DEF Sends
<1>9. CASE Others
  <2>1. ASSUME NEW c \in OwnCid \cup {NoCid}, Posted(c)
        PROVE  Covered'
    <3>1. UNCHANGED <<list, seen, cursor, load>> /\ coming \subseteq coming'
      BY <2>1 DEF Posted
    <3> QED
      BY <1>7, <3>1
  <2>2. ASSUME NEW j \in Id, NEW mine \in BOOLEAN, Patch(j, mine) \/ Delete(j, mine)
        PROVE  Covered'
    <3>1. UNCHANGED <<list, seen, cursor, load>> /\ coming \subseteq coming'
      BY <2>2 DEF Patch, Delete
    <3> QED
      BY <1>7, <3>1
  <2>3. CASE Disconnect
    <3>1. UNCHANGED <<list, seen, cursor, load>>
      BY <2>3 DEF Disconnect
    <3>2. \A f \in coming : f.kind = "new" => f.id \in skipped' \/ f.id > seen
      <4>1. \A f \in coming : f.id \in DOMAIN slots
        BY <1>0 DEF RoomTrue
      <4>2. skipped' = skipped \cup {i \in 1..seen : \E f \in coming : f.kind = "new" /\ f.id = i}
        BY <2>3 DEF Disconnect
      <4> QED
        BY <1>1, <4>1, <4>2
    <3> QED
      BY <1>7, <3>1, <3>2
  <2> QED
    BY <1>8, <1>9, <2>1, <2>2, <2>3 DEF Others
\* Replies and frames.
<1>10. CASE LoadApplied
  <2>1. PICK n : n = Newest(load.rows)
    OBVIOUS
  <2>2. n \in Nat
    BY <1>0, <1>1, <2>1, NewestOf DEF LoadTrue
  <2>3. /\ list' = load.rows /\ seen' = Max({seen, n}) /\ cursor'.next = load.next
        /\ skipped' = skipped \cup {i \in (n + 1)..seen : Has(s, i)}
        /\ load.at = "answered" /\ UNCHANGED coming
    BY <1>2, <1>10, <2>1 DEF LoadApplied
  <2>4. Max({seen, n}) = IF seen >= n THEN seen ELSE n
    BY <1>1, <2>2, LaterOf
  <2>5. ASSUME NEW i, i \in Alive', i <= seen', load.next <= i
        PROVE  Has(load.rows, i) \/ InFlight(i) \/ i \in skipped'
    <3>1. n <= Len(slots)
      BY <1>0, <1>1, <2>1, NewestOf DEF LoadTrue
    <3>2. seen' <= Len(slots)
      BY <1>1, <2>2, <2>3, <2>4, <3>1
    <3>3. i \in Alive
      BY <1>0, <1>1, <2>2, <2>3, <2>4, <2>5, <3>2, AliveBefore
    <3>4. CASE i <= n
      BY <1>0, <2>1, <2>3, <2>5, <3>3, <3>4 DEF LoadTrue
    <3>5. CASE ~(i <= n)
      <4>1. i <= seen /\ i \in (n + 1)..seen
        BY <1>1, <1>4, <2>2, <2>3, <2>4, <2>5, <3>3, <3>5
      <4> QED
        BY <1>5, <2>3, <3>3, <4>1
    <3> QED
      BY <3>4, <3>5
  <2>6. \A i : Has(list, i)' = Has(load.rows, i) /\ InFlight(i)' = InFlight(i)
    BY <2>3 DEF Has, InFlight
  <2>7. load'.at = "done"
    BY <1>10 DEF LoadApplied, NoAnswer
  <2> QED
    BY <2>3, <2>5, <2>6, <2>7 DEF Covered
<1>11. CASE OlderApplied
  <2>1. PICK r \in Seq(Entry) : r = older.rows
    BY <1>0 DEF OlderTrue, Replies
  <2>2. /\ list' = r \o s /\ cursor'.next = older.next /\ older.at = "answered"
        /\ UNCHANGED <<seen, coming, load>>
    BY <1>2, <1>11, <2>1 DEF OlderApplied
  <2>3. PICK t : t = r \o s
    OBVIOUS
  <2>4. /\ \A k \in DOMAIN r : k \in DOMAIN t /\ t[k] = r[k]
        /\ \A k \in DOMAIN s : Len(r) + k \in DOMAIN t /\ t[Len(r) + k] = s[k]
    BY <2>3, Joined
  <2>5. load.at = "done"
    BY <1>0, <2>2 DEF LoadTrue
  <2>6. older.next <= cursor.next /\ older.next \in Nat
        /\ \A i \in Alive : older.next <= i /\ i < cursor.next => Has(r, i)
    BY <1>0, <2>1, <2>2 DEF OlderTrue, Replies
  <2>7. ASSUME NEW i, i \in Alive', i <= seen, older.next <= i
        PROVE  Has(t, i) \/ InFlight(i) \/ i \in skipped'
    <3>1. i \in Alive /\ i \in Nat
      BY <1>3, <1>4, <2>7
    <3>2. CASE i < cursor.next
      <4>1. PICK k \in DOMAIN r : r[k].id = i
        BY <2>6, <2>7, <3>1, <3>2 DEF Has
      <4>2. k \in DOMAIN t /\ t[k].id = i
        BY <2>4, <4>1
      <4> QED
        BY <4>2 DEF Has
    <3>3. CASE ~(i < cursor.next)
      <4>1. Has(s, i) \/ InFlight(i) \/ i \in skipped'
        BY <1>1, <1>5, <2>7, <3>1, <3>3
      <4>2. ASSUME Has(s, i)  PROVE Has(t, i)
        <5>1. PICK k \in DOMAIN s : s[k].id = i
          BY <4>2 DEF Has
        <5>2. Len(r) + k \in DOMAIN t /\ t[Len(r) + k].id = i
          BY <2>4, <5>1
        <5> QED
          BY <5>2 DEF Has
      <4> QED
        BY <4>1, <4>2
    <3> QED
      BY <3>2, <3>3
  <2>8. \A i : Has(list, i)' = Has(t, i) /\ InFlight(i)' = InFlight(i)
    BY <2>2, <2>3 DEF Has, InFlight
  <2> QED
    BY <2>2, <2>5, <2>7, <2>8 DEF Covered
<1>12. CASE CatchApplied
  <2>1. UNCHANGED <<cursor, coming, load>> /\ catch.at = "answered"
    BY <1>12 DEF CatchApplied
  <2>2. CASE catch.rows = <<>>
    <3>1. UNCHANGED <<list, seen>>
      BY <1>12, <2>2 DEF CatchApplied
    <3> QED
      BY <1>7, <2>1, <3>1
  <2>3. CASE catch.rows # <<>>
    <3>1. PICK high \in 0..Len(slots), from \in 0..Len(slots) : high = catch.high /\ from = catch.from
      BY <1>0 DEF CatchTrue
    <3>2. /\ seen' = Max({seen, high})
          /\ skipped' = skipped \cup {i \in (from + 1)..high : ~Has(s, i)}
      BY <1>2, <1>12, <2>3, <3>1 DEF CatchApplied
    <3>3. Max({seen, high}) = IF seen >= high THEN seen ELSE high
      BY <1>1, <3>1, LaterOf
    <3>4. PICK p \in Seq(Entry) :
            /\ \A k \in DOMAIN list : k \in DOMAIN p /\ p[k] = list[k]
            /\ \A n \in DOMAIN p \ DOMAIN list :
                 ~Has(list, p[n].id) /\ \E k \in DOMAIN catch.rows : p[n] = catch.rows[k]
            /\ \A m, n \in DOMAIN p \ DOMAIN list : p[m].id = p[n].id => m = n
            /\ \A k \in DOMAIN catch.rows :
                 Has(list, catch.rows[k].id) \/ \E n \in DOMAIN p \ DOMAIN list : p[n] = catch.rows[k]
            /\ \A n \in DOMAIN p \ DOMAIN list :
                 /\ slots[p[n].id] # NoCid => p[n].id \in synced'
                 /\ Behind(p[n].id) => p[n].id \in late'
            /\ list' \in Seq(Entry)
            /\ \E a \in [DOMAIN list' -> DOMAIN p] :
                 /\ \A n \in DOMAIN list' : list'[n] = p[a[n]]
                 /\ \A m, n \in DOMAIN list' : a[m] = a[n] => m = n
                 /\ \A k \in DOMAIN p : \E n \in DOMAIN list' : a[n] = k
      BY <1>12, <2>3, CaughtUpList
    <3>5. PICK t : t = list'
      OBVIOUS
    <3>6. \A k \in DOMAIN p : \E n \in DOMAIN t : t[n] = p[k]
      BY <3>4, <3>5
    <3>7. ASSUME NEW i, Has(s, i) \/ Has(catch.rows, i)
          PROVE  Has(t, i)
      <4>1. CASE Has(s, i)
        <5>1. PICK k \in DOMAIN s : s[k].id = i
          BY <4>1 DEF Has
        <5>2. k \in DOMAIN p /\ p[k].id = i
          BY <1>2, <3>4, <5>1
        <5> QED
          BY <3>6, <5>2 DEF Has
      <4>2. CASE ~Has(s, i)
        <5>1. PICK k \in DOMAIN catch.rows : catch.rows[k].id = i
          BY <3>7, <4>2 DEF Has
        <5>2. PICK n \in DOMAIN p : p[n] = catch.rows[k]
          BY <1>2, <3>4, <4>2, <5>1
        <5> QED
          BY <3>6, <5>1, <5>2 DEF Has
      <4> QED
        BY <4>1, <4>2
    <3>8. ASSUME NEW i, i \in Alive', i <= seen', load.at = "done" => cursor.next <= i
          PROVE  Has(t, i) \/ InFlight(i) \/ i \in skipped'
      <4>1. i \in Alive
        BY <1>0, <1>1, <3>1, <3>2, <3>3, <3>8, AliveBefore
      <4>2. CASE i <= seen
        BY <1>5, <3>7, <3>8, <4>1, <4>2
      <4>3. CASE ~(i <= seen) /\ i <= from
        <5>1. Has(catch.rows, i)
          BY <1>0, <1>1, <1>4, <2>1, <3>1, <4>1, <4>3 DEF CatchTrue
        <5> QED
          BY <3>7, <5>1
      <4>4. CASE ~(i <= seen) /\ ~(i <= from)
        <5>1. i \in (from + 1)..high
          BY <1>1, <1>4, <3>1, <3>2, <3>3, <3>8, <4>1, <4>4
        <5> QED
          BY <3>2, <3>7, <5>1
      <4> QED
        BY <4>2, <4>3, <4>4
    <3>9. \A i : Has(list, i)' = Has(t, i) /\ InFlight(i)' = InFlight(i)
      BY <2>1, <3>5 DEF Has, InFlight
    <3> QED
      BY <2>1, <3>8, <3>9 DEF Covered
  <2> QED
    BY <2>2, <2>3
<1>13. ASSUME NEW f \in coming, NewMessage(f)
       PROVE  Covered'
  <2>1. PICK e : e = [id |-> f.id, cid |-> slots[f.id], pending |-> FALSE, mark |-> FALSE]
    OBVIOUS
  <2>2. PICK t : t = Merged(e)
    OBVIOUS
  <2>3. /\ list' = t /\ seen' = Max({seen, f.id}) /\ coming' = coming \ {f} /\ f.kind = "new"
        /\ skipped' = skipped \cup {j \in Alive : seen < j /\ j < f.id /\ ~InFlight(j)}
        /\ UNCHANGED <<load, cursor>>
    BY <1>13, <2>1, <2>2 DEF NewMessage
  <2>4. f.id \in DOMAIN slots /\ f.id \in Nat \ {0}
    BY <1>0, <1>1 DEF RoomTrue
  <2>5. Max({seen, f.id}) = IF seen >= f.id THEN seen ELSE f.id
    BY <1>1, <2>4, LaterOf
  <2>6. e \in Entry /\ e.id = f.id /\ e.cid = slots[e.id]
    <3>1. slots[f.id] \in OwnCid \cup {NoCid} /\ f.id \in 0..MaxSeq
      BY <1>0, <2>4, SlotsAre DEF RoomTrue
    <3> QED
      BY <2>1, <3>1 DEF Entry
  <2>7. \A i \in Nat \ {0} : Has(s, i) \/ i = f.id => Has(t, i)
    <3>1. CASE Has(list, f.id)
      BY <1>2, <2>2, <2>6, <3>1 DEF Merged
    <3>2. CASE ~Has(list, f.id)
      <4>1. \/ t = Append(s, e)
            \/ \E j \in DOMAIN s : s[j].id = 0 /\ t = [s EXCEPT ![j] = e]
        BY <1>2, <2>2, <2>4, <2>6, <3>2, MergedList
      <4>2. CASE t = Append(s, e)
        <5>1. /\ \A k \in DOMAIN s : k \in DOMAIN t /\ t[k] = s[k]
              /\ Len(s) + 1 \in DOMAIN t /\ t[Len(s) + 1] = e
          BY <2>6, <4>2, Longer
        <5> QED
          BY <2>6, <5>1 DEF Has
      <4>3. ASSUME NEW j \in DOMAIN s, s[j].id = 0, t = [s EXCEPT ![j] = e]
            PROVE  \A i \in Nat \ {0} : Has(s, i) \/ i = f.id => Has(t, i)
        <5>1. /\ DOMAIN t = DOMAIN s
              /\ \A k \in DOMAIN s : t[k] = IF k = j THEN e ELSE s[k]
          BY <2>6, <4>3, Replaced
        <5> QED
          BY <2>6, <4>3, <5>1 DEF Has
      <4> QED
        BY <4>1, <4>2, <4>3
    <3> QED
      BY <3>1, <3>2
  <2>8. ASSUME NEW i, i \in Alive', i <= seen', load.at = "done" => cursor.next <= i
        PROVE  Has(t, i) \/ InFlight(i)' \/ i \in skipped'
    <3>1. i \in Alive /\ i \in Nat \ {0}
      BY <1>0, <1>1, <1>4, <2>3, <2>4, <2>5, <2>8, AliveBefore
    <3>2. CASE i = f.id
      BY <2>7, <3>1, <3>2
    <3>3. ASSUME i # f.id, InFlight(i)  PROVE InFlight(i)'
      <4>1. PICK g \in coming : g.kind = "new" /\ g.id = i
        BY <3>3 DEF InFlight
      <4>2. g \in coming'
        BY <2>3, <3>3, <4>1
      <4> QED
        BY <4>1, <4>2 DEF InFlight
    <3>4. CASE i # f.id /\ i <= seen
      BY <1>5, <2>7, <2>8, <3>1, <3>3, <3>4
    <3>5. CASE i # f.id /\ ~(i <= seen)
      <4>1. seen < i /\ i < f.id
        BY <1>1, <2>3, <2>4, <2>5, <2>8, <3>1, <3>5
      <4> QED
        BY <2>3, <3>1, <3>3, <3>5, <4>1
    <3> QED
      BY <3>2, <3>4, <3>5
  <2>9. \A i : Has(list, i)' = Has(t, i)
    BY <2>3 DEF Has
  <2> QED
    BY <2>3, <2>8, <2>9 DEF Covered
<1>14. ASSUME NEW f \in coming, f.kind # "new", coming' = coming \ {f}
       PROVE  \A i : InFlight(i) => InFlight(i)'
  <2>1. ASSUME NEW i, InFlight(i)  PROVE InFlight(i)'
    <3>1. PICK g \in coming : g.kind = "new" /\ g.id = i
      BY <2>1 DEF InFlight
    <3>2. g \in coming'
      BY <1>14, <3>1
    <3> QED
      BY <3>1, <3>2 DEF InFlight
  <2> QED
    BY <2>1
<1>15. ASSUME NEW f \in coming, Patched(f)
       PROVE  Covered'
  <2>1. PICK t : t = [k \in DOMAIN s |-> IF s[k].id = f.id THEN [s[k] EXCEPT !.mark = TRUE] ELSE s[k]]
    OBVIOUS
  <2>2. /\ list' = t /\ UNCHANGED <<seen, cursor, load>>
        /\ f.kind # "new" /\ coming' = coming \ {f}
    BY <1>2, <1>15, <2>1 DEF Patched
  <2>3. ASSUME NEW k \in DOMAIN s  PROVE t[k].id = s[k].id
    <3>1. s[k] \in Entry
      OBVIOUS
    <3>2. s[k] = [id |-> s[k].id, cid |-> s[k].cid, pending |-> s[k].pending, mark |-> s[k].mark]
      BY <3>1 DEF Entry
    <3>3. [s[k] EXCEPT !.mark = TRUE].id = s[k].id
      BY <3>2
    <3> QED
      BY <2>1, <3>3
  <2>4. DOMAIN t = DOMAIN s
    BY <2>1
  <2>5. \A i : Has(s, i) => Has(t, i)
    BY <2>3, <2>4 DEF Has
  <2>6. \A i \in Alive : Has(s, i) => Has(list, i)'
    BY <2>2, <2>5 DEF Has
  <2> QED
    BY <1>6, <1>14, <2>2, <2>6
<1>16. ASSUME NEW f \in coming, Deleted(f)
       PROVE  Covered'
  <2>1. PICK K : K = {k \in DOMAIN s : s[k].id # f.id}
    OBVIOUS
  <2>2. PICK t : t = Kept(s, K)
    OBVIOUS
  <2>3. /\ list' = t /\ UNCHANGED <<seen, cursor, load>>
        /\ f.kind = "delete" /\ coming' = coming \ {f}
    BY <1>2, <1>16, <2>1, <2>2 DEF Deleted, Without
  <2>4. f.id \in dead
    BY <1>0, <2>3 DEF RoomTrue
  <2>5. ASSUME NEW i \in Alive, Has(s, i)  PROVE Has(t, i)
    <3>1. PICK k \in DOMAIN s : s[k].id = i
      BY <2>5 DEF Has
    <3>2. k \in K /\ K \in SUBSET DOMAIN s
      BY <2>1, <2>4, <3>1 DEF Alive
    <3> QED
      BY <2>2, <3>1, <3>2, KeptHas
  <2>6. \A i \in Alive : Has(s, i) => Has(list, i)'
    BY <2>3, <2>5 DEF Has
  <2>7. f.kind # "new"
    BY <2>3
  <2> QED
    BY <1>6, <1>14, <2>3, <2>6, <2>7
<1> QED
  BY <1>8, <1>9, <1>10, <1>11, <1>12, <1>13, <1>15, <1>16 DEF NextRoom, Loads, CatchUp, Live

-----------------------------------------------------------------------------
\* A page that has just mounted satisfies the invariant,
LEMMA RoomInvInit == ASSUME InitRoom PROVE RoomInv
<1>1. /\ slots \in Seq(OwnCid \cup {NoCid}) /\ Len(slots) \in 0..1 /\ DOMAIN slots = 1..Len(slots)
      /\ \A i \in DOMAIN slots : slots[i] = NoCid
  <2>1. slots = <<>> \/ slots = <<NoCid>>
    BY DEF InitRoom
  <2>2. CASE slots = <<>>
    BY <2>2
  <2>3. CASE slots = <<NoCid>>
    <3>1. PICK c \in OwnCid \cup {NoCid} : c = NoCid
      OBVIOUS
    <3>2. slots = <<c>>
      BY <2>3, <3>1
    <3>3. slots \in Seq(OwnCid \cup {NoCid}) /\ Len(slots) = 1 /\ slots[1] = c
      BY <3>2
    <3> QED
      BY <3>1, <3>3
  <2> QED
    BY <2>1, <2>2, <2>3
<1>2. /\ dead = {} /\ patched = {} /\ online \in BOOLEAN /\ coming = {} /\ list = <<>> /\ seen = 0
      /\ cursor = [next |-> 0, more |-> FALSE] /\ sending = {} /\ delivery = [c \in OwnCid |-> "none"]
      /\ erased = {} /\ stale = {} /\ synced = {} /\ late = {} /\ skipped = {}
  BY DEF InitRoom
<1>3. <<>> \in Seq(Entry) /\ RowsTrue(<<>>) /\ \A i : ~Has(<<>>, i)
  BY DEF RowsTrue, Has
<1>4. RoomTrue
  <2>1. Len(slots) <= MaxSeq /\ 0 \in 0..Len(slots)
    BY <1>1, RoomViewAssumption
  <2>2. cursor \in [next : 0..Len(slots), more : BOOLEAN]
    BY <1>2, <2>1
  <2>3. delivery \in [OwnCid -> {"none", "sending", "sent", "queued"}]
    BY <1>2
  <2> QED
    BY <1>1, <1>2, <2>1, <2>2, <2>3 DEF RoomTrue
<1>5. /\ load = [at |-> "asked", rows |-> <<>>, next |-> 0, more |-> FALSE]
      /\ older = [at |-> "off", rows |-> <<>>, next |-> 0, more |-> FALSE]
      /\ catch = [at |-> "off", from |-> 0, rows |-> <<>>, high |-> 0, left |-> 0]
  BY DEF InitRoom, NoAnswer, NoCatch
<1>6. load \in Replies /\ older \in Replies
  BY <1>3, <1>5 DEF Replies, Ats
<1>7. LoadTrue
  BY <1>1, <1>2, <1>3, <1>5, <1>6 DEF LoadTrue
<1>8. OlderTrue
  BY <1>1, <1>3, <1>5, <1>6 DEF OlderTrue
<1>9. CatchTrue
  <2>1. catch \in [at : {"off", "due", "paging", "answered"}, from : 0..Len(slots),
                   rows : Seq(Entry), high : 0..Len(slots), left : Nat]
    BY <1>1, <1>3, <1>5
  <2> QED
    BY <1>3, <1>5, <2>1 DEF CatchTrue
<1>10. ListTrue(list)
  BY <1>2, <1>3 DEF ListTrue
<1>11. Removed
  BY <1>2 DEF Removed
<1>12. Covered
  BY <1>1, <1>2 DEF Covered, Alive
<1> QED
  BY <1>4, <1>7, <1>8, <1>9, <1>10, <1>11, <1>12 DEF RoomInv

\* each step keeps it,
LEMMA RoomInvStep == ASSUME RoomInv, [NextRoom]_pageVars PROVE RoomInv'
<1>1. RoomTrue
  BY DEF RoomInv
<1>2. RoomGrown
  BY <1>1, RoomGrows
<1>3. RoomTrue'
  BY <1>2, RoomStep
<1> QED
  BY <1>2, <1>3, LoadStep, OlderStep, CatchStep, ListStep, RemovedStep, CoveredStep DEF RoomInv

\* and so it always holds.
LEMMA RoomInvAlways == RoomViewSpec => []RoomInv
<1>1. InitRoom => RoomInv
  BY RoomInvInit
<1>2. RoomInv /\ [NextRoom]_pageVars => RoomInv'
  BY RoomInvStep
<1> QED
  BY <1>1, <1>2, PTL DEF RoomViewSpec

\* However the answers of loads, older pages and syncs, the live frames and the page's own
\* sends overlap, ChatroomPage lists a message once and an own one without its bubble, but
\* for the two exceptions the property names.
THEOREM RoomListSoundAlways == RoomViewSpec => []ListSound
<1>1. RoomInv => ListSound
  BY RoomInvEnough
<1> QED
  BY <1>1, RoomInvAlways, PTL

\* What handleDeleted has taken off the list comes back only with an answer or a frame that
\* was on its way at that moment.
THEOREM RemovedStaysRemovedAlways == RoomViewSpec => []RemovedStaysRemoved
<1>1. RoomInv => RemovedStaysRemoved
  BY RoomInvEnough
<1> QED
  BY <1>1, RoomInvAlways, PTL

\* Between the cursor and latestSeqRef the page lacks no message, but for the ways of passing
\* one over that the property names; that is all a catch-up from the watermark relies on.
THEOREM NoGapBelowAlways == RoomViewSpec => []NoGapBelow
<1>1. RoomInv => NoGapBelow
  BY RoomInvEnough
<1> QED
  BY <1>1, RoomInvAlways, PTL

-----------------------------------------------------------------------------
\* What a step of the list does to the entries that show a change.
Stick ==
  \A k \in DOMAIN list :
    list[k].mark /\ list[k].id \notin late =>
      \A j \in DOMAIN list' : list'[j].id = list[k].id => list'[j].mark

\* Of all steps only loadInitial's may undo what a listed message shows.
LEMMA StickStep ==
  ASSUME RoomInv, [NextRoom]_pageVars
  PROVE  LoadApplied \/ Stick
<1>0. RoomTrue /\ OlderTrue /\ ListTrue(list)
  BY DEF RoomInv
<1>1. PICK s \in Seq(Entry) :
        /\ s = list
        /\ \A k \in DOMAIN s : EntryTrue(s[k])
        /\ \A j, k \in DOMAIN s : j # k => Apart(s[j], s[k])
  BY <1>0 DEF ListTrue
\* An entry is of another message, or was there before and keeps its mark.
<1>2. ASSUME NEW t, list' = t,
             \A j \in DOMAIN t :
               \/ t[j].id = 0
               \/ \E m \in DOMAIN s : s[m].id = t[j].id /\ (s[m].mark => t[j].mark)
               \/ \A k \in DOMAIN s : s[k].id # t[j].id \/ s[k].id \in late
      PROVE  Stick
  <2>1. ASSUME NEW k \in DOMAIN s, s[k].mark, s[k].id \notin late, NEW j \in DOMAIN t, t[j].id = s[k].id
        PROVE  t[j].mark
    <3>1. s[k].id # 0
      BY <1>1, <2>1 DEF EntryTrue
    <3>2. PICK m \in DOMAIN s : s[m].id = t[j].id /\ (s[m].mark => t[j].mark)
      BY <1>2, <2>1, <3>1
    <3>3. m = k
      BY <1>1, <2>1, <3>1, <3>2 DEF Apart
    <3> QED
      BY <2>1, <3>2, <3>3
  <2> QED
    BY <1>1, <1>2, <2>1 DEF Stick
<1>3. ASSUME UNCHANGED list PROVE Stick
  BY <1>1, <1>2, <1>3
<1>4. CASE OlderApplied
  <2>1. PICK r \in Seq(Entry) : r = older.rows
    BY <1>0 DEF OlderTrue, Replies
  <2>2. PICK t : t = r \o s
    OBVIOUS
  <2>3. list' = t /\ older.at = "answered" /\ cursor.more
    BY <1>0, <1>1, <1>4, <2>1, <2>2 DEF OlderApplied, OlderTrue
  <2>4. /\ \A k \in DOMAIN r : t[k] = r[k]
        /\ \A k \in DOMAIN s : t[Len(r) + k] = s[k]
        /\ \A n \in DOMAIN t : n \in DOMAIN r \/ \E k \in DOMAIN s : n = Len(r) + k
    BY <2>2, Joined
  <2>5. ASSUME NEW j \in DOMAIN r, NEW k \in DOMAIN s, s[k].id = r[j].id
        PROVE  s[k].id \in late
    <3>1. r[j].id < cursor.next /\ r[j].id \in DOMAIN slots
      BY <1>0, <2>1, <2>3 DEF OlderTrue, RowsTrue
    <3>2. s[k].id # 0 /\ ~(cursor.next <= s[k].id)
      <4>1. r[j].id \in Nat \ {0} /\ cursor.next \in Nat
        BY <1>0, <3>1, SlotsAre DEF RoomTrue
      <4> QED
        BY <2>5, <3>1, <4>1
    <3> QED
      BY <1>1, <2>3, <3>2 DEF EntryTrue
  <2> QED
    BY <1>2, <2>3, <2>4, <2>5
<1>5. CASE CatchApplied /\ catch.rows # <<>>
  <2>1. PICK p \in Seq(Entry) :
          /\ \A k \in DOMAIN list : k \in DOMAIN p /\ p[k] = list[k]
          /\ \A n \in DOMAIN p \ DOMAIN list :
               ~Has(list, p[n].id) /\ \E k \in DOMAIN catch.rows : p[n] = catch.rows[k]
          /\ \A m, n \in DOMAIN p \ DOMAIN list : p[m].id = p[n].id => m = n
          /\ \A k \in DOMAIN catch.rows :
               Has(list, catch.rows[k].id) \/ \E n \in DOMAIN p \ DOMAIN list : p[n] = catch.rows[k]
          /\ \A n \in DOMAIN p \ DOMAIN list :
               /\ slots[p[n].id] # NoCid => p[n].id \in synced'
               /\ Behind(p[n].id) => p[n].id \in late'
          /\ list' \in Seq(Entry)
          /\ \E a \in [DOMAIN list' -> DOMAIN p] :
               /\ \A n \in DOMAIN list' : list'[n] = p[a[n]]
               /\ \A m, n \in DOMAIN list' : a[m] = a[n] => m = n
               /\ \A k \in DOMAIN p : \E n \in DOMAIN list' : a[n] = k
    BY <1>5, CaughtUpList
  <2>2. PICK t : t = list'
    OBVIOUS
  <2>3. \A j \in DOMAIN t : \E n \in DOMAIN p : t[j] = p[n]
    BY <2>1, <2>2
  <2>4. \A n \in DOMAIN p : n \in DOMAIN s \/ \A k \in DOMAIN s : s[k].id # p[n].id
    BY <1>1, <2>1 DEF Has
  <2>5. \A n \in DOMAIN s : p[n] = s[n]
    BY <1>1, <2>1
  <2> QED
    BY <1>2, <2>2, <2>3, <2>4, <2>5
<1>6. ASSUME NEW f \in coming, NewMessage(f)
      PROVE  Stick
  <2>1. PICK e : e = [id |-> f.id, cid |-> slots[f.id], pending |-> FALSE, mark |-> FALSE]
    OBVIOUS
  <2>2. PICK t : t = Merged(e)
    OBVIOUS
  <2>3. list' = t
    BY <1>6, <2>1, <2>2 DEF NewMessage
  <2>4. f.id \in DOMAIN slots /\ slots[f.id] \in OwnCid \cup {NoCid} /\ f.id \in 0..MaxSeq
    BY <1>0, SlotsAre DEF RoomTrue
  <2>5. e \in Entry /\ e.id = f.id /\ e.cid = slots[e.id]
    BY <2>1, <2>4 DEF Entry
  <2>6. CASE Has(list, f.id)
    <3>1. UNCHANGED list
      BY <2>2, <2>3, <2>5, <2>6 DEF Merged
    <3> QED
      BY <1>3, <3>1
  <2>7. CASE ~Has(list, f.id)
    <3>1. \/ t = Append(s, e)
          \/ \E j \in DOMAIN s : s[j].id = 0 /\ t = [s EXCEPT ![j] = e]
      BY <1>1, <2>2, <2>4, <2>5, <2>7, MergedList
    <3>2. \A j \in DOMAIN t : t[j] = e \/ (j \in DOMAIN s /\ t[j] = s[j])
      <4>1. CASE t = Append(s, e)
        BY <2>5, <4>1, Longer
      <4>2. ASSUME NEW j \in DOMAIN s, t = [s EXCEPT ![j] = e]
            PROVE  \A n \in DOMAIN t : t[n] = e \/ (n \in DOMAIN s /\ t[n] = s[n])
        BY <2>5, <4>2, Replaced
      <4> QED
        BY <3>1, <4>1, <4>2
    <3>3. \A k \in DOMAIN s : s[k].id # e.id
      BY <1>1, <2>5, <2>7 DEF Has
    <3>4. ASSUME NEW j \in DOMAIN t
          PROVE  \/ \E m \in DOMAIN s : s[m].id = t[j].id /\ (s[m].mark => t[j].mark)
                 \/ \A k \in DOMAIN s : s[k].id # t[j].id \/ s[k].id \in late
      <4>1. CASE t[j] = e
        BY <3>3, <4>1
      <4>2. CASE j \in DOMAIN s /\ t[j] = s[j]
        BY <4>2
      <4> QED
        BY <3>2, <4>1, <4>2
    <3> QED
      BY <1>2, <2>3, <3>4
  <2> QED
    BY <2>6, <2>7
<1>7. ASSUME NEW f \in coming, Patched(f)
      PROVE  Stick
  <2>1. PICK t : t = [k \in DOMAIN s |-> IF s[k].id = f.id THEN [s[k] EXCEPT !.mark = TRUE] ELSE s[k]]
    OBVIOUS
  <2>2. list' = t
    BY <1>1, <1>7, <2>1 DEF Patched
  <2>3. ASSUME NEW k \in DOMAIN s  PROVE t[k].id = s[k].id /\ (s[k].mark => t[k].mark)
    <3>1. s[k] \in Entry
      OBVIOUS
    <3>2. s[k] = [id |-> s[k].id, cid |-> s[k].cid, pending |-> s[k].pending, mark |-> s[k].mark]
      BY <3>1 DEF Entry
    <3>3. [s[k] EXCEPT !.mark = TRUE].id = s[k].id /\ [s[k] EXCEPT !.mark = TRUE].mark
      BY <3>2
    <3> QED
      BY <2>1, <3>3
  <2>4. DOMAIN t = DOMAIN s
    BY <2>1
  <2> QED
    BY <1>2, <2>2, <2>3, <2>4
<1>8. ASSUME NEW K \in SUBSET DOMAIN s, list' = Kept(s, K)
      PROVE  Stick
  <2>1. PICK t : t = Kept(s, K)
    OBVIOUS
  <2>2. PICK a \in [DOMAIN t -> K] : \A n \in DOMAIN t : t[n] = s[a[n]]
    BY <2>1, KeptLists
  <2>3. \A n \in DOMAIN t : a[n] \in DOMAIN s /\ t[n] = s[a[n]]
    BY <2>2
  <2> QED
    BY <1>2, <1>8, <2>1, <2>3
<1>9. ASSUME NEW f \in coming, Deleted(f)
      PROVE  Stick
  <2>1. list' = Kept(s, {k \in DOMAIN s : s[k].id # f.id})
    BY <1>1, <1>9 DEF Deleted, Without
  <2> QED
    BY <1>8, <2>1
<1>10. ASSUME NEW c \in OwnCid, SendRateLimited(c)
       PROVE  Stick
  <2>1. list' = Kept(s, {k \in DOMAIN s : s[k].cid # c})
    BY <1>1, <1>10 DEF SendRateLimited
  <2> QED
    BY <1>8, <2>1
<1>11. ASSUME NEW c \in OwnCid, Compose(c)
       PROVE  Stick
  <2>1. PICK e : e = [id |-> 0, cid |-> c, pending |-> TRUE, mark |-> FALSE]
    OBVIOUS
  <2>2. PICK t : t = Append(s, e)
    OBVIOUS
  <2>3. list' = t /\ e \in Entry /\ e.id = 0
    BY <1>0, <1>1, <1>11, <2>1, <2>2, SlotsAre DEF Compose, Entry
  <2>4. \A j \in DOMAIN t : t[j] = e \/ (j \in DOMAIN s /\ t[j] = s[j])
    BY <2>2, <2>3, Longer
  <2> QED
    BY <1>2, <2>3, <2>4
<1>12. CASE LoadAnswered \/ LoadFails \/ OlderAsked \/ OlderAnswered \/ OlderFails \/ CatchStart
            \/ CatchPage \/ CatchFails \/ (CatchApplied /\ catch.rows = <<>>) \/ Others
            \/ (\E c \in OwnCid : SendSettled(c) \/ SendQueued(c)) \/ UNCHANGED pageVars
  <2>1. UNCHANGED list
    BY <1>12 DEF LoadAnswered, LoadFails, OlderAsked, OlderAnswered, OlderFails, CatchStart, CatchPage,
       CatchFails, CatchApplied, Others, Posted, Patch, Delete, Disconnect, Connect, SendSettled,
       SendQueued, pageVars
  <2> QED
    BY <1>3, <2>1
<1> QED
  BY <1>4, <1>5, <1>6, <1>7, <1>9, <1>10, <1>11, <1>12 DEF NextRoom, Loads, CatchUp, Live, Sends

\* A change that handleEdited, handleReactionUpdated or handlePinned has put on the list is not
\* undone by a frame, an older page or a sync that is older than it.
THEOREM ChangesStickAlways == RoomViewSpec => ChangesStick
<1>1. RoomInv /\ [NextRoom]_pageVars =>
        [LoadApplied \/
         \A k \in DOMAIN list :
           list[k].mark /\ list[k].id \notin late =>
             \A j \in DOMAIN list' : list'[j].id = list[k].id => list'[j].mark]_pageVars
  BY StickStep DEF Stick
<1> QED
  BY <1>1, RoomInvAlways, PTL DEF RoomViewSpec, ChangesStick

-----------------------------------------------------------------------------
(* The direct-message page. *)

\* The page's lists are these.
LEMMA DmCardinality == \A S : Dm!Cardinality(S) = Cardinality(S)
BY DEF Dm!Cardinality, Cardinality

LEMMA DmRanked ==
  ASSUME NEW f
  PROVE  Dm!Ranked(f) = Ranked(f)
<1> DEFINE size == Cardinality(DOMAIN f)
<1>1. \A n \in 1..size : Dm!Nth(f, n) = Nth(f, n)
  BY DmCardinality DEF Dm!Nth, Nth
<1> HIDE DEF size
<1>2. [n \in 1..size |-> Dm!Nth(f, n)] = [n \in 1..size |-> Nth(f, n)]
  BY <1>1, Zenon
<1>3. Dm!Ranked(f) = [n \in 1..size |-> Dm!Nth(f, n)]
  BY DmCardinality DEF Dm!Ranked, size
<1>4. Ranked(f) = [n \in 1..size |-> Nth(f, n)]
  BY DEF Ranked, size
<1> QED
  BY <1>2, <1>3, <1>4

LEMMA DmAscending ==
  ASSUME NEW S
  PROVE  Dm!Ascending(S) = Ascending(S)
BY DmRanked DEF Dm!Ascending, Ascending

LEMMA DmKept ==
  ASSUME NEW s, NEW K
  PROVE  Dm!Kept(s, K) = Kept(s, K)
BY DmAscending DEF Dm!Kept, Kept

Rec == [conv : Conv, cid : Cid \cup {None}]

\* Sends: a client id is stored once, of a send that was emitted, in the conversation it
\* was written in, and acknowledged only once stored.
SendsTrue ==
  /\ stored \in Seq(Rec) /\ Len(stored) <= MaxMsgs
  /\ opaque \subseteq DOMAIN stored
  /\ linked \in BOOLEAN
  /\ joined \subseteq Conv
  /\ inbound \subseteq DOMAIN stored
  /\ active \in Conv \cup {None}
  /\ opens \in 0..MaxOpens
  /\ call \in [Cid -> {"none", "uploading", "sealing", "waiting", "done"}]
  /\ sendTo \in [Cid -> Conv \cup {None}]
  /\ flight \subseteq Cid /\ acks \subseteq Cid
  /\ shredding \in Conv \cup {None}
  /\ misplaced \subseteq Dm!Id /\ strayed \subseteq Cid /\ relisted \subseteq Dm!Id
  /\ \A c \in Cid : call[c] # "none" => sendTo[c] \in Conv
  /\ \A c \in flight \cup acks : call[c] \in {"waiting", "done"}
  /\ \A c \in acks : \E i \in DOMAIN stored : stored[i].cid = c
  /\ \A i \in DOMAIN stored :
       LET c == stored[i].cid
       IN c # None => /\ call[c] \in {"waiting", "done"} /\ c \notin flight
                      /\ sendTo[c] = stored[i].conv
  /\ \A i, j \in DOMAIN stored : stored[i].cid = stored[j].cid /\ i # j => stored[i].cid = None

\* A list of messages and bubbles, each once.
Once(s) ==
  \A j, k \in DOMAIN s :
    j # k => /\ s[j].id # s[k].id \/ s[j].id = 0
             /\ s[j].cid # s[k].cid \/ s[j].cid = None

\* What an entry will be shown as message i, if it is readable.
Means(e, i) == e.id = i \/ (e.id = 0 /\ e.cid = stored[i].cid)
Readable(e) == e.ok => \A i \in opaque : Means(e, i) => i \in relisted

\* An entry of the list: a bubble of a send under way, or a stored message, of the open
\* conversation or astray.
Good(e) ==
  /\ e.id = 0 => /\ e.cid \in Cid /\ call[e.cid] \notin {"none", "uploading"}
                 /\ sendTo[e.cid] = active \/ e.cid \in strayed
  /\ e.id # 0 => /\ e.id \in DOMAIN stored /\ e.cid = stored[e.id].cid
                 /\ stored[e.id].conv = active \/ Dm!Astray(e.id)
  /\ Readable(e)

Listed ==
  /\ view \in Seq(Dm!Entry) /\ Once(view)
  /\ \A k \in DOMAIN view : Good(view[k])

\* A history holds messages of its conversation, a frame its message.
DmLoadTrue(l) ==
  /\ l \in [conv : Conv, at : {"asked", "ready"}, rows : Seq(Dm!Entry), no : Nat]
  /\ Once(l.rows)
  /\ \A k \in DOMAIN l.rows :
       LET e == l.rows[k]
       IN /\ e.id \in DOMAIN stored /\ e.cid = stored[e.id].cid
          /\ stored[e.id].conv = l.conv
          /\ Readable(e)
DmFrameTrue(o) ==
  /\ o \in [id : Dm!Id, active : Conv \cup {None}, ok : BOOLEAN]
  /\ o.id \in DOMAIN stored
  /\ o.ok /\ o.id \in opaque => o.id \in relisted

Awaited == (\A l \in loads : DmLoadTrue(l)) /\ (\A o \in opening : DmFrameTrue(o))

\* The index and the preview cache.
Filed ==
  /\ docs \in [Dm!Id -> Conv \cup {None}]
  /\ \A i \in Dm!Id \ DOMAIN stored : docs[i] = None
  /\ \A i \in DOMAIN stored : docs[i] \in {None, stored[i].conv} \/ Dm!Astray(i)
  /\ \A i \in opaque : docs[i] = None \/ i \in relisted \/ Dm!Astray(i)
Previewed ==
  /\ preview \in [Conv -> {0} \cup DOMAIN stored]
  /\ \A c \in Conv : /\ preview[c] # 0 => stored[preview[c]].conv = c
                     /\ preview[c] \in opaque => preview[c] \in relisted

DmInv == SendsTrue /\ Listed /\ Awaited /\ Filed /\ Previewed

\* It is what the properties need.
LEMMA DmInvEnough ==
  ASSUME DmInv
  PROVE  Dm!ListSound /\ Dm!RightConversation /\ Dm!ShreddedUnindexed
<1>1. DOMAIN stored = 1..Len(stored) /\ Len(stored) \in Nat
  BY DEF DmInv, SendsTrue
<1>2. Dm!TypeOK
  <2>1. \A k \in DOMAIN view : view[k].id \in {0} \cup DOMAIN stored
    BY DEF DmInv, Listed, Good
  <2>2. \A l \in loads : l.conv \in Conv /\ l.at \in {"asked", "ready"} /\ l.rows \in Seq(Dm!Entry)
    BY DEF DmInv, Awaited, DmLoadTrue
  <2>3. opening \subseteq [id : Dm!Id, active : Conv \cup {None}, ok : BOOLEAN]
    BY DEF DmInv, Awaited, DmFrameTrue
  <2>4. preview \in [Conv -> 0..Len(stored)]
    <3>1. {0} \cup DOMAIN stored = 0..Len(stored)
      BY <1>1
    <3> QED
      BY <3>1 DEF DmInv, Previewed
  <2> QED
    BY <2>1, <2>2, <2>3, <2>4 DEF DmInv, SendsTrue, Listed, Filed, Dm!TypeOK, Rec
<1>3. Dm!ListedOnce
  BY DEF DmInv, Listed, Once, Dm!ListedOnce
<1>4. Dm!RightConversation
  BY DEF DmInv, Listed, Good, Dm!RightConversation
<1>5. Dm!ShreddedUnindexed
  BY DEF DmInv, Filed, Previewed, Dm!ShreddedUnindexed
<1> QED
  BY <1>2, <1>3, <1>4, <1>5 DEF Dm!ListSound

-----------------------------------------------------------------------------
\* The store only grows.
DmGrown ==
  /\ DOMAIN stored \subseteq DOMAIN stored'
  /\ \A i \in DOMAIN stored : stored'[i] = stored[i]

\* Stored messages, shredded ones and recorded exceptions only grow.
LEMMA DmGrows ==
  ASSUME DmInv, [Dm!Next]_Dm!vars
  PROVE  DmGrown
<1>1. CASE UNCHANGED stored
  BY <1>1 DEF DmGrown
<1>2. ASSUME NEW r \in Rec, stored' = Append(stored, r)
      PROVE  DmGrown
  BY <1>2, Longer DEF DmGrown, DmInv, SendsTrue
<1>3. ASSUME NEW c \in Conv, Dm!PeerPosts(c)
      PROVE  DmGrown
  BY <1>2, <1>3 DEF Dm!PeerPosts, Rec
<1>4. ASSUME NEW c \in Cid, Dm!ServerStores(c)
      PROVE  DmGrown
  BY <1>2, <1>4 DEF Dm!ServerStores, Rec, DmInv, SendsTrue
<1>5. CASE UNCHANGED Dm!vars
  BY <1>1, <1>5 DEF Dm!vars, Dm!server
<1>6. CASE Dm!Next
  <2>1. \/ \E c \in Conv : Dm!PeerPosts(c)
        \/ \E c \in Cid : Dm!ServerStores(c)
        \/ UNCHANGED stored
    BY <1>6 DEF Dm!Next, Dm!Open, Dm!Back, Dm!LoadReady, Dm!LoadApplied, Dm!LoadFails, Dm!FrameComes,
       Dm!FrameShown, Dm!Disconnect, Dm!Connect, Dm!Compose, Dm!Upload, Dm!Uploaded, Dm!UploadFails,
       Dm!SealFails, Dm!Emit, Dm!AckOk, Dm!AckFails, Dm!Shred, Dm!ShredDone, Dm!server
  <2> QED
    BY <1>1, <1>3, <1>4, <2>1
<1> QED
  BY <1>5, <1>6

\* What is known of an entry stays so while the conversation stays open and nothing is
\* shredded: sends go on, histories only grow.
DmOnward ==
  /\ DmGrown
  /\ UNCHANGED <<active, opaque>>
  /\ misplaced \subseteq misplaced' /\ strayed \subseteq strayed' /\ relisted \subseteq relisted'
  /\ \A c \in Cid : call[c] \notin {"none", "uploading"} =>
       call'[c] \notin {"none", "uploading"} /\ sendTo'[c] = sendTo[c]

\* A message that is shown where it belongs, or astray, stays so.
LEMMA GoodStays ==
  ASSUME SendsTrue, DmOnward, NEW e, Good(e)
  PROVE  Good(e)'
<1>1. \A i \in opaque : stored'[i] = stored[i]
  BY DEF SendsTrue, DmOnward, DmGrown
<1>2. Readable(e)'
  BY <1>1 DEF Good, Readable, Means, DmOnward
<1>3. e.id # 0 => /\ e.id \in DOMAIN stored' /\ e.cid = stored'[e.id].cid
                  /\ stored'[e.id].conv = active' \/ Dm!Astray(e.id)'
  BY DEF Good, Dm!Astray, DmOnward, DmGrown
<1>4. e.id = 0 => /\ e.cid \in Cid /\ call'[e.cid] \notin {"none", "uploading"}
                  /\ sendTo'[e.cid] = active' \/ e.cid \in strayed'
  BY DEF Good, DmOnward
<1> QED
  BY <1>2, <1>3, <1>4 DEF Good

\* What is awaited stays true while nothing is shredded.
LEMMA AwaitedStays ==
  ASSUME SendsTrue, DmGrown, UNCHANGED opaque, relisted \subseteq relisted',
         \A l \in loads' : DmLoadTrue(l), \A o \in opening' : DmFrameTrue(o)
  PROVE  Awaited'
<1>1. \A i \in opaque : stored'[i] = stored[i]
  BY DEF SendsTrue, DmGrown
<1>2. ASSUME NEW l, DmLoadTrue(l)  PROVE DmLoadTrue(l)'
  <2>1. ASSUME NEW k \in DOMAIN l.rows
        PROVE  /\ l.rows[k].id \in DOMAIN stored' /\ l.rows[k].cid = stored'[l.rows[k].id].cid
               /\ stored'[l.rows[k].id].conv = l.conv
               /\ Readable(l.rows[k])'
    BY <1>1, <1>2, <2>1 DEF DmLoadTrue, Readable, Means, DmGrown
  <2> QED
    BY <1>2, <2>1 DEF DmLoadTrue
<1>3. ASSUME NEW o, DmFrameTrue(o)  PROVE DmFrameTrue(o)'
  BY <1>3 DEF DmFrameTrue, DmGrown
<1> QED
  BY <1>2, <1>3 DEF Awaited

\* Stored messages are numbered from one.
LEMMA StoredIds ==
  ASSUME NEW s \in Seq(Rec), Len(s) <= MaxMsgs
  PROVE  /\ DOMAIN s = 1..Len(s) /\ Len(s) \in Nat
         /\ DOMAIN s \subseteq Dm!Id /\ 0 \notin Dm!Id
BY DmViewAssumption DEF Dm!Id

\* What is kept of a list without repetition has none,
LEMMA OnceKept ==
  ASSUME NEW s \in Seq(Dm!Entry), Once(s), NEW K \in SUBSET DOMAIN s
  PROVE  /\ Kept(s, K) \in Seq(Dm!Entry) /\ Once(Kept(s, K))
         /\ \A n \in DOMAIN Kept(s, K) : \E k \in K : Kept(s, K)[n] = s[k]
<1>1. Kept(s, K) \in Seq(Dm!Entry)
  BY KeptLists
<1>2. PICK a \in [DOMAIN Kept(s, K) -> K] :
        /\ \A n \in DOMAIN Kept(s, K) : Kept(s, K)[n] = s[a[n]]
        /\ \A m, n \in DOMAIN Kept(s, K) : a[m] = a[n] => m = n
  BY KeptLists
<1>3. Once(Kept(s, K))
  BY <1>2 DEF Once
<1>4. \A n \in DOMAIN Kept(s, K) : a[n] \in K
  BY <1>2
<1> QED
  BY <1>1, <1>2, <1>3, <1>4

\* Entry e is not among the others of list s.
Unlike(s, e, others) ==
  \A k \in others : /\ s[k].id # e.id \/ e.id = 0
                    /\ s[k].cid # e.cid \/ e.cid = None

\* nor has a list with a new entry at its end,
LEMMA OnceLonger ==
  ASSUME NEW s \in Seq(Dm!Entry), Once(s), NEW e \in Dm!Entry, Unlike(s, e, DOMAIN s)
  PROVE  Once(Append(s, e))
<1>1. /\ DOMAIN Append(s, e) = DOMAIN s \cup {Len(s) + 1}
      /\ \A k \in DOMAIN s : Append(s, e)[k] = s[k]
      /\ Append(s, e)[Len(s) + 1] = e
  BY Longer
<1> QED
  BY <1>1 DEF Once, Unlike

\* nor one with an entry in place of another's.
LEMMA OnceReplaced ==
  ASSUME NEW s \in Seq(Dm!Entry), Once(s), NEW e \in Dm!Entry, NEW j \in DOMAIN s,
         Unlike(s, e, DOMAIN s \ {j})
  PROVE  Once([s EXCEPT ![j] = e])
<1>1. /\ DOMAIN [s EXCEPT ![j] = e] = DOMAIN s
      /\ \A k \in DOMAIN s : [s EXCEPT ![j] = e][k] = IF k = j THEN e ELSE s[k]
  BY Replaced
<1> QED
  BY <1>1 DEF Once, Unlike

\* A list without repetition, of entries that were listed or are good, is sound.
LEMMA ListedStays ==
  ASSUME SendsTrue, Listed, DmOnward, NEW v \in Seq(Dm!Entry), view' = v, Once(v),
         \A k \in DOMAIN v : (\E j \in DOMAIN view : v[k] = view[j]) \/ Good(v[k])'
  PROVE  Listed'
<1>1. ASSUME NEW k \in DOMAIN v  PROVE Good(v[k])'
  <2>1. CASE \E j \in DOMAIN view : v[k] = view[j]
    <3>1. Good(v[k])
      BY <2>1 DEF Listed
    <3> QED
      BY <3>1, GoodStays
  <2> QED
    BY <1>1, <2>1
<1> QED
  BY <1>1 DEF Listed

\* An empty list is sound.
LEMMA EmptyListed ==
  ASSUME view' = <<>>
  PROVE  Listed'
<1>1. <<>> \in Seq(Dm!Entry) /\ DOMAIN <<>> = {}
  OBVIOUS
<1> QED
  BY <1>1 DEF Listed, Once

\* The index after a list is rendered.
Rendered ==
  docs' = [i \in Dm!Id |->
             IF active' # None /\ i \in {view'[k].id : k \in {j \in DOMAIN view' : view'[j].ok}}
               THEN active' ELSE docs[i]]

\* Rendering a sound list leaves the index sound.
LEMMA RenderedFiled ==
  ASSUME DmInv, SendsTrue', Listed', DmGrown, Rendered, UNCHANGED opaque,
         misplaced \subseteq misplaced', strayed \subseteq strayed', relisted \subseteq relisted'
  PROVE  Filed'
<1>1. active' \in Conv \cup {None}
  BY DEF SendsTrue
<1>2. docs' \in [Dm!Id -> Conv \cup {None}]
  BY <1>1 DEF Rendered, DmInv, Filed
<1>3. ASSUME NEW i \in Dm!Id
      PROVE  docs'[i] = docs[i]
             \/ \E k \in DOMAIN view' : view'[k].id = i /\ view'[k].ok /\ docs'[i] = active'
  BY DEF Rendered
<1>4. DOMAIN stored' \subseteq Dm!Id /\ 0 \notin Dm!Id
  BY StoredIds DEF SendsTrue
<1>5. ASSUME NEW i \in DOMAIN stored', docs'[i] # docs[i]
      PROVE  /\ docs'[i] = stored'[i].conv \/ Dm!Astray(i)'
             /\ i \in opaque' => i \in relisted'
  <2>1. PICK k \in DOMAIN view' : view'[k].id = i /\ view'[k].ok /\ docs'[i] = active'
    BY <1>3, <1>4, <1>5
  <2>2. PICK e : e = view'[k]
    OBVIOUS
  <2>3. Good(e)' /\ e.id = i /\ e.ok
    BY <2>1, <2>2 DEF Listed
  <2> QED
    BY <1>4, <2>1, <2>3 DEF Good, Readable, Means
<1>6. ASSUME NEW i \in Dm!Id \ DOMAIN stored'  PROVE docs'[i] = None
  <2>1. ASSUME docs'[i] # docs[i]  PROVE FALSE
    <3>1. PICK k \in DOMAIN view' : view'[k].id = i
      BY <1>3, <2>1
    <3>2. PICK e : e = view'[k]
      OBVIOUS
    <3>3. Good(e)' /\ e.id = i
      BY <3>1, <3>2 DEF Listed
    <3> QED
      BY <1>4, <1>6, <3>3 DEF Good
  <2> QED
    BY <1>6, <2>1 DEF DmInv, Filed, DmGrown
<1>7. ASSUME NEW i \in DOMAIN stored', docs'[i] = docs[i]
      PROVE  /\ docs'[i] \in {None, stored'[i].conv} \/ Dm!Astray(i)'
             /\ i \in opaque' => docs'[i] = None \/ i \in relisted' \/ Dm!Astray(i)'
  <2>1. CASE i \in DOMAIN stored
    BY <1>7, <2>1 DEF DmInv, Filed, Dm!Astray, DmGrown
  <2>2. CASE i \notin DOMAIN stored
    BY <1>4, <1>7, <2>2 DEF DmInv, Filed
  <2> QED
    BY <2>1, <2>2
<1>8. opaque' \subseteq DOMAIN stored'
  BY DEF SendsTrue
<1> QED
  BY <1>2, <1>5, <1>6, <1>7, <1>8 DEF Filed

\* A step that leaves list and index alone keeps them filed right.
LEMMA QuietFiled ==
  ASSUME DmInv, SendsTrue', DmGrown, UNCHANGED <<docs, opaque>>,
         misplaced \subseteq misplaced', strayed \subseteq strayed', relisted \subseteq relisted'
  PROVE  Filed'
<1>1. DOMAIN stored' \subseteq Dm!Id /\ opaque' \subseteq DOMAIN stored'
  BY StoredIds DEF SendsTrue
<1>2. ASSUME NEW i \in DOMAIN stored'
      PROVE  /\ docs'[i] \in {None, stored'[i].conv} \/ Dm!Astray(i)'
             /\ i \in opaque' => docs'[i] = None \/ i \in relisted' \/ Dm!Astray(i)'
  <2>1. CASE i \in DOMAIN stored
    BY <2>1 DEF DmInv, Filed, Dm!Astray, DmGrown
  <2>2. CASE i \notin DOMAIN stored
    BY <1>1, <2>2 DEF DmInv, Filed
  <2> QED
    BY <2>1, <2>2
<1>3. \A i \in Dm!Id \ DOMAIN stored' : docs'[i] = None
  BY DEF DmInv, Filed, DmGrown
<1> QED
  BY <1>1, <1>2, <1>3 DEF Filed, DmInv

\* The preview of a conversation is emptied or becomes a readable message of it.
LEMMA PreviewedStays ==
  ASSUME SendsTrue, Previewed, DmGrown, UNCHANGED opaque, relisted \subseteq relisted',
         preview' \in [Conv -> {0} \cup DOMAIN stored'],
         \A c \in Conv : \/ preview'[c] \in {0, preview[c]}
                         \/ /\ preview'[c] \in DOMAIN stored /\ stored[preview'[c]].conv = c
                            /\ preview'[c] \in opaque => preview'[c] \in relisted'
  PROVE  Previewed'
<1>1. 0 \notin opaque
  BY DEF SendsTrue
<1>2. ASSUME NEW c \in Conv
      PROVE  /\ preview'[c] # 0 => stored'[preview'[c]].conv = c
             /\ preview'[c] \in opaque' => preview'[c] \in relisted'
  <2>1. preview[c] \in {0} \cup DOMAIN stored
    BY DEF Previewed
  <2> QED
    BY <1>1, <2>1 DEF Previewed, DmGrown
<1> QED
  BY <1>2 DEF Previewed

\* A step that neither shreds nor previews keeps the previews sound.
LEMMA PreviewKept ==
  ASSUME SendsTrue, Previewed, DmGrown, UNCHANGED <<opaque, preview>>, relisted \subseteq relisted'
  PROVE  Previewed'
<1>1. preview' \in [Conv -> {0} \cup DOMAIN stored']
  BY DEF Previewed, DmGrown
<1> QED
  BY <1>1, PreviewedStays

-----------------------------------------------------------------------------
\* What a step leaves alone of the sends.
LEMMA SendsQuiet ==
  ASSUME SendsTrue, UNCHANGED <<stored, opaque, call, sendTo>>,
         linked' \in BOOLEAN, joined' \subseteq Conv, inbound' \subseteq DOMAIN stored,
         active' \in Conv \cup {None}, opens' \in 0..MaxOpens, flight' \subseteq flight,
         acks' \subseteq acks, shredding' \in Conv \cup {None},
         misplaced' \subseteq Dm!Id, strayed' \subseteq Cid, relisted' \subseteq Dm!Id
  PROVE  SendsTrue'
BY DEF SendsTrue

\* A step that leaves sends alone keeps what is known of them.
LEMMA SendsSame ==
  ASSUME DmInv, UNCHANGED <<stored, opaque, linked, joined, inbound, active, opens, call, sendTo,
                            flight, acks, shredding, misplaced, strayed, relisted>>
  PROVE  SendsTrue'
BY DEF DmInv, SendsTrue

\* A message is stored: of somebody else, or of a send that was under way.
LEMMA SendsPosted ==
  ASSUME SendsTrue, NEW r \in Rec, stored' = Append(stored, r), Len(stored) < MaxMsgs,
         inbound' \subseteq inbound \cup {Len(stored) + 1},
         flight' = flight \ {r.cid}, acks' \subseteq acks \cup {r.cid}, acks' \subseteq Cid,
         r.cid # None => r.cid \in flight /\ sendTo[r.cid] = r.conv,
         UNCHANGED <<opaque, linked, joined, active, opens, call, sendTo, shredding, misplaced,
                     strayed, relisted>>
  PROVE  SendsTrue'
<1>1. /\ stored' \in Seq(Rec) /\ Len(stored') = Len(stored) + 1
      /\ DOMAIN stored' = DOMAIN stored \cup {Len(stored) + 1}
      /\ Len(stored) + 1 \notin DOMAIN stored
      /\ \A k \in DOMAIN stored : stored'[k] = stored[k]
      /\ stored'[Len(stored) + 1] = r
  BY Longer DEF SendsTrue
<1>2. Len(stored') <= MaxMsgs
  BY <1>1, DmViewAssumption DEF SendsTrue
<1> DEFINE n == Len(stored) + 1
<1> HIDE DEF n
<1>3. /\ DOMAIN stored' = DOMAIN stored \cup {n} /\ n \notin DOMAIN stored /\ stored'[n] = r
      /\ inbound' \subseteq inbound \cup {n}
  BY <1>1 DEF n
<1>4. \A i \in DOMAIN stored : stored[i].cid # r.cid \/ r.cid = None
  BY DEF SendsTrue
<1>5. \A c \in acks' : \E i \in DOMAIN stored' : stored'[i].cid = c
  BY <1>1, <1>3 DEF SendsTrue
<1>6. \A i \in DOMAIN stored' :
        LET c == stored'[i].cid
        IN c # None => /\ call'[c] \in {"waiting", "done"} /\ c \notin flight'
                       /\ sendTo'[c] = stored'[i].conv
  BY <1>1, <1>3 DEF SendsTrue
<1>7. \A i, j \in DOMAIN stored' : stored'[i].cid = stored'[j].cid /\ i # j => stored'[i].cid = None
  BY <1>1, <1>3, <1>4 DEF SendsTrue
<1>8. \A c \in flight' \cup acks' : call'[c] \in {"waiting", "done"}
  <2>1. ASSUME NEW c \in acks', c \notin acks  PROVE c \in flight
    <3>1. c = r.cid /\ c \in Cid
      BY <2>1
    <3> QED
      BY <3>1, DmViewAssumption
  <2> QED
    BY <2>1 DEF SendsTrue
<1> QED
  BY <1>1, <1>2, <1>3, <1>5, <1>6, <1>7, <1>8 DEF SendsTrue

\* A call goes on.
LEMMA SendsCall ==
  ASSUME SendsTrue, NEW c \in Cid, NEW to \in {"uploading", "sealing", "waiting", "done"},
         call' = [call EXCEPT ![c] = to],
         call[c] \in {"waiting", "done"} => to \in {"waiting", "done"},
         \/ sendTo' = sendTo /\ call[c] # "none"
         \/ call[c] = "none" /\ active \in Conv /\ sendTo' = [sendTo EXCEPT ![c] = active],
         flight' \subseteq flight \cup (IF call[c] = "sealing" /\ to = "waiting" THEN {c} ELSE {}),
         acks' \subseteq acks, strayed' \subseteq strayed \cup {c},
         UNCHANGED <<stored, opaque, linked, joined, inbound, active, opens, shredding, misplaced,
                     relisted>>
  PROVE  SendsTrue'
<1>1. /\ call' \in [Cid -> {"none", "uploading", "sealing", "waiting", "done"}]
      /\ sendTo' \in [Cid -> Conv \cup {None}]
  BY DEF SendsTrue
<1>2. \A d \in Cid : call'[d] = IF d = c THEN to ELSE call[d]
  BY DEF SendsTrue
<1>3. \A d \in Cid : d # c \/ call[c] # "none" => sendTo'[d] = sendTo[d]
  BY DEF SendsTrue
<1>4. sendTo'[c] \in Conv
  BY DEF SendsTrue
<1>5. \A d \in Cid : call'[d] # "none" => sendTo'[d] \in Conv
  BY <1>2, <1>3, <1>4 DEF SendsTrue
<1>6. \A d \in flight' \cup acks' : call'[d] \in {"waiting", "done"}
  BY <1>2 DEF SendsTrue
<1>7. ASSUME NEW i \in DOMAIN stored', stored'[i].cid # None
      PROVE  /\ call'[stored'[i].cid] \in {"waiting", "done"} /\ stored'[i].cid \notin flight'
             /\ sendTo'[stored'[i].cid] = stored'[i].conv
  <2>0. i \in DOMAIN stored /\ stored' = stored /\ stored[i] \in Rec
    BY <1>7 DEF SendsTrue
  <2>1. /\ stored[i].cid \in Cid
        /\ call[stored[i].cid] \in {"waiting", "done"} /\ stored[i].cid \notin flight
        /\ sendTo[stored[i].cid] = stored[i].conv
    BY <1>7, <2>0 DEF SendsTrue, Rec
  <2> QED
    BY <1>2, <1>3, <2>0, <2>1
<1> QED
  BY <1>1, <1>5, <1>6, <1>7 DEF SendsTrue

\* What is known of the page's sends, at each step.
LEMMA SendsStay ==
  ASSUME DmInv, [Dm!Next]_Dm!vars
  PROVE  SendsTrue'
<1> USE DEF Dm!server, Dm!link, Dm!sends, Dm!hist, Dm!index
<1>0. SendsTrue /\ DOMAIN stored \subseteq Dm!Id
  BY StoredIds DEF DmInv, SendsTrue
<1>1. ASSUME NEW c \in Conv, Dm!Open(c)  PROVE SendsTrue'
  <2>1. opens' \in 0..MaxOpens
    BY <1>0, <1>1, DmViewAssumption DEF Dm!Open, SendsTrue
  <2> QED
    BY <1>0, <1>1, <2>1, SendsQuiet DEF Dm!Open, Dm!Render, SendsTrue
<1>2. ASSUME NEW c \in Conv, Dm!PeerPosts(c)  PROVE SendsTrue'
  <2> DEFINE r == [conv |-> c, cid |-> None]
  <2>1. r \in Rec /\ r.cid = None
    BY DEF Rec
  <2>2. stored' = Append(stored, r) /\ Len(stored) < MaxMsgs
        /\ inbound' \subseteq inbound \cup {Len(stored) + 1}
    BY <1>2 DEF Dm!PeerPosts, Dm!Publish
  <2> HIDE DEF r
  <2>3. flight \subseteq Cid /\ None \notin flight
    BY <1>0, DmViewAssumption DEF SendsTrue
  <2> QED
    BY <1>0, <1>2, <2>1, <2>2, <2>3, SendsPosted DEF Dm!PeerPosts, SendsTrue
<1>3. CASE Dm!Back
  BY <1>0, <1>3, SendsQuiet DEF Dm!Back, Dm!Render, SendsTrue
<1>4. ASSUME NEW l \in loads, Dm!LoadReady(l)  PROVE SendsTrue'
  BY <1>4, SendsSame DEF Dm!LoadReady
<1>5. ASSUME NEW l \in loads, Dm!LoadApplied(l)  PROVE SendsTrue'
  <2>1. l.conv \in Conv /\ Dm!Ids(l.rows) \subseteq Dm!Id
    BY <1>0 DEF DmInv, Awaited, DmLoadTrue, Dm!Ids
  <2> QED
    BY <1>0, <1>5, <2>1, SendsQuiet DEF Dm!LoadApplied, Dm!Render, SendsTrue
<1>6. ASSUME NEW l \in loads, Dm!LoadFails(l)  PROVE SendsTrue'
  <2>1. l.conv \in Conv
    BY DEF DmInv, Awaited, DmLoadTrue
  <2> QED
    BY <1>0, <1>6, <2>1, SendsQuiet DEF Dm!LoadFails, SendsTrue
<1>7. ASSUME NEW i \in inbound, Dm!FrameComes(i)  PROVE SendsTrue'
  BY <1>0, <1>7, SendsQuiet DEF Dm!FrameComes, SendsTrue
<1>8. ASSUME NEW o \in opening, Dm!FrameShown(o)  PROVE SendsTrue'
  <2>1. o.id \in Dm!Id
    BY DEF DmInv, Awaited, DmFrameTrue
  <2> QED
    BY <1>0, <1>8, <2>1, SendsQuiet DEF Dm!FrameShown, Dm!Render, SendsTrue
<1>9. CASE Dm!Disconnect
  <2>1. /\ linked' = FALSE /\ inbound' = {} /\ acks' = {} /\ flight' \subseteq flight
        /\ UNCHANGED <<stored, opaque, joined, active, opens, call, sendTo, shredding, misplaced, strayed,
                       relisted>>
    BY <1>9 DEF Dm!Disconnect
  <2> QED
    BY <1>0, <2>1, SendsQuiet DEF SendsTrue
<1>10. CASE Dm!Connect
  BY <1>0, <1>10, SendsQuiet DEF Dm!Connect, SendsTrue
<1>11. ASSUME NEW c \in Cid, Dm!Compose(c)  PROVE SendsTrue'
  BY <1>0, <1>11, SendsCall DEF Dm!Compose, Dm!Render, SendsTrue
<1>12. ASSUME NEW c \in Cid, Dm!Upload(c)  PROVE SendsTrue'
  BY <1>0, <1>12, SendsCall DEF Dm!Upload, SendsTrue
<1>13. ASSUME NEW c \in Cid, Dm!Uploaded(c)  PROVE SendsTrue'
  BY <1>0, <1>13, SendsCall DEF Dm!Uploaded, Dm!Render, SendsTrue
<1>14. ASSUME NEW c \in Cid, Dm!UploadFails(c)  PROVE SendsTrue'
  BY <1>0, <1>14, SendsCall DEF Dm!UploadFails, SendsTrue
<1>15. ASSUME NEW c \in Cid, Dm!SealFails(c)  PROVE SendsTrue'
  BY <1>0, <1>15, SendsCall DEF Dm!SealFails, Dm!Render, SendsTrue
<1>16. ASSUME NEW c \in Cid, Dm!Emit(c)  PROVE SendsTrue'
  BY <1>0, <1>16, SendsCall DEF Dm!Emit, SendsTrue
<1>17. ASSUME NEW c \in Cid, Dm!ServerStores(c)  PROVE SendsTrue'
  <2> DEFINE r == [conv |-> sendTo[c], cid |-> c]
  <2>1. r \in Rec /\ r.cid = c /\ r.conv = sendTo[c] /\ c \in flight
    BY <1>0, <1>17 DEF Rec, SendsTrue, Dm!ServerStores
  <2>2. stored' = Append(stored, r) /\ Len(stored) < MaxMsgs
        /\ inbound' \subseteq inbound \cup {Len(stored) + 1}
    BY <1>17 DEF Dm!ServerStores, Dm!Publish
  <2> HIDE DEF r
  <2>3. flight' = flight \ {c} /\ acks' \subseteq acks \cup {c} /\ acks' \subseteq Cid
    BY <1>0, <1>17 DEF Dm!ServerStores, SendsTrue
  <2> QED
    BY <1>0, <1>17, <2>1, <2>2, <2>3, SendsPosted DEF Dm!ServerStores
<1>18. ASSUME NEW c \in Cid, Dm!AckOk(c)  PROVE SendsTrue'
  <2>1. CASE call[c] = "waiting"
    BY <1>0, <1>18, <2>1, SendsCall DEF Dm!AckOk, Dm!Render, SendsTrue
  <2>2. CASE call[c] # "waiting"
    BY <1>0, <1>18, <2>2, SendsQuiet DEF Dm!AckOk, SendsTrue
  <2> QED
    BY <2>1, <2>2
<1>19. ASSUME NEW c \in Cid, Dm!AckFails(c)  PROVE SendsTrue'
  BY <1>0, <1>19, SendsCall DEF Dm!AckFails, Dm!Render, SendsTrue
<1>20. CASE Dm!Shred
  <2>1. /\ stored' = stored /\ opaque' = opaque \cup Dm!OfConv(active)
        /\ relisted' = relisted \cup (Dm!OfConv(active) \cap Dm!OnTheWay)
        /\ shredding' = active
        /\ UNCHANGED <<linked, joined, inbound, active, opens, call, sendTo, flight, acks, misplaced,
                       strayed>>
    BY <1>20 DEF Dm!Shred
  <2>2. Dm!OfConv(active) \subseteq DOMAIN stored
    BY DEF Dm!OfConv
  <2>3. opaque' \subseteq DOMAIN stored' /\ relisted' \subseteq Dm!Id
    BY <1>0, <2>1, <2>2 DEF SendsTrue
  <2> QED
    BY <1>0, <2>1, <2>3 DEF SendsTrue
<1>21. CASE Dm!ShredDone
  BY <1>0, <1>21, SendsQuiet DEF Dm!ShredDone, Dm!Render, SendsTrue
<1>22. CASE UNCHANGED Dm!vars
  BY <1>22, SendsSame DEF Dm!vars
<1> QED
  BY <1>1, <1>2, <1>3, <1>4, <1>5, <1>6, <1>7, <1>8, <1>9, <1>10, <1>11, <1>12, <1>13, <1>14, <1>15,
     <1>16, <1>17, <1>18, <1>19, <1>20, <1>21, <1>22 DEF Dm!Next

-----------------------------------------------------------------------------
\* All steps but those that change the conversation, and the shred, leave what is known
\* of entries.
LEMMA DmMoves ==
  ASSUME DmInv, [Dm!Next]_Dm!vars
  PROVE  DmOnward \/ (\E c \in Conv : Dm!Open(c)) \/ Dm!Back \/ Dm!Shred
<1> USE DEF Dm!server, Dm!link, Dm!sends, Dm!hist, Dm!index
<1>0. DmGrown /\ SendsTrue
  BY DmGrows DEF DmInv
<1>1. ASSUME UNCHANGED <<active, opaque, call, sendTo>>,
             misplaced \subseteq misplaced', strayed \subseteq strayed', relisted \subseteq relisted'
      PROVE  DmOnward
  BY <1>0, <1>1 DEF DmOnward
<1>2. ASSUME NEW c \in Cid, NEW to \in {"uploading", "sealing", "waiting", "done"},
             call' = [call EXCEPT ![c] = to], UNCHANGED <<active, opaque, misplaced, relisted>>,
             call[c] \in {"sealing", "waiting"} => to \notin {"none", "uploading"} /\ sendTo' = sendTo,
             call[c] \notin {"waiting", "done"},
             sendTo' = sendTo \/ \E x \in Conv \cup {None} : sendTo' = [sendTo EXCEPT ![c] = x],
             strayed \subseteq strayed'
      PROVE  DmOnward
  <2>1. \A d \in Cid : d # c => call'[d] = call[d] /\ sendTo'[d] = sendTo[d]
    BY <1>0, <1>2 DEF SendsTrue
  <2>2. call[c] \in {"none", "uploading", "sealing", "waiting", "done"} /\ call'[c] = to
    BY <1>0, <1>2 DEF SendsTrue
  <2> QED
    BY <1>0, <1>2, <2>1, <2>2 DEF DmOnward
<1>3. ASSUME NEW c \in Cid, call' = [call EXCEPT ![c] = "done"], sendTo' = sendTo,
             UNCHANGED <<active, opaque>>,
             misplaced \subseteq misplaced', strayed \subseteq strayed', relisted \subseteq relisted'
      PROVE  DmOnward
  <2>1. \A d \in Cid : call'[d] = call[d] \/ call'[d] = "done"
    BY <1>0, <1>3 DEF SendsTrue
  <2> QED
    BY <1>0, <1>3, <2>1 DEF DmOnward
<1>4. ASSUME NEW c \in Conv, Dm!PeerPosts(c)  PROVE DmOnward
  BY <1>1, <1>4 DEF Dm!PeerPosts
<1>5. ASSUME NEW l \in loads, Dm!LoadReady(l)  PROVE DmOnward
  BY <1>1, <1>5 DEF Dm!LoadReady
<1>6. ASSUME NEW l \in loads, Dm!LoadApplied(l)  PROVE DmOnward
  BY <1>1, <1>6 DEF Dm!LoadApplied, Dm!Render
<1>7. ASSUME NEW l \in loads, Dm!LoadFails(l)  PROVE DmOnward
  BY <1>1, <1>7 DEF Dm!LoadFails
<1>8. ASSUME NEW i \in inbound, Dm!FrameComes(i)  PROVE DmOnward
  BY <1>1, <1>8 DEF Dm!FrameComes
<1>9. ASSUME NEW o \in opening, Dm!FrameShown(o)  PROVE DmOnward
  BY <1>1, <1>9 DEF Dm!FrameShown, Dm!Render
<1>10. CASE Dm!Disconnect
  BY <1>1, <1>10 DEF Dm!Disconnect
<1>11. CASE Dm!Connect
  BY <1>1, <1>11 DEF Dm!Connect
<1>12. ASSUME NEW c \in Cid, Dm!Compose(c)  PROVE DmOnward
  BY <1>0, <1>2, <1>12 DEF Dm!Compose, Dm!Render, SendsTrue
<1>13. ASSUME NEW c \in Cid, Dm!Upload(c)  PROVE DmOnward
  BY <1>0, <1>2, <1>13 DEF Dm!Upload, SendsTrue
<1>14. ASSUME NEW c \in Cid, Dm!Uploaded(c)  PROVE DmOnward
  BY <1>2, <1>14 DEF Dm!Uploaded, Dm!Render
<1>15. ASSUME NEW c \in Cid, Dm!UploadFails(c)  PROVE DmOnward
  BY <1>3, <1>15 DEF Dm!UploadFails
<1>16. ASSUME NEW c \in Cid, Dm!SealFails(c)  PROVE DmOnward
  BY <1>3, <1>16 DEF Dm!SealFails, Dm!Render
<1>17. ASSUME NEW c \in Cid, Dm!Emit(c)  PROVE DmOnward
  BY <1>2, <1>17 DEF Dm!Emit
<1>18. ASSUME NEW c \in Cid, Dm!ServerStores(c)  PROVE DmOnward
  BY <1>1, <1>18 DEF Dm!ServerStores
<1>19. ASSUME NEW c \in Cid, Dm!AckOk(c)  PROVE DmOnward
  <2>1. CASE call[c] = "waiting"
    BY <1>3, <1>19, <2>1 DEF Dm!AckOk, Dm!Render
  <2>2. CASE call[c] # "waiting"
    BY <1>1, <1>19, <2>2 DEF Dm!AckOk
  <2> QED
    BY <2>1, <2>2
<1>20. ASSUME NEW c \in Cid, Dm!AckFails(c)  PROVE DmOnward
  BY <1>3, <1>20 DEF Dm!AckFails, Dm!Render
<1>21. CASE Dm!ShredDone
  BY <1>1, <1>21 DEF Dm!ShredDone, Dm!Render
<1>22. CASE UNCHANGED Dm!vars
  BY <1>1, <1>22 DEF Dm!vars
<1> QED
  BY <1>4, <1>5, <1>6, <1>7, <1>8, <1>9, <1>10, <1>11, <1>12, <1>13, <1>14, <1>15, <1>16, <1>17,
     <1>18, <1>19, <1>20, <1>21, <1>22 DEF Dm!Next

\* A decrypted message, as histories and frames have it.
LEMMA OpenedTrue ==
  ASSUME SendsTrue, NEW i \in DOMAIN stored
  PROVE  /\ Dm!Opened(i) \in Dm!Entry
         /\ Dm!Opened(i).id = i /\ Dm!Opened(i).cid = stored[i].cid
         /\ Dm!Opened(i).ok = (i \notin opaque)
         /\ i # 0 /\ i \in Dm!Id
<1>1. stored[i] \in Rec
  BY DEF SendsTrue
<1>2. i \in Dm!Id /\ i # 0
  BY StoredIds DEF SendsTrue
<1>3. stored[i].cid \in Cid \cup {None} /\ i \in 0..MaxMsgs /\ (i \notin opaque) \in BOOLEAN
  BY <1>1, <1>2, DmViewAssumption DEF Rec, Dm!Id
<1> QED
  BY <1>2, <1>3 DEF Dm!Opened, Dm!Entry

\* Histories: asked for, answered, applied.
LEMMA AnsweredTrue ==
  ASSUME DmInv, NEW l \in loads, Dm!LoadReady(l)
  PROVE  \A m \in loads' : m \in loads \/ DmLoadTrue(m)
<1> DEFINE S == Dm!OfConv(l.conv)
           mine == Ascending(S)
           fetched == [k \in DOMAIN mine |-> Dm!Opened(mine[k])]
           m == [l EXCEPT !.at = "ready", !.rows = fetched]
<1>1. loads' = (loads \ {l}) \cup {m}
  BY DmAscending DEF Dm!LoadReady
<1>2. S \in SUBSET DOMAIN stored /\ \A i \in S : stored[i].conv = l.conv
  BY DEF Dm!OfConv
<1>3. S \in SUBSET Nat /\ IsFiniteSet(S) /\ SendsTrue
  BY <1>2, Places DEF DmInv, SendsTrue
<1> HIDE DEF S
<1>4. /\ Cardinality(S) \in Nat
      /\ DOMAIN mine = 1..Cardinality(S)
      /\ \A n \in 1..Cardinality(S) : mine[n] \in S
      /\ \A i, j \in 1..Cardinality(S) : i < j => mine[i] < mine[j]
  BY <1>3, AscendingLists
<1> HIDE DEF mine
<1>5. ASSUME NEW n \in 1..Cardinality(S)
      PROVE  /\ fetched[n] \in Dm!Entry /\ fetched[n].id = mine[n]
             /\ mine[n] \in DOMAIN stored /\ stored[mine[n]].conv = l.conv
             /\ fetched[n].cid = stored[mine[n]].cid
             /\ fetched[n].ok = (mine[n] \notin opaque) /\ mine[n] # 0
  <2>1. mine[n] \in DOMAIN stored /\ stored[mine[n]].conv = l.conv
    BY <1>2, <1>4
  <2>2. fetched[n] = Dm!Opened(mine[n])
    BY <1>4
  <2> QED
    BY <1>3, <2>1, <2>2, OpenedTrue
<1>6. fetched \in [1..Cardinality(S) -> Dm!Entry]
  BY <1>4, <1>5
<1>7. fetched \in Seq(Dm!Entry) /\ DOMAIN fetched = 1..Cardinality(S)
  BY <1>4, <1>6, AreLists
<1>8. ASSUME NEW j \in 1..Cardinality(S), NEW k \in 1..Cardinality(S), j # k
      PROVE  mine[j] # mine[k]
  <2>1. mine[j] \in Nat /\ mine[k] \in Nat
    BY <1>3, <1>4
  <2> QED
    BY <1>4, <1>8, <2>1
<1> HIDE DEF fetched
<1>9. Once(fetched)
  <2>1. ASSUME NEW j \in 1..Cardinality(S), NEW k \in 1..Cardinality(S), j # k
        PROVE  fetched[j].id # fetched[k].id
               /\ (fetched[j].cid # fetched[k].cid \/ fetched[j].cid = None)
    BY <1>3, <1>5, <1>8, <2>1 DEF SendsTrue
  <2> QED
    BY <1>7, <2>1 DEF Once
<1>10. ASSUME NEW n \in 1..Cardinality(S)
       PROVE  Readable(fetched[n])
  BY <1>5 DEF Readable, Means
<1>11. /\ m \in [conv : Conv, at : {"asked", "ready"}, rows : Seq(Dm!Entry), no : Nat]
       /\ m.conv = l.conv /\ m.rows = fetched
  <2>1. l \in [conv : Conv, at : {"asked", "ready"}, rows : Seq(Dm!Entry), no : Nat]
    BY DEF DmInv, Awaited, DmLoadTrue
  <2> QED
    BY <1>7, <2>1
<1>12. DmLoadTrue(m)
  BY <1>5, <1>7, <1>9, <1>10, <1>11 DEF DmLoadTrue
<1> QED
  BY <1>1, <1>12

\* Shredding a conversation.
LEMMA AwaitedShred ==
  ASSUME DmInv, Dm!Shred
  PROVE  Awaited'
<1>1. /\ UNCHANGED <<stored, loads, opening>>
      /\ opaque' = opaque \cup Dm!OfConv(active)
      /\ relisted' = relisted \cup (Dm!OfConv(active) \cap Dm!OnTheWay)
  BY DEF Dm!Shred
<1>2. SendsTrue
  BY DEF DmInv
<1>3. ASSUME NEW l \in loads  PROVE DmLoadTrue(l)'
  <2>1. DmLoadTrue(l)
    BY DEF DmInv, Awaited
  <2>2. ASSUME NEW k \in DOMAIN l.rows  PROVE Readable(l.rows[k])'
    <3>1. l.rows[k].id \in Dm!Ids(l.rows)
      BY DEF Dm!Ids
    <3>2. l.rows[k].id \in Dm!OnTheWay
      BY <3>1 DEF Dm!OnTheWay
    <3>3. l.rows[k].id # 0
      BY <1>2, <2>1, StoredIds DEF DmLoadTrue, SendsTrue
    <3> QED
      BY <1>1, <2>1, <3>2, <3>3 DEF DmLoadTrue, Readable, Means
  <2> QED
    BY <1>1, <2>1, <2>2 DEF DmLoadTrue
<1>4. ASSUME NEW o \in opening  PROVE DmFrameTrue(o)'
  <2>1. DmFrameTrue(o)
    BY DEF DmInv, Awaited
  <2>2. o.id \in {p.id : p \in opening}
    OBVIOUS
  <2>3. o.id \in Dm!OnTheWay
    BY <2>2 DEF Dm!OnTheWay
  <2> QED
    BY <1>1, <2>1, <2>3 DEF DmFrameTrue
<1> QED
  BY <1>1, <1>3, <1>4 DEF Awaited

\* What is on its way to the list, at each step.
LEMMA AwaitedKept ==
  ASSUME DmInv, [Dm!Next]_Dm!vars
  PROVE  Awaited'
<1> USE DEF Dm!server, Dm!link, Dm!sends, Dm!hist, Dm!index
<1>1. /\ SendsTrue /\ DmGrown
      /\ \A l \in loads : DmLoadTrue(l)
      /\ \A o \in opening : DmFrameTrue(o)
  BY DmGrows DEF DmInv, Awaited
<1>2. ASSUME UNCHANGED opaque, relisted \subseteq relisted', loads' \subseteq loads,
             opening' \subseteq opening
      PROVE  Awaited'
  BY <1>1, <1>2, AwaitedStays
<1>3. ASSUME NEW c \in Conv, Dm!Open(c)  PROVE Awaited'
  <2> DEFINE l == [conv |-> c, at |-> "asked", rows |-> <<>>, no |-> opens + 1]
  <2>1. /\ loads' = loads \cup {l}
        /\ UNCHANGED <<stored, opaque, opening, relisted>>
    BY <1>3 DEF Dm!Open
  <2>2. DmLoadTrue(l)
    <3>1. opens + 1 \in Nat /\ <<>> \in Seq(Dm!Entry) /\ DOMAIN <<>> = {}
      BY <1>1, DmViewAssumption DEF SendsTrue
    <3> QED
      BY <3>1 DEF DmLoadTrue, Once
  <2> HIDE DEF l
  <2>3. \A m \in loads' : DmLoadTrue(m)
    BY <1>1, <2>1, <2>2
  <2> QED
    BY <1>1, <2>1, <2>3, AwaitedStays
<1>4. ASSUME NEW l \in loads, Dm!LoadReady(l)  PROVE Awaited'
  <2>1. \A m \in loads' : DmLoadTrue(m)
    BY <1>1, <1>4, AnsweredTrue
  <2> QED
    BY <1>1, <1>4, <2>1, AwaitedStays DEF Dm!LoadReady
<1>5. ASSUME NEW i \in inbound, Dm!FrameComes(i)  PROVE Awaited'
  <2> DEFINE o == [id |-> i, active |-> active, ok |-> i \notin opaque]
  <2>1. opening' = opening \cup {o} /\ UNCHANGED <<stored, opaque, loads, relisted>>
    BY <1>5 DEF Dm!FrameComes
  <2>2. i \in DOMAIN stored /\ i \in Dm!Id /\ active \in Conv \cup {None} /\ (i \notin opaque) \in BOOLEAN
    BY <1>1, StoredIds DEF SendsTrue
  <2>3. DmFrameTrue(o)
    BY <2>2 DEF DmFrameTrue
  <2> HIDE DEF o
  <2> QED
    BY <1>1, <2>1, <2>3, AwaitedStays
<1>6. CASE Dm!Shred
  BY <1>6, AwaitedShred
<1>7. CASE Dm!Next /\ ~Dm!Shred /\ ~(\E c \in Conv : Dm!Open(c))
           /\ ~(\E l \in loads : Dm!LoadReady(l)) /\ ~(\E i \in inbound : Dm!FrameComes(i))
  <2>1. /\ UNCHANGED opaque /\ relisted' = relisted
        /\ loads' \subseteq loads /\ opening' \subseteq opening
    BY <1>7 DEF Dm!Next, Dm!Back, Dm!LoadApplied, Dm!LoadFails, Dm!PeerPosts, Dm!FrameShown, Dm!Disconnect,
       Dm!Connect, Dm!Compose, Dm!Upload, Dm!Uploaded, Dm!UploadFails, Dm!SealFails, Dm!Emit,
       Dm!ServerStores, Dm!AckOk, Dm!AckFails, Dm!ShredDone
  <2> QED
    BY <1>2, <2>1
<1>8. CASE UNCHANGED Dm!vars
  BY <1>2, <1>8 DEF Dm!vars
<1> QED
  BY <1>3, <1>4, <1>5, <1>6, <1>7, <1>8

-----------------------------------------------------------------------------
(* The list. *)

\* A history shown: its messages are the open conversation's, or misplaced from now on.
LEMMA ShownLoad ==
  ASSUME DmInv, DmOnward, NEW l \in loads, Dm!LoadApplied(l)
  PROVE  Listed'
<1>1. /\ view' = l.rows /\ active' = active /\ UNCHANGED <<stored, opaque, strayed, relisted>>
      /\ misplaced' = IF l.conv = active THEN misplaced ELSE misplaced \cup Dm!Ids(l.rows)
  BY DEF Dm!LoadApplied, Dm!Render, Dm!server, Dm!sends, Dm!hist
<1>2. DmLoadTrue(l) /\ SendsTrue /\ Listed
  BY DEF DmInv, Awaited
<1>3. ASSUME NEW k \in DOMAIN l.rows  PROVE Good(l.rows[k])'
  <2> PICK e : e = l.rows[k]
    OBVIOUS
  <2>1. /\ e.id \in DOMAIN stored /\ e.cid = stored[e.id].cid /\ stored[e.id].conv = l.conv
        /\ Readable(e) /\ e.id \in Dm!Ids(l.rows) /\ e.id # 0
    BY <1>2, StoredIds DEF DmLoadTrue, Dm!Ids, SendsTrue
  <2>2. Readable(e)'
    BY <1>1, <2>1 DEF Readable, Means
  <2>3. Good(e)'
    BY <1>1, <2>1, <2>2 DEF Good, Dm!Astray
  <2> QED
    BY <2>3
<1>4. l.rows \in Seq(Dm!Entry) /\ Once(l.rows)
  BY <1>2 DEF DmLoadTrue
<1> QED
  BY <1>1, <1>2, <1>3, <1>4, ListedStays

\* An entry of the list that has the client id of a stored message is that message or its
\* bubble.
LEMMA OwnEntry ==
  ASSUME DmInv, NEW k \in DOMAIN view, view[k].cid # None,
         NEW i \in DOMAIN stored, view[k].cid = stored[i].cid
  PROVE  view[k].id \in {0, i}
<1>1. Good(view[k])
  BY DEF DmInv, Listed
<1> QED
  BY <1>1 DEF Good, DmInv, SendsTrue

\* A frame shown.
LEMMA ShownFrame ==
  ASSUME DmInv, DmOnward, NEW o \in opening, Dm!FrameShown(o)
  PROVE  Listed'
<1>1. /\ UNCHANGED <<stored, opaque, strayed, relisted, call, sendTo>>
  BY DEF Dm!FrameShown, Dm!server, Dm!sends
<1>2. DmFrameTrue(o) /\ SendsTrue /\ Listed
  BY DEF DmInv, Awaited
<1>3. CASE ~Dm!ForList(o)
  <2>1. view' = view
    BY <1>3 DEF Dm!FrameShown
  <2> QED
    BY <1>2, <2>1, ListedStays DEF Listed
<1>4. CASE Dm!ForList(o)
  <2> DEFINE i == o.id
  <2> PICK e : e = [Dm!Opened(i) EXCEPT !.ok = o.ok]
    OBVIOUS
  <2> DEFINE bubble == {k \in DOMAIN view : e.cid # None /\ view[k].cid = e.cid}
  <2>1. /\ view' = Dm!Merged(e) /\ active' = active
        /\ o.active = stored[i].conv
        /\ misplaced' = IF o.active = active THEN misplaced ELSE misplaced \cup {i}
    BY <1>4 DEF Dm!FrameShown, Dm!Render, Dm!ForList
  <2>2. /\ e \in Dm!Entry /\ e.id = i /\ e.cid = stored[i].cid /\ e.ok = o.ok
        /\ i \in DOMAIN stored /\ i # 0
    <3>1. i \in DOMAIN stored /\ o.ok \in BOOLEAN
      BY <1>2 DEF DmFrameTrue
    <3>2. /\ Dm!Opened(i) \in Dm!Entry
          /\ Dm!Opened(i).id = i /\ Dm!Opened(i).cid = stored[i].cid /\ i # 0
      BY <1>2, <3>1, OpenedTrue
    <3> QED
      BY <3>1, <3>2 DEF Dm!Entry
  <2>3. Good(e)'
    <3>1. Readable(e)'
      BY <1>1, <1>2, <2>2 DEF Readable, Means, DmFrameTrue
    <3> QED
      BY <1>1, <2>1, <2>2, <3>1 DEF Good, Dm!Astray
  <2>4. CASE i \in Dm!Ids(view)
    <3>1. view' = view
      BY <2>1, <2>2, <2>4 DEF Dm!Merged
    <3> QED
      BY <1>2, <3>1, ListedStays DEF Listed
  <2>5. CASE i \notin Dm!Ids(view) /\ bubble = {}
    <3>1. view' = Append(view, e)
      BY <2>1, <2>2, <2>5 DEF Dm!Merged
    <3>2. Unlike(view, e, DOMAIN view)
      BY <2>2, <2>5 DEF Unlike, Dm!Ids
    <3>3. Once(Append(view, e))
      BY <1>2, <2>2, <3>2, OnceLonger DEF Listed
    <3>4. /\ Append(view, e) \in Seq(Dm!Entry)
          /\ DOMAIN Append(view, e) = DOMAIN view \cup {Len(view) + 1}
          /\ \A k \in DOMAIN view : Append(view, e)[k] = view[k]
          /\ Append(view, e)[Len(view) + 1] = e
      BY <1>2, <2>2, Longer DEF Listed
    <3>5. PICK v : v = Append(view, e)
      OBVIOUS
    <3>6. \A k \in DOMAIN v : (\E j \in DOMAIN view : v[k] = view[j]) \/ v[k] = e
      BY <3>4, <3>5
    <3>7. \A k \in DOMAIN v : (\E j \in DOMAIN view : v[k] = view[j]) \/ Good(v[k])'
      BY <2>3, <3>6
    <3> QED
      BY <1>2, <3>1, <3>3, <3>4, <3>5, <3>7, ListedStays
  <2>6. CASE i \notin Dm!Ids(view) /\ bubble # {}
    <3>1. PICK j \in bubble : TRUE
      BY <2>6
    <3>2. j \in DOMAIN view /\ e.cid # None /\ view[j].cid = e.cid
      BY <3>1
    <3>3. bubble = {j}
      BY <1>2, <3>2 DEF Listed, Once
    <3>4. Dm!Min(bubble) = j
      <4>1. j \in Nat
        BY <1>2, <3>2 DEF Listed
      <4> HIDE DEF bubble
      <4> QED
        BY <3>3, <4>1 DEF Dm!Min
    <3>5. view' = [view EXCEPT ![j] = e]
      BY <2>1, <2>2, <2>6, <3>4 DEF Dm!Merged
    <3>6. Unlike(view, e, DOMAIN view \ {j})
      BY <1>2, <2>2, <2>6, <3>2 DEF Unlike, Dm!Ids, Listed, Once
    <3>7. Once([view EXCEPT ![j] = e])
      BY <1>2, <2>2, <3>2, <3>6, OnceReplaced DEF Listed
    <3>8. /\ [view EXCEPT ![j] = e] \in Seq(Dm!Entry)
          /\ DOMAIN [view EXCEPT ![j] = e] = DOMAIN view
          /\ \A k \in DOMAIN view : [view EXCEPT ![j] = e][k] = IF k = j THEN e ELSE view[k]
      BY <1>2, <2>2, <3>2, Replaced DEF Listed
    <3>9. PICK v : v = [view EXCEPT ![j] = e]
      OBVIOUS
    <3>10. \A k \in DOMAIN v : (\E n \in DOMAIN view : v[k] = view[n]) \/ v[k] = e
      BY <3>8, <3>9
    <3>11. \A k \in DOMAIN v : (\E n \in DOMAIN view : v[k] = view[n]) \/ Good(v[k])'
      BY <2>3, <3>10
    <3>12. view' = v /\ Once(v) /\ v \in Seq(Dm!Entry)
      BY <3>5, <3>7, <3>8, <3>9
    <3> QED
      BY <1>2, <3>11, <3>12, ListedStays
  <2> QED
    BY <2>4, <2>5, <2>6
<1> QED
  BY <1>3, <1>4

\* A bubble at the end.
LEMMA BubbleShown ==
  ASSUME DmInv, DmOnward, NEW c \in Cid, call[c] \in {"none", "uploading"},
         view' = Append(view, Dm!Bubble(c)), call'[c] = "sealing",
         sendTo'[c] = active' \/ c \in strayed'
  PROVE  Listed'
<1> PICK e : e = Dm!Bubble(c)
  OBVIOUS
<1>1. e \in Dm!Entry /\ e.id = 0 /\ e.cid = c /\ c # None
  <2>1. 0 \in 0..MaxMsgs
    BY DmViewAssumption
  <2> QED
    BY <2>1, DmViewAssumption DEF Dm!Bubble, Dm!Entry
<1>2. SendsTrue /\ Listed /\ 0 \notin DOMAIN stored
  BY StoredIds DEF DmInv, SendsTrue
<1>3. Unlike(view, e, DOMAIN view)
  <2>1. ASSUME NEW k \in DOMAIN view  PROVE view[k].cid # c
    <3>1. Good(view[k])
      BY <1>2 DEF Listed
    <3> QED
      BY <1>1, <1>2, <3>1 DEF Good, SendsTrue
  <2> QED
    BY <1>1, <2>1 DEF Unlike
<1>4. Good(e)'
  <2>1. \A i \in opaque' : ~Means(e, i)'
    <3>1. \A i \in DOMAIN stored : stored'[i] = stored[i] /\ stored[i].cid # c
      BY <1>1, <1>2 DEF DmOnward, DmGrown, SendsTrue
    <3> QED
      BY <1>1, <1>2, <3>1 DEF Means, DmOnward, SendsTrue
  <2> QED
    BY <1>1, <2>1 DEF Good, Readable
<1>5. /\ Append(view, e) \in Seq(Dm!Entry)
      /\ DOMAIN Append(view, e) = DOMAIN view \cup {Len(view) + 1}
      /\ \A k \in DOMAIN view : Append(view, e)[k] = view[k]
      /\ Append(view, e)[Len(view) + 1] = e
  BY <1>1, <1>2, Longer DEF Listed
<1>6. Once(Append(view, e))
  BY <1>1, <1>2, <1>3, OnceLonger DEF Listed
<1> PICK v : v = Append(view, e)
  OBVIOUS
<1>7. \A k \in DOMAIN v : (\E j \in DOMAIN view : v[k] = view[j]) \/ v[k] = e
  BY <1>5
<1>8. \A k \in DOMAIN v : (\E j \in DOMAIN view : v[k] = view[j]) \/ Good(v[k])'
  BY <1>4, <1>7
<1>9. view' = v /\ v \in Seq(Dm!Entry) /\ Once(v)
  BY <1>5, <1>6
<1> QED
  BY <1>2, <1>8, <1>9, ListedStays

\* A bubble taken away.
LEMMA BubbleDropped ==
  ASSUME DmInv, DmOnward, NEW c \in Cid, view' = Dm!DropBubble(c)
  PROVE  Listed'
<1> PICK K \in SUBSET DOMAIN view :
      K = {k \in DOMAIN view : ~(view[k].id = 0 /\ view[k].cid = c)}
  OBVIOUS
<1> PICK v : v = Kept(view, K)
  OBVIOUS
<1>1. view' = v
  BY DmKept DEF Dm!DropBubble
<1>2. SendsTrue /\ Listed
  BY DEF DmInv
<1>3. /\ v \in Seq(Dm!Entry) /\ Once(v)
      /\ \A n \in DOMAIN v : \E k \in K : v[n] = view[k]
  BY <1>2, OnceKept DEF Listed
<1>4. \A n \in DOMAIN v : \E k \in DOMAIN view : v[n] = view[k]
  BY <1>3
<1> QED
  BY <1>1, <1>2, <1>3, <1>4, ListedStays

\* The bubble that takes the id of its message.
LEMMA BubbleConfirmed ==
  ASSUME DmInv, DmOnward, NEW c \in acks, view' = Dm!Confirm(c), Dm!IdOf(c) \notin Dm!Ids(view)
  PROVE  Listed'
<1>1. SendsTrue /\ Listed /\ c \in Cid /\ c # None
  BY DmViewAssumption DEF DmInv, SendsTrue
<1> PICK i : i = Dm!IdOf(c)
  OBVIOUS
<1>2. i \in DOMAIN stored /\ stored[i].cid = c
  BY <1>1 DEF Dm!IdOf, SendsTrue
<1>3. i \in Dm!Id /\ i # 0 /\ i \in 0..MaxMsgs
  <2>1. i \in Dm!Id /\ i # 0
    BY <1>1, <1>2, StoredIds DEF SendsTrue
  <2> QED
    BY <2>1, DmViewAssumption DEF Dm!Id
<1> PICK v : v = Dm!Confirm(c)
  OBVIOUS
<1>4. v = [k \in DOMAIN view |-> IF view[k].id = 0 /\ view[k].cid = c THEN [view[k] EXCEPT !.id = i]
                                ELSE view[k]]
  BY DEF Dm!Confirm
<1>5. ASSUME NEW k \in DOMAIN view, view[k].id = 0, view[k].cid = c
      PROVE  v[k] \in Dm!Entry /\ v[k].id = i /\ v[k].cid = c /\ v[k].ok = view[k].ok
  <2>1. view[k] \in Dm!Entry
    BY <1>1, <1>5 DEF Listed
  <2>2. v[k] = [view[k] EXCEPT !.id = i]
    BY <1>4, <1>5
  <2> QED
    BY <1>3, <1>5, <2>1, <2>2 DEF Dm!Entry
<1>6. ASSUME NEW k \in DOMAIN view, ~(view[k].id = 0 /\ view[k].cid = c)
      PROVE  v[k] = view[k] /\ v[k] \in Dm!Entry /\ view[k].id # i
  <2>1. v[k] = view[k] /\ view[k] \in Dm!Entry
    BY <1>1, <1>4, <1>6 DEF Listed
  <2> QED
    BY <2>1 DEF Dm!Ids
<1>7. v \in Seq(Dm!Entry) /\ DOMAIN v = DOMAIN view
  <2>1. DOMAIN view = 1..Len(view) /\ Len(view) \in Nat
    BY <1>1 DEF Listed
  <2>2. DOMAIN v = 1..Len(view)
    BY <1>4, <2>1
  <2>3. \A k \in 1..Len(view) : v[k] \in Dm!Entry
    BY <1>5, <1>6, <2>1
  <2>4. v \in [1..Len(view) -> Dm!Entry]
    BY <1>4, <2>1, <2>3
  <2> QED
    BY <2>1, <2>4, AreLists
<1>8. Once(v)
  <2>1. ASSUME NEW j \in DOMAIN view, NEW k \in DOMAIN view, j # k
        PROVE  /\ v[j].id # v[k].id \/ v[j].id = 0
               /\ v[j].cid # v[k].cid \/ v[j].cid = None
    <3>1. /\ view[j].id # view[k].id \/ view[j].id = 0
          /\ view[j].cid # view[k].cid \/ view[j].cid = None
      BY <1>1, <2>1 DEF Listed, Once
    <3> QED
      BY <1>1, <1>5, <1>6, <3>1
  <2> QED
    BY <1>7, <2>1 DEF Once
<1>9. ASSUME NEW k \in DOMAIN view, view[k].id = 0, view[k].cid = c
      PROVE  Good(v[k])'
  <2> PICK e : e = v[k]
    OBVIOUS
  <2>1. Good(view[k])
    BY <1>1 DEF Listed
  <2>2. e.id = i /\ e.cid = c /\ e.ok = view[k].ok
    BY <1>5, <1>9
  <2>3. Readable(e)'
    <3>1. view[k].ok /\ i \in opaque => i \in relisted
      BY <1>2, <1>9, <2>1 DEF Good, Readable, Means
    <3> QED
      BY <1>3, <2>2, <3>1 DEF Readable, Means, DmOnward
  <2>4. stored[i].conv = active \/ c \in strayed
    <3>1. sendTo[c] = active \/ c \in strayed
      BY <1>9, <2>1 DEF Good
    <3> QED
      BY <1>1, <1>2, <3>1 DEF SendsTrue
  <2>5. /\ i \in DOMAIN stored' /\ stored'[i].cid = c
        /\ stored'[i].conv = active' \/ c \in strayed'
    BY <1>2, <2>4 DEF DmOnward, DmGrown
  <2>6. Good(e)'
    BY <1>3, <2>2, <2>3, <2>5 DEF Good, Dm!Astray
  <2> QED
    BY <2>6
<1>10. \A k \in DOMAIN v : (\E j \in DOMAIN view : v[k] = view[j]) \/ Good(v[k])'
  BY <1>6, <1>7, <1>9
<1>11. view' = v
  OBVIOUS
<1> QED
  BY <1>1, <1>7, <1>8, <1>10, <1>11, ListedStays

\* The shred: what stays listed is on the screen.
LEMMA ShredListed ==
  ASSUME DmInv, Dm!Shred
  PROVE  Listed'
<1>1. /\ UNCHANGED <<stored, view, active, call, sendTo, misplaced, strayed>>
      /\ opaque' = opaque \cup Dm!OfConv(active)
      /\ relisted' = relisted \cup (Dm!OfConv(active) \cap Dm!OnTheWay)
  BY DEF Dm!Shred, Dm!sends
<1>2. SendsTrue /\ Listed /\ Dm!OfConv(active) \subseteq DOMAIN stored
  BY DEF DmInv, Dm!OfConv
<1> PICK v : v = view
  OBVIOUS
<1>3. ASSUME NEW k \in DOMAIN v  PROVE Good(v[k])'
  <2> PICK e : e = v[k]
    OBVIOUS
  <2>0. e = view[k] /\ k \in DOMAIN view
    BY <1>3
  <2>1. Good(e)
    BY <1>2, <2>0 DEF Listed
  <2>2. ASSUME NEW i \in Dm!OfConv(active), Means(e, i)  PROVE i \in Dm!OnTheWay
    <3>1. CASE e.id = i
      <4>1. i \in Dm!Ids(view)
        BY <2>0, <3>1 DEF Dm!Ids
      <4> QED
        BY <4>1 DEF Dm!OnTheWay
    <3>2. CASE e.id = 0 /\ e.cid = stored[i].cid
      <4>1. e.cid \in {view[j].cid : j \in DOMAIN view} \ {None}
        BY <2>0, <2>1, <3>2, DmViewAssumption DEF Good
      <4>2. i \in DOMAIN stored
        BY <1>2, <2>2
      <4> QED
        BY <3>2, <4>1, <4>2 DEF Dm!OnTheWay
    <3> QED
      BY <2>2, <3>1, <3>2 DEF Means
  <2>3. Readable(e)'
    BY <1>1, <2>1, <2>2 DEF Good, Readable, Means
  <2>4. Good(e)'
    BY <1>1, <2>1, <2>3 DEF Good, Dm!Astray
  <2> QED
    BY <2>4
<1>4. view' = v /\ v \in Seq(Dm!Entry) /\ Once(v)
  BY <1>1, <1>2 DEF Listed
<1> QED
  BY <1>3, <1>4 DEF Listed

\* The list without repetition, at each step.
LEMMA ListedKept ==
  ASSUME DmInv, [Dm!Next]_Dm!vars
  PROVE  Listed'
<1> USE DEF Dm!server, Dm!link, Dm!sends, Dm!hist, Dm!index
<1>1. SendsTrue /\ Listed
  BY DEF DmInv
<1>2. ASSUME NEW c \in Conv, Dm!Open(c)  PROVE Listed'
  BY <1>2, EmptyListed DEF Dm!Open, Dm!Render
<1>3. CASE Dm!Back
  BY <1>3, EmptyListed DEF Dm!Back, Dm!Render
<1>4. CASE Dm!Shred
  BY <1>4, ShredListed
<1>5. CASE Dm!ShredDone
  BY <1>5, EmptyListed DEF Dm!ShredDone, Dm!Render
<1>6. ASSUME DmOnward  PROVE Listed'
  <2>1. ASSUME view' = view  PROVE Listed'
    BY <1>1, <1>6, <2>1, ListedStays DEF Listed
  <2>2. ASSUME NEW l \in loads, Dm!LoadApplied(l)  PROVE Listed'
    BY <1>6, <2>2, ShownLoad
  <2>3. ASSUME NEW o \in opening, Dm!FrameShown(o)  PROVE Listed'
    BY <1>6, <2>3, ShownFrame
  <2>4. ASSUME NEW c \in Cid, Dm!Compose(c)  PROVE Listed'
    <3>1. /\ call[c] = "none" /\ view' = Append(view, Dm!Bubble(c)) /\ active' = active
          /\ call' = [call EXCEPT ![c] = "sealing"] /\ sendTo' = [sendTo EXCEPT ![c] = active]
      BY <2>4 DEF Dm!Compose, Dm!Render
    <3>2. call'[c] = "sealing" /\ sendTo'[c] = active'
      BY <1>1, <3>1 DEF SendsTrue
    <3> QED
      BY <1>6, <3>1, <3>2, BubbleShown
  <2>5. ASSUME NEW c \in Cid, Dm!Uploaded(c)  PROVE Listed'
    <3>1. /\ call[c] = "uploading" /\ view' = Append(view, Dm!Bubble(c)) /\ active' = active
          /\ call' = [call EXCEPT ![c] = "sealing"] /\ sendTo' = sendTo
          /\ strayed' = IF sendTo[c] = active THEN strayed ELSE strayed \cup {c}
      BY <2>5 DEF Dm!Uploaded, Dm!Render
    <3>2. call'[c] = "sealing" /\ (sendTo'[c] = active' \/ c \in strayed')
      BY <1>1, <3>1 DEF SendsTrue
    <3> QED
      BY <1>6, <3>1, <3>2, BubbleShown
  <2>6. ASSUME NEW c \in Cid, Dm!SealFails(c) \/ Dm!AckFails(c)  PROVE Listed'
    <3>1. view' = Dm!DropBubble(c)
      BY <2>6 DEF Dm!SealFails, Dm!AckFails, Dm!Render
    <3> QED
      BY <1>6, <3>1, BubbleDropped
  <2>7. ASSUME NEW c \in Cid, Dm!AckOk(c)  PROVE Listed'
    <3>1. c \in acks /\ (view' = view \/ view' = Dm!Confirmed(c))
      BY <2>7 DEF Dm!AckOk, Dm!Render
    <3>2. CASE Dm!IdOf(c) \in Dm!Ids(view) /\ view' = Dm!Confirmed(c)
      <4>1. view' = Dm!DropBubble(c)
        BY <3>2 DEF Dm!Confirmed
      <4> QED
        BY <1>6, <4>1, BubbleDropped
    <3>3. CASE Dm!IdOf(c) \notin Dm!Ids(view) /\ view' = Dm!Confirmed(c)
      <4>1. view' = Dm!Confirm(c)
        BY <3>3 DEF Dm!Confirmed
      <4> QED
        BY <1>6, <3>1, <3>3, <4>1, BubbleConfirmed
    <3> QED
      BY <2>1, <3>1, <3>2, <3>3
  <2>8. CASE UNCHANGED Dm!vars
    BY <2>1, <2>8 DEF Dm!vars
  <2>9. CASE Dm!Next
    <3>1. \/ \E c \in Conv : Dm!Open(c)
          \/ Dm!Back \/ Dm!Shred \/ Dm!ShredDone
          \/ \E l \in loads : Dm!LoadApplied(l)
          \/ \E o \in opening : Dm!FrameShown(o)
          \/ \E c \in Cid : \/ Dm!Compose(c) \/ Dm!Uploaded(c) \/ Dm!SealFails(c) \/ Dm!AckFails(c)
                            \/ Dm!AckOk(c)
          \/ view' = view
      BY <2>9 DEF Dm!Next, Dm!PeerPosts, Dm!LoadReady, Dm!LoadFails, Dm!FrameComes, Dm!Disconnect,
         Dm!Connect, Dm!Upload, Dm!UploadFails, Dm!Emit, Dm!ServerStores
    <3> QED
      BY <1>2, <1>3, <1>4, <1>5, <2>1, <2>2, <2>3, <2>4, <2>5, <2>6, <2>7, <3>1
  <2> QED
    BY <2>8, <2>9
<1> QED
  BY <1>2, <1>3, <1>4, <1>6, DmMoves

-----------------------------------------------------------------------------
(* The index and the preview cache. *)

\* Rendering, by what it does to the index.
LEMMA RenderIs ==
  ASSUME NEW v, NEW c, Dm!Render(v, c)
  PROVE  Rendered
BY DEF Dm!Render, Rendered

\* The shred: what it makes opaque is filed nowhere else, or astray.
LEMMA FiledShred ==
  ASSUME DmInv, SendsTrue', Dm!Shred
  PROVE  Filed' /\ Previewed'
<1>1. /\ UNCHANGED <<stored, misplaced, strayed>>
      /\ opaque' = opaque \cup Dm!OfConv(active)
      /\ relisted \subseteq relisted'
      /\ docs' = [i \in Dm!Id |-> IF docs[i] = active THEN None ELSE docs[i]]
      /\ preview' = [preview EXCEPT ![active] = 0]
      /\ active # None
  BY DEF Dm!Shred, Dm!Purge
<1>2. /\ SendsTrue /\ Filed /\ Previewed /\ active \in Conv
      /\ \A i \in Dm!OfConv(active) : i \in DOMAIN stored /\ stored[i].conv = active
      /\ DOMAIN stored \subseteq Dm!Id /\ 0 \notin Dm!Id
  BY <1>1, StoredIds DEF DmInv, SendsTrue, Dm!OfConv
<1>3. \A i \in Dm!Id : docs'[i] \in {None, docs[i]} /\ docs'[i] # active
  BY <1>1
<1>4. \A i \in DOMAIN stored : Dm!Astray(i)' <=> Dm!Astray(i)
  BY <1>1 DEF Dm!Astray
<1>5. ASSUME NEW i \in opaque'
      PROVE  docs'[i] = None \/ i \in relisted' \/ Dm!Astray(i)'
  <2>1. i \in DOMAIN stored /\ i \in Dm!Id
    BY <1>1, <1>2, <1>5 DEF SendsTrue
  <2>2. CASE i \in opaque
    BY <1>1, <1>2, <1>3, <1>4, <2>1, <2>2 DEF Filed
  <2>3. CASE i \in Dm!OfConv(active)
    <3>1. stored[i].conv = active
      BY <1>2, <2>3
    <3> QED
      BY <1>2, <1>3, <1>4, <2>1, <3>1 DEF Filed
  <2> QED
    BY <1>1, <1>5, <2>2, <2>3
<1>6. ASSUME NEW i \in DOMAIN stored'
      PROVE  docs'[i] \in {None, stored'[i].conv} \/ Dm!Astray(i)'
  BY <1>1, <1>2, <1>3, <1>4 DEF Filed
<1>7. Filed'
  <2>1. docs' \in [Dm!Id -> Conv \cup {None}]
    BY <1>1, <1>2 DEF Filed
  <2>2. \A i \in Dm!Id \ DOMAIN stored' : docs'[i] = None
    BY <1>1, <1>2, <1>3 DEF Filed
  <2> QED
    BY <1>5, <1>6, <2>1, <2>2 DEF Filed
<1>8. ASSUME NEW c \in Conv
      PROVE  /\ preview'[c] # 0 => stored'[preview'[c]].conv = c
             /\ preview'[c] \in opaque' => preview'[c] \in relisted'
  <2>1. CASE c = active
    <3>1. preview'[c] = 0
      BY <1>1, <1>2, <2>1 DEF Previewed
    <3> QED
      BY <1>1, <1>2, <3>1 DEF SendsTrue
  <2>2. CASE c # active
    <3>1. preview'[c] = preview[c]
      BY <1>1, <1>2, <2>2 DEF Previewed
    <3>2. preview[c] # 0 => preview[c] \notin Dm!OfConv(active)
      BY <1>2, <2>2 DEF Previewed
    <3> QED
      BY <1>1, <1>2, <3>1, <3>2 DEF Previewed
  <2> QED
    BY <2>1, <2>2
<1>9. Previewed'
  <2>1. preview' \in [Conv -> {0} \cup DOMAIN stored']
    BY <1>1, <1>2 DEF Previewed
  <2> QED
    BY <1>8, <2>1 DEF Previewed
<1> QED
  BY <1>7, <1>9

\* The index, at each step.
LEMMA FiledKept ==
  ASSUME DmInv, [Dm!Next]_Dm!vars
  PROVE  Filed'
<1> USE DEF Dm!server, Dm!link, Dm!sends, Dm!hist, Dm!index
<1>1. SendsTrue' /\ Listed' /\ DmGrown
  BY SendsStay, ListedKept, DmGrows
<1>2. ASSUME Rendered, UNCHANGED opaque, misplaced \subseteq misplaced', strayed \subseteq strayed',
             relisted \subseteq relisted'
      PROVE  Filed'
  BY <1>1, <1>2, RenderedFiled
<1>3. ASSUME UNCHANGED <<docs, opaque>>, misplaced \subseteq misplaced', strayed \subseteq strayed',
             relisted \subseteq relisted'
      PROVE  Filed'
  BY <1>1, <1>3, QuietFiled
<1>4. CASE Dm!Shred
  BY <1>1, <1>4, FiledShred
<1>5. ASSUME NEW o \in opening, Dm!FrameShown(o)  PROVE Filed'
  <2>1. CASE Dm!ForList(o)
    BY <1>2, <1>5, <2>1, RenderIs DEF Dm!FrameShown
  <2>2. CASE ~Dm!ForList(o)
    BY <1>3, <1>5, <2>2 DEF Dm!FrameShown
  <2> QED
    BY <2>1, <2>2
<1>6. ASSUME NEW c \in Cid, Dm!AckOk(c)  PROVE Filed'
  <2>1. CASE call[c] = "waiting"
    BY <1>2, <1>6, <2>1, RenderIs DEF Dm!AckOk
  <2>2. CASE call[c] # "waiting"
    BY <1>3, <1>6, <2>2 DEF Dm!AckOk
  <2> QED
    BY <2>1, <2>2
<1>7. ASSUME \/ \E c \in Conv : Dm!Open(c)
             \/ Dm!Back \/ Dm!ShredDone
             \/ \E l \in loads : Dm!LoadApplied(l)
             \/ \E c \in Cid : Dm!Compose(c) \/ Dm!Uploaded(c) \/ Dm!SealFails(c) \/ Dm!AckFails(c)
      PROVE  Filed'
  <2>1. /\ UNCHANGED opaque /\ misplaced \subseteq misplaced' /\ strayed \subseteq strayed'
        /\ relisted \subseteq relisted'
    BY <1>7 DEF Dm!Open, Dm!Back, Dm!ShredDone, Dm!LoadApplied, Dm!Compose, Dm!Uploaded, Dm!SealFails,
       Dm!AckFails
  <2>2. Rendered
    BY <1>7, RenderIs DEF Dm!Open, Dm!Back, Dm!ShredDone, Dm!LoadApplied, Dm!Compose, Dm!Uploaded,
       Dm!SealFails, Dm!AckFails
  <2> QED
    BY <1>2, <2>1, <2>2
<1>8. CASE UNCHANGED Dm!vars
  BY <1>3, <1>8 DEF Dm!vars
<1>9. CASE Dm!Next
  <2>1. \/ \E c \in Conv : Dm!Open(c)
        \/ Dm!Back \/ Dm!Shred \/ Dm!ShredDone
        \/ \E l \in loads : Dm!LoadApplied(l)
        \/ \E o \in opening : Dm!FrameShown(o)
        \/ \E c \in Cid : \/ Dm!Compose(c) \/ Dm!Uploaded(c) \/ Dm!SealFails(c) \/ Dm!AckFails(c)
                          \/ Dm!AckOk(c)
        \/ UNCHANGED <<docs, opaque, misplaced, strayed, relisted>>
    BY <1>9 DEF Dm!Next, Dm!PeerPosts, Dm!LoadReady, Dm!LoadFails, Dm!FrameComes, Dm!Disconnect,
       Dm!Connect, Dm!Upload, Dm!UploadFails, Dm!Emit, Dm!ServerStores
  <2> QED
    BY <1>3, <1>4, <1>5, <1>6, <1>7, <2>1
<1> QED
  BY <1>8, <1>9

\* The preview cache, at each step.
LEMMA PreviewedKept ==
  ASSUME DmInv, [Dm!Next]_Dm!vars
  PROVE  Previewed'
<1> USE DEF Dm!server, Dm!link, Dm!sends, Dm!hist, Dm!index
<1>1. SendsTrue /\ SendsTrue' /\ Previewed /\ DmGrown
  BY SendsStay, DmGrows DEF DmInv
<1>2. CASE Dm!Shred
  BY <1>1, <1>2, FiledShred
<1>3. ASSUME UNCHANGED <<opaque, preview>>, relisted \subseteq relisted'
      PROVE  Previewed'
  BY <1>1, <1>3, PreviewKept
<1>4. ASSUME UNCHANGED <<opaque, relisted>>, NEW c \in Conv, NEW i \in {0} \cup DOMAIN stored,
             preview' = [preview EXCEPT ![c] = i],
             i # 0 => stored[i].conv = c /\ (i \in opaque => i \in relisted)
      PROVE  Previewed'
  <2>1. preview' \in [Conv -> {0} \cup DOMAIN stored']
    BY <1>1, <1>4 DEF Previewed, DmGrown
  <2>2. \A d \in Conv : preview'[d] = IF d = c THEN i ELSE preview[d]
    BY <1>1, <1>4 DEF Previewed
  <2>3. \A d \in Conv : \/ preview'[d] \in {0, preview[d]}
                        \/ /\ preview'[d] \in DOMAIN stored /\ stored[preview'[d]].conv = d
                           /\ preview'[d] \in opaque => preview'[d] \in relisted'
    BY <1>4, <2>2
  <2> QED
    BY <1>1, <1>4, <2>1, <2>3, PreviewedStays
<1>5. ASSUME NEW l \in loads, Dm!LoadApplied(l)  PROVE Previewed'
  <2>1. /\ preview' = IF l.rows # <<>> /\ Dm!Last(l.rows).ok
                        THEN [preview EXCEPT ![l.conv] = Dm!Last(l.rows).id] ELSE preview
        /\ UNCHANGED <<opaque, relisted>>
    BY <1>5 DEF Dm!LoadApplied
  <2>2. CASE l.rows # <<>> /\ Dm!Last(l.rows).ok
    <3>1. DmLoadTrue(l)
      BY DEF DmInv, Awaited
    <3>2. Len(l.rows) \in DOMAIN l.rows /\ Dm!Last(l.rows) = l.rows[Len(l.rows)]
      BY <2>2, <3>1 DEF DmLoadTrue, Dm!Last
    <3> PICK e : e = l.rows[Len(l.rows)]
      OBVIOUS
    <3>3. /\ e.id \in DOMAIN stored /\ stored[e.id].conv = l.conv /\ l.conv \in Conv
          /\ e.ok => (e.id \in opaque => e.id \in relisted)
      BY <3>1, <3>2 DEF DmLoadTrue, Readable, Means
    <3>4. preview' = [preview EXCEPT ![l.conv] = e.id] /\ e.ok
      BY <2>1, <2>2, <3>2
    <3> QED
      BY <1>4, <2>1, <3>3, <3>4
  <2>3. CASE ~(l.rows # <<>> /\ Dm!Last(l.rows).ok)
    <3>1. preview' = preview
      BY <2>1, <2>3
    <3> QED
      BY <1>3, <2>1, <3>1
  <2> QED
    BY <2>2, <2>3
<1>6. ASSUME NEW o \in opening, Dm!FrameShown(o)  PROVE Previewed'
  <2>1. /\ preview' = IF o.ok THEN [preview EXCEPT ![stored[o.id].conv] = o.id] ELSE preview
        /\ UNCHANGED <<opaque, relisted>>
    BY <1>6 DEF Dm!FrameShown
  <2>2. DmFrameTrue(o)
    BY DEF DmInv, Awaited
  <2>3. o.id \in DOMAIN stored /\ stored[o.id] \in Rec
    BY <1>1, <2>2 DEF DmFrameTrue, SendsTrue
  <2>4. stored[o.id].conv \in Conv
    BY <2>3 DEF Rec
  <2> QED
    BY <1>3, <1>4, <2>1, <2>2, <2>3, <2>4 DEF DmFrameTrue
<1>7. ASSUME NEW c \in Cid, Dm!Emit(c)  PROVE Previewed'
  <2>1. sendTo[c] \in Conv
    BY <1>1, <1>7 DEF Dm!Emit, SendsTrue
  <2>2. preview' = [preview EXCEPT ![sendTo[c]] = 0] /\ UNCHANGED <<opaque, relisted>>
    BY <1>7 DEF Dm!Emit
  <2> QED
    BY <1>4, <2>1, <2>2
<1>8. CASE UNCHANGED Dm!vars
  BY <1>3, <1>8 DEF Dm!vars
<1>9. CASE Dm!Next
  <2>1. \/ Dm!Shred
        \/ \E l \in loads : Dm!LoadApplied(l)
        \/ \E o \in opening : Dm!FrameShown(o)
        \/ \E c \in Cid : Dm!Emit(c)
        \/ UNCHANGED <<preview, opaque, relisted>>
    BY <1>9 DEF Dm!Next, Dm!Open, Dm!Back, Dm!PeerPosts, Dm!LoadReady, Dm!LoadFails, Dm!FrameComes,
       Dm!Disconnect, Dm!Connect, Dm!Compose, Dm!Upload, Dm!Uploaded, Dm!UploadFails, Dm!SealFails,
       Dm!ServerStores, Dm!AckOk, Dm!AckFails, Dm!ShredDone
  <2> QED
    BY <1>2, <1>3, <1>5, <1>6, <1>7, <2>1
<1> QED
  BY <1>8, <1>9

-----------------------------------------------------------------------------
\* The page as it mounts satisfies the invariant,
LEMMA DmStarts == Dm!Init => DmInv
<1> SUFFICES ASSUME Dm!Init  PROVE DmInv
  OBVIOUS
<1> USE DEF Dm!Init
<1>1. /\ <<>> \in Seq(Rec) /\ <<>> \in Seq(Dm!Entry) /\ DOMAIN <<>> = {} /\ Len(<<>>) = 0
      /\ 0 <= MaxMsgs /\ 0 \in 0..MaxOpens
  BY DmViewAssumption
<1>2. SendsTrue
  BY <1>1 DEF SendsTrue
<1>3. Listed
  BY <1>1 DEF Listed, Once
<1>4. Awaited
  BY DEF Awaited
<1>5. Filed
  BY <1>1 DEF Filed
<1>6. Previewed
  BY <1>1 DEF Previewed
<1> QED
  BY <1>2, <1>3, <1>4, <1>5, <1>6 DEF DmInv

\* and each step keeps it.
LEMMA DmKeeps == DmSpec => []DmInv
<1>1. DmInv /\ [Dm!Next]_Dm!vars => DmInv'
  BY SendsStay, ListedKept, AwaitedKept, FiledKept, PreviewedKept DEF DmInv
<1> QED
  BY <1>1, DmStarts, PTL DEF DmSpec, Dm!Spec

\* In whatever order an own message's ack, its frame and a history come, DirectMessagesPage
\* lists no message twice, nor an own one beside its bubble.
THEOREM DmListSoundAlways == DmSpec => []DmListSound
<1>1. DmInv => DmListSound
  BY DmInvEnough DEF DmListSound
<1> QED
  BY <1>1, DmKeeps, PTL

\* DirectMessagesPage shows a message under the conversation it was posted to, unless it was
\* still being decrypted or uploaded when openConversation moved on to another.
THEOREM RightConversationAlways == DmSpec => []RightConversation
<1>1. DmInv => RightConversation
  BY DmInvEnough DEF RightConversation
<1> QED
  BY <1>1, DmKeeps, PTL

\* The page's index files a message under its own conversation, and what shredConversation has
\* made unreadable stays out of index and preview cache, but for what was on screen or already
\* decrypted at the time.
THEOREM ShreddedUnindexedAlways == DmSpec => []ShreddedUnindexed
<1>1. DmInv => ShreddedUnindexed
  BY DmInvEnough DEF ShreddedUnindexed
<1> QED
  BY <1>1, DmKeeps, PTL
=============================================================================
