--------------------------- MODULE RoomMembership ---------------------------
(***************************************************************************)
(* Who belongs to a room, and as what: the operations of ChatroomService   *)
(* on one room's rows of chatroom_members, and the membership that         *)
(* MessageService.sendDraft records after a message.  Rooms never meet.    *)
(*                                                                         *)
(* Every operation is one transaction at READ COMMITTED and every SQL      *)
(* statement of it a step; a send is two transactions with the message's   *)
(* own between them.  An UPDATE holds its row's lock until the commit.     *)
(* save() of a row with an assigned key is a merge: it SELECTs the row     *)
(* and, at the commit, INSERTs it or UPDATEs the role of the one it found. *)
(* A query returns an entity this transaction has loaded before as it was  *)
(* then, or nothing if its row is gone.  A request may end before its      *)
(* commit (it is refused, a call throws, Postgres aborts it to break a     *)
(* deadlock, the replica is killed).                                       *)
(*                                                                         *)
(* Left out: the room's name, and the read side (listFor, members).        *)
(***************************************************************************)
EXTENDS Naturals

CONSTANTS
  User,       \* those who may know of the room
  Request     \* requests that can be in progress at once, on all replicas

VARIABLES
  kind,      \* the room: not created yet, or is_private
  role,      \* table chatroom_members: each user's role, "none" without a row
  pc,        \* where each request stands
  req,       \* what it was asked to do
  cache,     \* the rows its transaction has loaded, as it loaded them
  hit,       \* did its first UPDATE find a row
  invited,   \* history: the creator, and whoever an owner or admin added
  raced      \* history: a commit changed a role while another request was between
             \* its first read and its end

requests == <<pc, req, cache, hit>>
past     == <<invited, raced>>
vars     == <<kind, role, requests, past>>

Roles == {"none", "member", "admin", "owner"}
Ops   == {"send", "join", "invite", "leave", "changeRole"}
PCs   == {"idle", "look", "require", "target", "merge", "save", "demote", "promote", "remove"}

\* A send, a join and a leave are about the caller's own row; only changeRole names
\* a role.
Asked     == {x \in [op : Ops, actor : User, target : User, as : Roles] :
                /\ x.op \in {"send", "join", "leave"} => x.target = x.actor
                /\ x.op = "changeRole" <=> x.as # "none"}
NotAsked  == [op |-> "none"]
NothingIn == [u \in User |-> "none"]

TypeOK ==
  /\ kind \in {"none", "public", "private"}
  /\ role \in [User -> Roles]
  /\ pc \in [Request -> PCs]
  /\ req \in [Request -> Asked \cup {NotAsked}]
  /\ cache \in [Request -> [User -> Roles]]
  /\ hit \in [Request -> BOOLEAN]
  /\ invited \subseteq User
  /\ raced \in BOOLEAN
  /\ \A q \in Request : pc[q] = "idle" <=> req[q] = NotAsked
  /\ \A q \in Request : pc[q] = "idle" => cache[q] = NothingIn
  /\ kind = "none" => role = NothingIn /\ \A q \in Request : pc[q] = "idle"

Init ==
  /\ kind = "none"
  /\ role = NothingIn
  /\ pc = [q \in Request |-> "idle"]
  /\ req = [q \in Request |-> NotAsked]
  /\ cache = [q \in Request |-> NothingIn]
  /\ hit = [q \in Request |-> FALSE]
  /\ invited = {}
  /\ raced = FALSE

-----------------------------------------------------------------------------
(* The table, and what a transaction sees of it. *)

InRoom(u) == role[u] # "none"

\* A query for u's row: the first answer stays in the persistence context.
Load(q, u) == cache' = [cache EXCEPT ![q][u] = IF @ = "none" THEN role[u] ELSE @]

\* What such a query of q returned.
Seen(q, u) == IF cache[q][u] = "none" THEN role[u] ELSE cache[q][u]

\* The row lock changeRole takes with its first UPDATE.
Locked(q, u) == pc[q] = "promote" /\ hit[q] /\ req[q].actor = u
Free(q, u)   == \A r \in Request \ {q} : ~Locked(r, u)

\* A transaction commits: the table becomes new.
Commit(q, new) ==
  /\ role' = new
  /\ raced' = (raced \/ (new # role /\ \E r \in Request \ {q} : pc[r] # "idle"))

-----------------------------------------------------------------------------
(* Requests. *)

Goto(q, from, to) ==
  /\ pc[q] = from
  /\ pc' = [pc EXCEPT ![q] = to]

Finish(q) ==
  /\ pc' = [pc EXCEPT ![q] = "idle"]
  /\ req' = [req EXCEPT ![q] = NotAsked]
  /\ cache' = [cache EXCEPT ![q] = NothingIn]
  /\ hit' = [hit EXCEPT ![q] = FALSE]

\* create: the room and its owner's row, in one transaction.
Create(u, private) ==
  /\ kind = "none"
  /\ kind' = IF private THEN "private" ELSE "public"
  /\ role' = [role EXCEPT ![u] = "owner"]
  /\ invited' = {u}
  /\ UNCHANGED <<requests, raced>>

Exists == kind # "none"

\* Faulty variant: private rooms are open as well.
OpenToAll(u) == TRUE

\* private rooms grant access to members only
MayEnter(u) == kind = "private" => InRoom(u)

\* What assertAccess is followed by.
AfterAccess == [send |-> "look", join |-> "look", leave |-> "target",
                invite |-> "require", changeRole |-> "require"]

\* A request whose assertAccess succeeds.  A send calls it in a transaction of its
\* own, which ends here.
Access(q, x) ==
  /\ Exists
  /\ Goto(q, "idle", AfterAccess[x.op])
  /\ MayEnter(x.actor)
  /\ req' = [req EXCEPT ![q] = x]
  /\ IF kind = "private" /\ x.op # "send" THEN Load(q, x.actor) ELSE UNCHANGED cache
  /\ UNCHANGED <<kind, role, hit, past>>

Allowed(o) == IF o = "invite" THEN {"owner", "admin"} ELSE {"owner"}

\* requireRole
Require(q) ==
  LET a == req[q].actor
  IN /\ Goto(q, "require", "target")
     /\ InRoom(a)
     /\ Seen(q, a) \in Allowed(req[q].op)
     /\ Load(q, a)
     /\ UNCHANGED <<kind, role, req, hit, past>>

\* ensureMembership (send, join) and invite: only someone without a row is saved.
Look(q) ==
  /\ pc[q] \in {"look", "target"}
  /\ pc[q] = "target" => req[q].op = "invite"
  /\ ~InRoom(req[q].target)
  /\ pc' = [pc EXCEPT ![q] = "merge"]
  /\ UNCHANGED <<kind, role, req, cache, hit, past>>

\* ensureMembership finds the row, and that is all.
AlreadyIn(q) ==
  /\ pc[q] = "look"
  /\ InRoom(req[q].target)
  /\ Finish(q)
  /\ UNCHANGED <<kind, role, past>>

\* save: a row the transaction has not loaded yet is selected.
Merge(q) ==
  /\ Goto(q, "merge", "save")
  /\ Load(q, req[q].target)
  /\ UNCHANGED <<kind, role, req, hit, past>>

\* The flush and the commit of what was merged.
Insert(q) ==
  LET t == req[q].target
  IN /\ pc[q] = "save" /\ cache[q][t] = "none"
     /\ ~InRoom(t)
     /\ Commit(q, [role EXCEPT ![t] = "member"])
     /\ invited' = IF req[q].op = "invite" THEN invited \cup {t} ELSE invited
     /\ Finish(q)
     /\ UNCHANGED kind

Overwrite(q) ==
  LET t == req[q].target
  IN /\ pc[q] = "save" /\ cache[q][t] # "none"
     /\ IF cache[q][t] = "member"
          THEN UNCHANGED <<role, raced>>
          ELSE InRoom(t) /\ Free(q, t) /\ Commit(q, [role EXCEPT ![t] = "member"])
     /\ Finish(q)
     /\ UNCHANGED <<kind, invited>>

\* leave: the caller's role is read; an owner must transfer ownership first.
LeaveAllowed(q) ==
  LET a == req[q].actor
  IN /\ req[q].op = "leave"
     /\ Goto(q, "target", "remove")
     /\ InRoom(a)
     /\ Seen(q, a) # "owner"
     /\ UNCHANGED <<kind, role, req, cache, hit, past>>

\* members.remove, and the commit.
Remove(q) ==
  LET a == req[q].actor
  IN /\ pc[q] = "remove"
     /\ Free(q, a)
     /\ Commit(q, [role EXCEPT ![a] = "none"])
     /\ Finish(q)
     /\ UNCHANGED <<kind, invited>>

\* changeRole: the target is somebody else, and a member.
TargetFound(q) ==
  LET r == req[q]
  IN /\ r.op = "changeRole"
     /\ Goto(q, "target", IF r.as = "owner" THEN "demote" ELSE "promote")
     /\ r.target # r.actor
     /\ InRoom(r.target)
     /\ UNCHANGED <<kind, role, req, cache, hit, past>>

\* setRole(actor, admin), not yet committed.
Demote(q) ==
  LET a == req[q].actor
  IN /\ Goto(q, "demote", "promote")
     /\ Free(q, a)
     /\ hit' = [hit EXCEPT ![q] = InRoom(a)]
     /\ UNCHANGED <<kind, role, req, cache, past>>

\* What the two UPDATEs of changeRole leave; either may have met no row.
\* Faulty variant: the previous owner keeps the role.
OwnerKept(q) ==
  [u \in User |-> IF u = req[q].target /\ InRoom(u) THEN req[q].as ELSE role[u]]
Changed(q) ==
  [u \in User |-> IF u = req[q].target /\ InRoom(u) THEN req[q].as
                  ELSE IF hit[q] /\ u = req[q].actor THEN "admin"
                  ELSE role[u]]

\* setRole(target, as), and the commit.
Promote(q) ==
  /\ pc[q] = "promote"
  /\ Free(q, req[q].target)
  /\ Commit(q, Changed(q))
  /\ Finish(q)
  /\ UNCHANGED <<kind, invited>>

\* The request ends without a commit.
Fail(q) ==
  /\ pc[q] # "idle"
  /\ Finish(q)
  /\ UNCHANGED <<kind, role, past>>

Work(q) ==
  \/ \E x \in Asked : Access(q, x)
  \/ Require(q) \/ Look(q) \/ AlreadyIn(q)
  \/ Merge(q) \/ Insert(q) \/ Overwrite(q)
  \/ LeaveAllowed(q) \/ Remove(q)
  \/ TargetFound(q) \/ Demote(q) \/ Promote(q)
  \/ Fail(q)

Next ==
  \/ \E u \in User, private \in BOOLEAN : Create(u, private)
  \/ \E q \in Request : Work(q)

Spec == Init /\ [][Next]_vars

-----------------------------------------------------------------------------
(* Properties. *)

SoleOwner == \E u \in User : \A v \in User : role[v] = "owner" <=> v = u

\* Checks and writes fit together (ChatroomService:160,165): as long as no request
\* commits while another is between its reads and its end, a room has exactly one
\* owner, through transfers, refusals and requests that die halfway.
SoleOwnerUnlessRaced == kind # "none" /\ ~raced => SoleOwner

\* "Owners must transfer ownership before leaving" (ChatroomService:160-165): a room
\* that was created always has somebody who can change roles. It fails when a leave or a
\* transfer commits between another request's check and its write.
AlwaysAnOwner == kind # "none" => \E u \in User : role[u] = "owner"

\* "Private rooms: membership IS the access control" (V1__init:97-98): whatever
\* races, everybody in a private room was once its creator or added by invite.
NobodyUninvited == kind = "private" => \A u \in User : InRoom(u) => u \in invited

-----------------------------------------------------------------------------
(* The inductive invariant behind the safety properties. *)

\* Which steps belong to which operation.
OpAt(q) == LET o == req[q].op IN
  /\ pc[q] = "look" => o \in {"send", "join"}
  /\ pc[q] \in {"merge", "save"} => o \in {"send", "join", "invite"}
  /\ pc[q] \in {"demote", "promote"} => o = "changeRole"
  /\ pc[q] = "remove" => o = "leave"

\* A transfer, and only a transfer, demotes its actor.
TransferSound(q) ==
  /\ pc[q] = "demote" => req[q].as = "owner"
  /\ hit[q] => pc[q] = "promote" /\ req[q].as = "owner"

\* What a request has read still holds, as long as nobody raced it.
StillTrue(q) == LET r == req[q] IN
  /\ \A u \in User : cache[q][u] # "none" => cache[q][u] = role[u]
  /\ pc[q] = "target" /\ r.op = "changeRole" => role[r.actor] = "owner"
  /\ pc[q] \in {"demote", "promote"} =>
       role[r.actor] = "owner" /\ r.target # r.actor /\ InRoom(r.target)
  /\ pc[q] = "promote" /\ r.as = "owner" => hit[q]
  /\ pc[q] = "remove" => role[r.actor] # "owner"
  /\ pc[q] \in {"merge", "save"} => ~InRoom(r.target)

\* Whoever a private room let in was invited.
ActorInvited(q) == kind = "private" /\ pc[q] # "idle" => req[q].actor \in invited

IInv ==
  /\ TypeOK
  /\ \A q \in Request : OpAt(q) /\ TransferSound(q) /\ ActorInvited(q)
  /\ ~raced => \A q \in Request : StillTrue(q)
  /\ SoleOwnerUnlessRaced
  /\ NobodyUninvited
=============================================================================
