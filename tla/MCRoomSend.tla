----------------------------- MODULE MCRoomSend -----------------------------
(***************************************************************************)
(* RoomSend for TLC: who may submit what, and which constants are alike.   *)
(***************************************************************************)
EXTENDS RoomSend, TLC

\* Every user sends every client id to every room.
Keyed == [user : User, room : Room, cid : ClientId]

\* Sends without a client id as well.
Mixed == [user : User, room : Room, cid : ClientId \cup {NoId}]

WorkersAlike == Permutations(Worker)
=============================================================================
