--------------------------- MODULE MCRoomMembership ---------------------------
(***************************************************************************)
(* RoomMembership for TLC: users and requests are alike.                   *)
(***************************************************************************)
EXTENDS RoomMembership, TLC

Alike == Permutations(User) \cup Permutations(Request)
=============================================================================
