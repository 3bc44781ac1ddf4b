----------------------------- MODULE MCRoomView -----------------------------
(***************************************************************************)
(* RoomView for TLC.                                                       *)
(***************************************************************************)
EXTENDS RoomView
=============================================================================
