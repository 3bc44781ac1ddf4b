---------------------------- MODULE MCEndToEnd ----------------------------
(***************************************************************************)
(* EndToEnd for TLC.                                                       *)
(***************************************************************************)
EXTENDS EndToEnd, TLC

Alike == Permutations(User) \cup Permutations(Tab)
=============================================================================
