-------------------------- MODULE MCClientDelivery --------------------------
(***************************************************************************)
(* ClientDelivery for TLC.                                                 *)
(***************************************************************************)
EXTENDS ClientDelivery, TLC

Alike == Permutations(Account)
=============================================================================
