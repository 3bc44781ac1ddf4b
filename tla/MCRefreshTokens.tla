--------------------------- MODULE MCRefreshTokens ---------------------------
(***************************************************************************)
(* RefreshTokens for TLC: requests are alike, and so are browsers.         *)
(***************************************************************************)
EXTENDS RefreshTokens, TLC

Alike == Permutations(Request) \cup Permutations(Browser)
=============================================================================
