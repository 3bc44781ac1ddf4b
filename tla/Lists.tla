------------------------------- MODULE Lists --------------------------------
(***************************************************************************)
(* Lists in an order: sets of positions sorted, elements of a list kept.   *)
(* In first-order form, where SelectSeq and SetToSortSeq recur, so that    *)
(* the provers can reason about them.                                      *)
(***************************************************************************)
EXTENDS Naturals, Sequences, FiniteSets

\* A finite set in an order; upTo gives for each element those that do not come after it.
Nth(upTo, n) == CHOOSE i \in DOMAIN upTo : Cardinality(upTo[i]) = n
Ranked(upTo) == [n \in 1..Cardinality(DOMAIN upTo) |-> Nth(upTo, n)]

Ascending(S) == Ranked([i \in S |-> {j \in S : j <= i}])

\* What a list holds at some of its positions, in its order.
Kept(s, K) == LET places == Ascending(K) IN [n \in DOMAIN places |-> s[places[n]]]
=============================================================================
