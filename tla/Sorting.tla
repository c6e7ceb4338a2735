------------------------------ MODULE Sorting ------------------------------
(***************************************************************************)
(* What sort.Slice makes of a set, and a loop that meets its elements in   *)
(* order.  No recursion: a place is a number of elements.                  *)
(***************************************************************************)
EXTENDS Integers, FiniteSets

\* The elements of S when R says which goes before which: each at the place
\* that as many others of S as are before it leave it.
InOrder(S, R) ==
    [k \in 1..Cardinality(S) |->
        CHOOSE x \in S : Cardinality({y \in S : <<y, x>> \in R}) = k - 1]
=============================================================================
