------------------------------ MODULE Ordering ------------------------------
(***************************************************************************)
(* Sets of places in a sequence put in order.  An order is given as a set  *)
(* of pairs.  What SelectSeq and SetToSortSeq do for an operator is done   *)
(* here for a set, about which one can reason.                             *)
(***************************************************************************)
EXTENDS Naturals, Sequences, FiniteSets

\* The elements of I, each after those it follows in R.
InOrder(I, R) ==
    [n \in 1..Cardinality(I) |->
        CHOOSE i \in I : Cardinality({j \in I : <<j, i>> \in R}) = n - 1]

\* The elements of s at the places that `order` lists.
Pick(s, order) == [n \in DOMAIN order |-> s[order[n]]]

Less(I) == {p \in I \X I : p[1] < p[2]}

\* The elements of s at the places I, in the order they have in s.
At(s, I) == Pick(s, InOrder(I, Less(I)))

=============================================================================
