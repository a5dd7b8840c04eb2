------------------------------- MODULE Ranking -------------------------------
(***************************************************************************)
(* A finite set as a sequence, in an order that is given as the set of the *)
(* pairs <<c, d>> in which c comes first: what the code's sorts with a key *)
(* do, and its loops that keep some of the elements of a list.             *)
(***************************************************************************)
EXTENDS Integers, Sequences, FiniteSets

\* The elements of S that come before c.
Preceding(S, R, c) == {d \in S : <<d, c>> \in R}

\* The elements of S, in the order R.
InOrder(S, R) ==
  [i \in 1 .. Cardinality(S) |->
     CHOOSE c \in S : Cardinality(Preceding(S, R, c)) = i - 1]

Increasing(S) == {p \in S \X S : p[1] < p[2]}

Ascending(P) == InOrder(P, Increasing(P))

\* The elements of the sequence s at the positions P, in their order.
AtPositions(s, P) ==
  LET positions == Ascending(P) IN [k \in 1 .. Cardinality(P) |-> s[positions[k]]]
=============================================================================
