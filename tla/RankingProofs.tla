---------------------------- MODULE RankingProofs ----------------------------
(***************************************************************************)
(* What the operators of Ranking return, for every finite set and every    *)
(* strict total order on it: its elements once each, in the order; and for *)
(* positions of a sequence, the subsequence there, which only grows at its *)
(* end when the sequence does.                                             *)
(***************************************************************************)
EXTENDS Ranking, FiniteSetTheorems, TLAPS

\* R orders S strictly and totally.
Orders(R, S) ==
  /\ \A c \in S : <<c, c>> \notin R
  /\ \A c, d, e \in S : <<c, d>> \in R /\ <<d, e>> \in R => <<c, e>> \in R
  /\ \A c, d \in S : c # d => <<c, d>> \in R \/ <<d, c>> \in R

-----------------------------------------------------------------------------
(* The rank of an element is the number of elements that come before it.   *)

Place(S, R, c) == Cardinality(Preceding(S, R, c)) + 1

LEMMA PlaceType ==
  ASSUME NEW S, IsFiniteSet(S), NEW R, Orders(R, S), NEW c \in S
  PROVE  /\ IsFiniteSet(Preceding(S, R, c))
         /\ Place(S, R, c) \in 1 .. Cardinality(S)
<1> DEFINE P == Preceding(S, R, c)
<1>1. P \in SUBSET S /\ c \notin P
  BY DEF Preceding, Orders
<1>2. /\ IsFiniteSet(P)
      /\ Cardinality(P) <= Cardinality(S)
      /\ Cardinality(S) = Cardinality(P) => S = P
  BY <1>1, FS_Subset
<1>3. Cardinality(P) # Cardinality(S)
  BY <1>1, <1>2
<1>4. Cardinality(P) \in Nat /\ Cardinality(S) \in Nat
  BY <1>2, FS_CardinalityType
<1> HIDE DEF P
<1>5. Cardinality(P) + 1 \in 1 .. Cardinality(S)
  BY <1>2, <1>3, <1>4
<1> QED
  BY <1>2, <1>5 DEF P, Place

\* An element's place is before another's exactly if the element is.
LEMMA PlaceIncreases ==
  ASSUME NEW S, IsFiniteSet(S), NEW R, Orders(R, S),
         NEW c \in S, NEW d \in S, <<c, d>> \in R
  PROVE  Place(S, R, c) < Place(S, R, d)
<1> DEFINE P == Preceding(S, R, c)
           Q == Preceding(S, R, d)
<1>1. P \in SUBSET Q /\ c \in Q /\ c \notin P
  BY DEF Preceding, Orders
<1>2. IsFiniteSet(Q)
  BY PlaceType
<1>3. /\ Cardinality(P) <= Cardinality(Q)
      /\ Cardinality(Q) = Cardinality(P) => Q = P
      /\ IsFiniteSet(P)
  BY <1>1, <1>2, FS_Subset
<1>4. Cardinality(P) # Cardinality(Q)
  BY <1>1, <1>3
<1>5. Cardinality(P) \in Nat /\ Cardinality(Q) \in Nat
  BY <1>2, <1>3, FS_CardinalityType
<1> HIDE DEF P, Q
<1>6. Cardinality(P) + 1 < Cardinality(Q) + 1
  BY <1>3, <1>4, <1>5
<1> QED
  BY <1>6 DEF P, Q, Place

LEMMA PlaceIsUnique ==
  ASSUME NEW S, IsFiniteSet(S), NEW R, Orders(R, S),
         NEW c \in S, NEW d \in S, Place(S, R, c) = Place(S, R, d)
  PROVE  c = d
<1> SUFFICES ASSUME c # d PROVE FALSE
  OBVIOUS
<1>1. <<c, d>> \in R \/ <<d, c>> \in R
  BY DEF Orders
<1>2. Place(S, R, c) < Place(S, R, d) \/ Place(S, R, d) < Place(S, R, c)
  BY <1>1, PlaceIncreases
<1>3. Place(S, R, c) \in Int /\ Cardinality(S) \in Nat
  BY PlaceType, FS_CardinalityType
<1> QED
  BY <1>2, <1>3

\* Every place is taken: as many elements as places, and none share one.
LEMMA PlaceIsTaken ==
  ASSUME NEW S, IsFiniteSet(S), NEW R, Orders(R, S),
         NEW i \in 1 .. Cardinality(S)
  PROVE  \E c \in S : Place(S, R, c) = i
<1> DEFINE n == Cardinality(S)
           f == [c \in S |-> Place(S, R, c)]
<1>1. n \in Nat
  BY FS_CardinalityType
<1>2. IsFiniteSet(1 .. n) /\ Cardinality(1 .. n) = n
  BY <1>1, FS_Interval
<1>3. f \in [S -> 1 .. n]
  BY PlaceType
<1>4. IsInjective(f)
  BY PlaceIsUnique DEF IsInjective
<1>5. f \in Injection(S, 1 .. n)
  BY <1>3, <1>4 DEF Injection
<1> HIDE DEF f
<1>6. f \in Surjection(S, 1 .. n)
  BY <1>2, <1>5, FS_Injection
<1>7. \E c \in S : f[c] = i
  BY <1>6 DEF Surjection
<1> QED
  BY <1>7 DEF f

-----------------------------------------------------------------------------
(* InOrder lists the elements of the set by their places.                  *)

LEMMA InOrderAt ==
  ASSUME NEW S, IsFiniteSet(S), NEW R, Orders(R, S),
         NEW i \in 1 .. Cardinality(S)
  PROVE  InOrder(S, R)[i] \in S /\ Place(S, R, InOrder(S, R)[i]) = i
<1>1. PICK c \in S : Place(S, R, c) = i
  BY PlaceIsTaken
<1>2. \A d \in S : Cardinality(Preceding(S, R, d)) = i - 1 <=> Place(S, R, d) = i
  <2> SUFFICES ASSUME NEW d \in S
               PROVE  Cardinality(Preceding(S, R, d)) = i - 1 <=> Place(S, R, d) = i
    OBVIOUS
  <2>1. Cardinality(Preceding(S, R, d)) \in Nat
    BY PlaceType, FS_CardinalityType
  <2>2. i \in Int
    BY FS_CardinalityType
  <2> HIDE DEF Preceding
  <2> QED
    BY <2>1, <2>2 DEF Place
<1>3. InOrder(S, R)[i] = CHOOSE d \in S : Cardinality(Preceding(S, R, d)) = i - 1
  BY DEF InOrder
<1> QED
  BY <1>1, <1>2, <1>3

\* A finite set in order is a sequence of its elements, each once, of which
\* one stands before another exactly if it comes before it.
THEOREM InOrderIsOrdered ==
  ASSUME NEW S, IsFiniteSet(S), NEW R, Orders(R, S)
  PROVE  /\ InOrder(S, R) \in Seq(S)
         /\ Len(InOrder(S, R)) = Cardinality(S)
         /\ \A c \in S : \E i \in 1 .. Cardinality(S) : InOrder(S, R)[i] = c
         /\ \A i, k \in 1 .. Cardinality(S) :
              i < k => <<InOrder(S, R)[i], InOrder(S, R)[k]>> \in R
<1> DEFINE n == Cardinality(S)
           s == InOrder(S, R)
<1>1. n \in Nat
  BY FS_CardinalityType
<1>2. \A i \in 1 .. n : s[i] \in S /\ Place(S, R, s[i]) = i
  BY InOrderAt
<1>3. s = [i \in 1 .. n |-> s[i]]
  BY DEF InOrder
<1> HIDE DEF s
<1>4. s \in [1 .. n -> S]
  BY <1>2, <1>3
<1>5. s \in Seq(S) /\ Len(s) = n
  BY <1>1, <1>4
<1>6. \A c \in S : \E i \in 1 .. n : s[i] = c
  <2> SUFFICES ASSUME NEW c \in S PROVE \E i \in 1 .. n : s[i] = c
    OBVIOUS
  <2>1. PICK i \in 1 .. n : i = Place(S, R, c)
    BY PlaceType
  <2>2. s[i] = c
    BY <1>2, <2>1, PlaceIsUnique
  <2> QED
    BY <2>2
<1>7. \A i, k \in 1 .. n : i < k => <<s[i], s[k]>> \in R
  <2> SUFFICES ASSUME NEW i \in 1 .. n, NEW k \in 1 .. n, i < k, <<s[i], s[k]>> \notin R
               PROVE  FALSE
    OBVIOUS
  <2>1. s[i] \in S /\ s[k] \in S /\ Place(S, R, s[i]) = i /\ Place(S, R, s[k]) = k
    BY <1>2
  <2>2. s[i] # s[k]
    BY <1>1, <2>1
  <2>3. <<s[k], s[i]>> \in R
    BY <2>1, <2>2 DEF Orders
  <2>4. k < i
    BY <2>1, <2>3, PlaceIncreases
  <2> QED
    BY <1>1, <2>4
<1> QED
  BY <1>5, <1>6, <1>7 DEF s

\* The place of an element is where InOrder lists it.
LEMMA InOrderByPlace ==
  ASSUME NEW S, IsFiniteSet(S), NEW R, Orders(R, S), NEW c \in S
  PROVE  InOrder(S, R)[Place(S, R, c)] = c
<1>1. PICK i \in 1 .. Cardinality(S) : i = Place(S, R, c)
  BY PlaceType
<1>2. InOrder(S, R)[i] \in S /\ Place(S, R, InOrder(S, R)[i]) = i
  BY InOrderAt
<1> QED
  BY <1>1, <1>2, PlaceIsUnique

-----------------------------------------------------------------------------
(* Positions of a sequence.                                                *)

LEMMA PositionsAreOrdered ==
  ASSUME NEW n \in Nat, NEW P \in SUBSET (1 .. n)
  PROVE  IsFiniteSet(P) /\ Orders(Increasing(P), P)
<1>1. IsFiniteSet(P)
  <2>1. IsFiniteSet(1 .. n)
    BY FS_Interval
  <2> QED
    BY <2>1, FS_Subset
<1>2. P \subseteq Int
  OBVIOUS
<1> QED
  BY <1>1, <1>2 DEF Orders, Increasing

\* Positions in ascending order: each once, and none else.
LEMMA AscendingType ==
  ASSUME NEW n \in Nat, NEW P \in SUBSET (1 .. n)
  PROVE  /\ Cardinality(P) \in Nat
         /\ Ascending(P) \in [1 .. Cardinality(P) -> P]
         /\ \A i \in P : \E k \in 1 .. Cardinality(P) : Ascending(P)[k] = i
         /\ \A i, k \in 1 .. Cardinality(P) : i < k => Ascending(P)[i] < Ascending(P)[k]
<1> DEFINE m == Cardinality(P)
           s == InOrder(P, Increasing(P))
<1>1. IsFiniteSet(P) /\ Orders(Increasing(P), P)
  BY PositionsAreOrdered
<1>2. m \in Nat
  BY <1>1, FS_CardinalityType
<1>3. /\ s \in Seq(P) /\ Len(s) = m
      /\ \A i \in P : \E k \in 1 .. m : s[k] = i
      /\ \A i, k \in 1 .. m : i < k => <<s[i], s[k]>> \in Increasing(P)
  BY <1>1, InOrderIsOrdered
<1> HIDE DEF m, s
<1>4. s \in [1 .. m -> P]
  BY <1>2, <1>3
<1>5. \A i, k \in 1 .. m : i < k => s[i] < s[k]
  BY <1>3 DEF Increasing
<1> QED
  BY <1>2, <1>3, <1>4, <1>5 DEF m, s, Ascending

\* What AtPositions keeps of a sequence are the elements at these positions,
\* in the order of the sequence.
THEOREM AtPositionsKeepsOrder ==
  ASSUME NEW T, NEW s \in Seq(T), NEW P \in SUBSET (1 .. Len(s))
  PROVE  /\ AtPositions(s, P) \in Seq(T)
         /\ Len(AtPositions(s, P)) = Cardinality(P)
         /\ \A k \in 1 .. Cardinality(P) : AtPositions(s, P)[k] = s[Ascending(P)[k]]
<1> DEFINE m == Cardinality(P)
           kept == AtPositions(s, P)
<1>0. PICK n \in Nat : n = Len(s)
  OBVIOUS
<1>1. m \in Nat /\ Ascending(P) \in [1 .. m -> P]
  BY <1>0, AscendingType
<1>2. kept = [k \in 1 .. m |-> s[Ascending(P)[k]]]
  BY DEF AtPositions
<1> HIDE DEF kept, m
<1>3. kept \in [1 .. m -> T]
  <2>1. ASSUME NEW k \in 1 .. m PROVE s[Ascending(P)[k]] \in T
    <3>1. PICK i \in P : i = Ascending(P)[k]
      BY <1>1
    <3>2. i \in 1 .. Len(s)
      OBVIOUS
    <3>3. s[i] \in T
      BY <3>2
    <3> QED
      BY <3>1, <3>3
  <2> QED
    BY <1>2, <2>1
<1>4. kept \in Seq(T) /\ Len(kept) = m
  BY <1>1, <1>3
<1> QED
  BY <1>2, <1>4 DEF kept, m

\* A position past all others comes last and moves none of them.
LEMMA AscendingGrows ==
  ASSUME NEW n \in Nat, NEW P \in SUBSET (1 .. n)
  PROVE  LET Q == P \cup {n + 1}
         IN  /\ Cardinality(Q) = Cardinality(P) + 1
             /\ \A i \in 1 .. Cardinality(P) : Ascending(Q)[i] = Ascending(P)[i]
             /\ Ascending(Q)[Cardinality(Q)] = n + 1
<1> DEFINE Q == P \cup {n + 1}
<1>0. \A c \in P : c \in Int /\ 1 <= c /\ c <= n
  OBVIOUS
<1>1. /\ IsFiniteSet(P) /\ Orders(Increasing(P), P)
      /\ IsFiniteSet(Q) /\ Orders(Increasing(Q), Q)
  BY PositionsAreOrdered
<1>2. Cardinality(Q) = Cardinality(P) + 1 /\ Cardinality(P) \in Nat
  BY <1>1, FS_AddElement, FS_CardinalityType
<1>3. \A c \in P : Preceding(Q, Increasing(Q), c) = Preceding(P, Increasing(P), c)
  BY <1>0 DEF Preceding, Increasing
<1>4. Preceding(Q, Increasing(Q), n + 1) = P
  <2>1. n + 1 \notin P /\ \A c \in P : c < n + 1
    BY <1>0
  <2>2. \A c \in Q : <<c, n + 1>> \in Increasing(Q) <=> c < n + 1
    BY DEF Increasing
  <2>3. \A c \in Q : c < n + 1 <=> c \in P
    BY <2>1
  <2> QED
    BY <2>2, <2>3 DEF Preceding
<1>5. \A c \in P : Place(Q, Increasing(Q), c) = Place(P, Increasing(P), c)
  BY <1>3 DEF Place
<1>6. Place(Q, Increasing(Q), n + 1) = Cardinality(P) + 1
  BY <1>4 DEF Place
<1>7. ASSUME NEW i \in 1 .. Cardinality(P)
      PROVE  InOrder(Q, Increasing(Q))[i] = InOrder(P, Increasing(P))[i]
  <2>1. PICK c \in P : Place(P, Increasing(P), c) = i
    BY <1>1, PlaceIsTaken
  <2>2. InOrder(P, Increasing(P))[i] = c
    BY <1>1, <2>1, InOrderByPlace
  <2>3. InOrder(Q, Increasing(Q))[i] = c
    BY <1>1, <1>5, <2>1, InOrderByPlace
  <2> QED
    BY <2>2, <2>3
<1>8. InOrder(Q, Increasing(Q))[Cardinality(Q)] = n + 1
  BY <1>1, <1>2, <1>6, InOrderByPlace
<1> QED
  BY <1>2, <1>7, <1>8 DEF Ascending

\* What is kept of a longer sequence starts with what was kept of it before:
\* one more element is appended to what is kept, if it is kept at all.
THEOREM AtPositionsGrows ==
  ASSUME NEW T, NEW s \in Seq(T), NEW e \in T, NEW P \in SUBSET (1 .. Len(s))
  PROVE  /\ AtPositions(Append(s, e), P) = AtPositions(s, P)
         /\ AtPositions(Append(s, e), P \cup {Len(s) + 1}) = Append(AtPositions(s, P), e)
<1> DEFINE n == Len(s)
           longer == Append(s, e)
           Q == P \cup {n + 1}
           m == Cardinality(P)
           positions == Ascending(P)
<1>1. n \in Nat /\ \A i \in 1 .. n : longer[i] = s[i]
  OBVIOUS
<1>2. longer[n + 1] = e
  OBVIOUS
<1>3. m \in Nat /\ positions \in [1 .. m -> P]
  BY <1>1, AscendingType
<1>4. \A k \in 1 .. m : positions[k] \in P
  BY <1>3
<1>5. AtPositions(s, P) = [k \in 1 .. m |-> s[positions[k]]]
  BY DEF AtPositions
<1> HIDE DEF longer, positions
<1>6. AtPositions(longer, P) = [k \in 1 .. m |-> longer[positions[k]]]
  BY DEF AtPositions, positions
<1>7. AtPositions(longer, P) = AtPositions(s, P)
  BY <1>1, <1>4, <1>5, <1>6
<1>8. /\ Cardinality(Q) = m + 1
      /\ \A i \in 1 .. m : Ascending(Q)[i] = positions[i]
      /\ Ascending(Q)[m + 1] = n + 1
  BY <1>1, AscendingGrows DEF positions
<1>9. AtPositions(longer, Q) = [k \in 1 .. m + 1 |-> IF k = m + 1 THEN e ELSE s[positions[k]]]
  <2>1. AtPositions(longer, Q) = [k \in 1 .. m + 1 |-> longer[Ascending(Q)[k]]]
    BY <1>8 DEF AtPositions
  <2>2. ASSUME NEW k \in 1 .. m + 1
        PROVE  longer[Ascending(Q)[k]] = IF k = m + 1 THEN e ELSE s[positions[k]]
    <3>1. CASE k = m + 1
      BY <1>2, <1>8, <3>1
    <3>2. CASE k \in 1 .. m
      <4>1. positions[k] \in 1 .. n
        BY <1>4, <3>2
      <4>2. k # m + 1
        BY <1>3, <3>2
      <4>3. Ascending(Q)[k] = positions[k]
        BY <1>8, <3>2
      <4>4. longer[positions[k]] = s[positions[k]]
        BY <1>1, <4>1
      <4> QED
        BY <4>2, <4>3, <4>4
    <3> QED
      BY <1>3, <3>1, <3>2
  <2> QED
    BY <2>1, <2>2
<1>10. AtPositions(s, P) \in Seq(T) /\ Len(AtPositions(s, P)) = m
  BY AtPositionsKeepsOrder
<1> HIDE DEF m
<1>11. Append(AtPositions(s, P), e)
         = [k \in 1 .. m + 1 |-> IF k = m + 1 THEN e ELSE AtPositions(s, P)[k]]
  <2> DEFINE a == AtPositions(s, P)
             b == Append(a, e)
  <2> HIDE DEF a
  <2>1. a \in Seq(T) /\ Len(a) = m
    BY <1>10 DEF a
  <2>2. /\ b \in Seq(T) /\ Len(b) = m + 1
        /\ \A k \in 1 .. m + 1 : b[k] = IF k = m + 1 THEN e ELSE a[k]
    BY <1>3, <2>1
  <2> HIDE DEF b
  <2>3. b = [k \in 1 .. m + 1 |-> b[k]]
    BY <2>2
  <2>4. b = [k \in 1 .. m + 1 |-> IF k = m + 1 THEN e ELSE a[k]]
    BY <2>2, <2>3
  <2> QED
    BY <2>4 DEF a, b
<1>12. \A k \in 1 .. m : AtPositions(s, P)[k] = s[positions[k]]
  BY <1>5
<1>13. AtPositions(longer, Q) = Append(AtPositions(s, P), e)
  BY <1>3, <1>9, <1>11, <1>12
<1> QED
  BY <1>7, <1>13 DEF longer
=============================================================================
