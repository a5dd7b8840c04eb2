--------------------------- MODULE RetrievalProofs ---------------------------
(***************************************************************************)
(* Theorems about Retrieval, for every collection, question and reply:     *)
(* either store returns the nearest chunks that pass, and either reranker  *)
(* the best of them.                                                       *)
(***************************************************************************)
EXTENDS Retrieval, RankingProofs, SequenceTheorems

-----------------------------------------------------------------------------
(* Operators.                                                              *)

LEMMA TakeFirst ==
  ASSUME NEW T, NEW s \in Seq(T), NEW n \in Nat
  PROVE  /\ Take(s, n) \in Seq(T)
         /\ Len(Take(s, n)) = IF n < Len(s) THEN n ELSE Len(s)
         /\ \A i \in 1 .. Len(Take(s, n)) : i \in 1 .. Len(s) /\ Take(s, n)[i] = s[i]
<1> DEFINE m == IF n < Len(s) THEN n ELSE Len(s)
<1>1. m \in 0 .. Len(s)
  OBVIOUS
<1>2. Take(s, n) = SubSeq(s, 1, m)
  BY DEF Take
<1> HIDE DEF m
<1>3. /\ SubSeq(s, 1, m) \in Seq(T)
      /\ Len(SubSeq(s, 1, m)) = m
      /\ \A i \in 1 .. m : i \in 1 .. Len(s) /\ SubSeq(s, 1, m)[i] = s[i]
  BY <1>1
<1> QED
  BY <1>2, <1>3 DEF m

\* Whether chunks are ordered and of what type, in any stored collection.
Collected(S) ==
  /\ IsFiniteSet(S)
  /\ S \subseteq Chunks
  /\ \A c, d \in S : c.similarity = d.similarity => c = d

LEMMA CollectedType ==
  ASSUME points \in Collections, NEW S \in SUBSET points
  PROVE  Collected(S) /\ Orders(Nearness(S), S)
<1>1. IsFiniteSet(S)
  BY CollectionAssumption, FS_Subset
<1>2. S \subseteq Chunks /\ \A c, d \in S : c.similarity = d.similarity => c = d
  BY CollectionAssumption
<1>3. \A c \in S : c.similarity \in Int
  BY <1>2 DEF Chunks
<1> QED
  BY <1>1, <1>2, <1>3 DEF Collected, Orders, Nearness

\* The nearest chunks of a set are the first of its list by similarity.
LEMMA BySimilarityIsNearest ==
  ASSUME points \in Collections, NEW S \in SUBSET points
  PROVE  /\ BySimilarity(S) \in Seq(S)
         /\ Len(BySimilarity(S)) = Cardinality(S)
         /\ \A c \in S : \E i \in 1 .. Len(BySimilarity(S)) : BySimilarity(S)[i] = c
         /\ \A i, k \in 1 .. Len(BySimilarity(S)) :
              i < k => BySimilarity(S)[i].similarity > BySimilarity(S)[k].similarity
<1>1. Collected(S) /\ Orders(Nearness(S), S)
  BY CollectedType
<1>2. IsFiniteSet(S)
  BY <1>1 DEF Collected
<1> DEFINE s == InOrder(S, Nearness(S))
<1>3. /\ s \in Seq(S) /\ Len(s) = Cardinality(S)
      /\ \A c \in S : \E i \in 1 .. Cardinality(S) : s[i] = c
      /\ \A i, k \in 1 .. Cardinality(S) : i < k => <<s[i], s[k]>> \in Nearness(S)
  BY <1>1, <1>2, InOrderIsOrdered
<1>4. \A c, d : <<c, d>> \in Nearness(S) => c.similarity > d.similarity
  BY DEF Nearness
<1> HIDE DEF s
<1>5. \A i, k \in 1 .. Len(s) : i < k => s[i].similarity > s[k].similarity
  BY <1>3, <1>4
<1> QED
  BY <1>3, <1>5 DEF s, BySimilarity

\* A nearer chunk stands further ahead in the list.
LEMMA NearerStandsBefore ==
  ASSUME points \in Collections, NEW S \in SUBSET points,
         NEW i \in 1 .. Len(BySimilarity(S)), NEW k \in 1 .. Len(BySimilarity(S)),
         BySimilarity(S)[k].similarity > BySimilarity(S)[i].similarity
  PROVE  k < i
<1> DEFINE s == BySimilarity(S)
<1>1. /\ s \in Seq(S)
      /\ \A l, m \in 1 .. Len(s) : l < m => s[l].similarity > s[m].similarity
  BY BySimilarityIsNearest
<1>2. S \subseteq Chunks
  BY CollectedType DEF Collected
<1> HIDE DEF s
<1>3. i \in Int /\ k \in Int /\ i \in 1 .. Len(s) /\ k \in 1 .. Len(s)
  BY <1>1 DEF s
<1>4. s[i] \in S /\ s[k] \in S
  BY <1>1, <1>3
<1>5. s[i].similarity \in Int /\ s[k].similarity \in Int
  BY <1>2, <1>4 DEF Chunks
<1>6. s[k].similarity > s[i].similarity
  BY DEF s
<1>7. ~(i < k)
  BY <1>1, <1>3, <1>5, <1>6
<1>8. i # k
  BY <1>5, <1>6
<1> QED
  BY <1>3, <1>7, <1>8

\* The k-th of the list has k - 1 that are nearer.
LEMMA NearerAreCounted ==
  ASSUME points \in Collections, NEW S \in SUBSET points,
         NEW k \in 1 .. Len(BySimilarity(S))
  PROVE  Cardinality({d \in S : d.similarity > BySimilarity(S)[k].similarity}) = k - 1
<1>1. Collected(S) /\ Orders(Nearness(S), S)
  BY CollectedType
<1>2. IsFiniteSet(S) /\ Cardinality(S) \in Nat
  BY <1>1, FS_CardinalityType DEF Collected
<1>3. k \in 1 .. Cardinality(S)
  BY BySimilarityIsNearest
<1> DEFINE c == InOrder(S, Nearness(S))[k]
<1>4. c \in S /\ Place(S, Nearness(S), c) = k
  BY <1>1, <1>2, <1>3, InOrderAt
<1> HIDE DEF c
<1>5. Preceding(S, Nearness(S), c) = {d \in S : d.similarity > c.similarity}
  BY <1>4 DEF Preceding, Nearness
<1>6. Cardinality(Preceding(S, Nearness(S), c)) \in Nat
  BY <1>1, <1>2, <1>4, PlaceType, FS_CardinalityType
<1>7. Cardinality({d \in S : d.similarity > c.similarity}) = k - 1
  BY <1>2, <1>3, <1>4, <1>5, <1>6 DEF Place
<1> QED
  BY <1>7 DEF c, BySimilarity

LEMMA QueryType ==
  ASSUME query \in Queries
  PROVE  /\ query.retrieve_top_k \in Nat \ {0}
         /\ query.rerank_top_k \in Int
         /\ query.filters \subseteq {"native", "contains"}
         /\ FetchCount \in Nat
         /\ query.store \in {"in_memory", "chromadb"}
<1>1. query \in [store: {"in_memory", "chromadb"}, reranker: {"cross_encoder", "llm"},
                 collection: {"missing", "other dimension", "there"},
                 filters: SUBSET {"native", "contains"},
                 retrieve_top_k: Nat \ {0}, rerank_top_k: Int]
  BY QueryAssumption
<1>2. /\ query.retrieve_top_k \in Nat \ {0}
      /\ query.rerank_top_k \in Int
      /\ query.filters \subseteq {"native", "contains"}
      /\ query.store \in {"in_memory", "chromadb"}
  BY <1>1
<1>3. PICK n \in Nat : n = query.retrieve_top_k
  BY <1>2
<1>4. FetchCount \in {n, n * 4}
  BY <1>3 DEF FetchCount
<1>5. n * 4 \in Nat
  OBVIOUS
<1> QED
  BY <1>2, <1>4, <1>5

\* Both kinds of filters together are all filters.
LEMMA FiltersSplit ==
  ASSUME query \in Queries, NEW c
  PROVE  Passes(c, query.filters) <=> Passes(c, NativeFilters) /\ Passes(c, PostFilters)
  BY DEF Passes, NativeFilters, PostFilters

-----------------------------------------------------------------------------
(* What query_similar returns.                                             *)

\* A sequence of the nearest passing chunks, complete up to `limit`: what
\* RetrievedIsNearest says of `retrieved`, for any list.
Nearest(list) ==
  /\ Range(list) \subseteq Passing(points)
  /\ \A i, k \in DOMAIN list : i < k => list[i].similarity > list[k].similarity
  /\ \A c \in Range(list) : Passing(Nearer(c)) \subseteq Range(list)
  /\ Len(list) <= query.retrieve_top_k

Excused(list) ==
  Len(list) < query.retrieve_top_k => \A c \in Passing(points) \ Range(list) :
    /\ query.store = "chromadb" /\ PostFilters # {}
    /\ Cardinality({d \in Nearer(c) : Passes(d, NativeFilters)}) >= 4 * query.retrieve_top_k

LEMMA InMemoryIsNearest ==
  ASSUME points \in Collections, query \in Queries
  PROVE  /\ QueryInMemory \in Seq(points)
         /\ Nearest(QueryInMemory) /\ Excused(QueryInMemory)
<1> DEFINE S == Passing(points)
           s == BySimilarity(S)
           t == QueryInMemory
<1>1. S \in SUBSET points
  BY DEF Passing
<1>2. /\ s \in Seq(S)
      /\ \A c \in S : \E i \in 1 .. Len(s) : s[i] = c
      /\ \A i, k \in 1 .. Len(s) : i < k => s[i].similarity > s[k].similarity
  BY <1>1, BySimilarityIsNearest
<1>3. PICK n \in Nat : n = query.retrieve_top_k
  BY QueryType
<1>4. t = Take(s, n)
  BY <1>3 DEF QueryInMemory, Passing
<1> HIDE DEF s, t, S
<1>5. /\ t \in Seq(S)
      /\ Len(t) = IF n < Len(s) THEN n ELSE Len(s)
      /\ \A i \in 1 .. Len(t) : i \in 1 .. Len(s) /\ t[i] = s[i]
  BY <1>2, <1>4, TakeFirst
<1>6. DOMAIN t = 1 .. Len(t)
  BY <1>5
<1>7. Range(t) \subseteq S
  BY <1>5, <1>6 DEF Range
<1>8. \A i, k \in DOMAIN t : i < k => t[i].similarity > t[k].similarity
  BY <1>2, <1>5, <1>6
<1>9. \A c \in Range(t) : Passing(Nearer(c)) \subseteq Range(t)
  <2> SUFFICES ASSUME NEW i \in 1 .. Len(t), NEW d \in S, d.similarity > t[i].similarity
               PROVE  \E k \in 1 .. Len(t) : t[k] = d
    BY <1>6 DEF Range, Passing, Nearer, S
  <2>1. PICK k \in 1 .. Len(s) : s[k] = d
    BY <1>2
  <2>2. k < i
    <3>1. i \in 1 .. Len(s) /\ t[i] = s[i]
      BY <1>5
    <3> QED
      BY <1>1, <2>1, <3>1, NearerStandsBefore DEF s
  <2>3. k \in 1 .. Len(t) /\ t[k] = s[k]
    BY <1>2, <1>5, <2>2
  <2> QED
    BY <2>1, <2>3
<1>10. Len(t) < n => S \subseteq Range(t)
  <2> SUFFICES ASSUME Len(t) < n, NEW c \in S PROVE c \in Range(t)
    OBVIOUS
  <2>1. Len(t) = Len(s)
    BY <1>2, <1>5
  <2>2. PICK k \in 1 .. Len(s) : s[k] = c
    BY <1>2
  <2>3. k \in DOMAIN t /\ t[k] = c
    BY <1>5, <1>6, <2>1, <2>2
  <2> QED
    BY <2>3 DEF Range
<1>11. t \in Seq(points)
  BY <1>1, <1>5, SeqMonotonic
<1>12. Len(t) <= n
  BY <1>2, <1>5
<1> QED
  BY <1>3, <1>7, <1>8, <1>9, <1>10, <1>11, <1>12 DEF Nearest, Excused, S, t

\* What ChromaDB was asked for: the first of all that pass its own filters.
LEMMA FetchedType ==
  ASSUME points \in Collections, query \in Queries
  PROVE  LET S == {c \in points : Passes(c, NativeFilters)}
             s == BySimilarity(S)
         IN  /\ s \in Seq(S)
             /\ \A c \in S : \E i \in 1 .. Len(s) : s[i] = c
             /\ \A i, k \in 1 .. Len(s) : i < k => s[i].similarity > s[k].similarity
             /\ Fetched \in Seq(S)
             /\ Len(Fetched) = IF FetchCount < Len(s) THEN FetchCount ELSE Len(s)
             /\ \A i \in 1 .. Len(Fetched) : i \in 1 .. Len(s) /\ Fetched[i] = s[i]
<1> DEFINE S == {c \in points : Passes(c, NativeFilters)}
           s == BySimilarity(S)
<1>1. S \in SUBSET points
  OBVIOUS
<1>2. /\ s \in Seq(S)
      /\ \A c \in S : \E i \in 1 .. Len(s) : s[i] = c
      /\ \A i, k \in 1 .. Len(s) : i < k => s[i].similarity > s[k].similarity
  BY <1>1, BySimilarityIsNearest
<1>3. Fetched = Take(s, FetchCount)
  BY DEF Fetched
<1>4. FetchCount \in Nat
  BY QueryType
<1> HIDE DEF s, S
<1>5. /\ Fetched \in Seq(S)
      /\ Len(Fetched) = IF FetchCount < Len(s) THEN FetchCount ELSE Len(s)
      /\ \A i \in 1 .. Len(Fetched) : i \in 1 .. Len(s) /\ Fetched[i] = s[i]
  BY <1>2, <1>3, <1>4, TakeFirst
<1> QED
  BY <1>2, <1>5 DEF s, S

LEMMA ChromaIsNearest ==
  ASSUME points \in Collections, query \in Queries, query.store # "in_memory"
  PROVE  /\ QueryChroma \in Seq(points)
         /\ Nearest(QueryChroma) /\ Excused(QueryChroma)
<1> DEFINE S == {c \in points : Passes(c, NativeFilters)}
           s == BySimilarity(S)
           F == Fetched
           P == {i \in DOMAIN Fetched : Passes(Fetched[i], PostFilters)}
           q == Ascending(P)
           a == AtPositions(F, P)
           t == QueryChroma
<1> HIDE DEF s, F, P, q, a, t, S
<1>1. S \in SUBSET points
  BY DEF S
<1>0. /\ s \in Seq(S)
      /\ \A c \in S : \E i \in 1 .. Len(s) : s[i] = c
      /\ \A i, k \in 1 .. Len(s) : i < k => s[i].similarity > s[k].similarity
      /\ F \in Seq(S)
      /\ Len(F) = IF FetchCount < Len(s) THEN FetchCount ELSE Len(s)
      /\ \A i \in 1 .. Len(F) : i \in 1 .. Len(s) /\ F[i] = s[i]
  BY FetchedType DEF s, S, F
<1>2. Len(s) \in Nat /\ Len(F) \in Nat
  BY <1>0
<1>3. PICK n \in Nat \ {0} : n = query.retrieve_top_k
  BY QueryType
<1>4. t = Take(a, n)
  BY <1>3 DEF QueryChroma, t, a, F, P
<1>5. P \in SUBSET (1 .. Len(F)) /\ \A i \in 1 .. Len(F) : i \in P <=> Passes(F[i], PostFilters)
  <2>1. DOMAIN F = 1 .. Len(F)
    BY <1>0
  <2> QED
    BY <2>1 DEF P, F
<1>6. Passing(points) = {c \in S : Passes(c, PostFilters)}
  BY FiltersSplit DEF Passing, S
<1>7. /\ a \in Seq(S) /\ Len(a) = Cardinality(P)
      /\ \A k \in 1 .. Len(a) : a[k] = F[q[k]]
  <2>1. F \in Seq(S) /\ P \in SUBSET (1 .. Len(F))
    BY <1>0, <1>5
  <2>2. /\ AtPositions(F, P) \in Seq(S)
        /\ Len(AtPositions(F, P)) = Cardinality(P)
        /\ \A k \in 1 .. Cardinality(P) : AtPositions(F, P)[k] = F[Ascending(P)[k]]
    BY <2>1, AtPositionsKeepsOrder
  <2> QED
    BY <2>2 DEF a, q
<1>8. /\ q \in [1 .. Len(a) -> P]
      /\ \A i \in P : \E k \in 1 .. Len(a) : q[k] = i
      /\ \A i, k \in 1 .. Len(a) : i < k => q[i] < q[k]
  <2>1. PICK m \in Nat : m = Len(F)
    BY <1>2
  <2>2. P \in SUBSET (1 .. m)
    BY <1>5, <2>1
  <2>3. /\ Ascending(P) \in [1 .. Cardinality(P) -> P]
        /\ \A i \in P : \E k \in 1 .. Cardinality(P) : Ascending(P)[k] = i
        /\ \A i, k \in 1 .. Cardinality(P) : i < k => Ascending(P)[i] < Ascending(P)[k]
    BY <2>2, AscendingType
  <2> QED
    BY <1>7, <2>3 DEF q
<1>9. /\ t \in Seq(S) /\ Len(t) \in Nat /\ Len(a) \in Nat
      /\ Len(t) = IF n < Len(a) THEN n ELSE Len(a)
      /\ \A i \in 1 .. Len(t) : i \in 1 .. Len(a) /\ t[i] = a[i]
  BY <1>4, <1>7, TakeFirst
<1>10. DOMAIN t = 1 .. Len(t)
  BY <1>9
\* An element of `a` is one of the list by similarity, and passes.
<1>11. ASSUME NEW k \in 1 .. Len(a)
       PROVE  /\ q[k] \in 1 .. Len(s) /\ q[k] \in 1 .. Len(F)
              /\ a[k] = s[q[k]]
              /\ a[k] \in Passing(points)
  <2>1. q[k] \in P /\ q[k] \in 1 .. Len(F)
    BY <1>5, <1>8
  <2>2. F[q[k]] = s[q[k]] /\ q[k] \in 1 .. Len(s)
    BY <1>0, <2>1
  <2>3. F[q[k]] \in S
    BY <1>0, <2>1, ElementOfSeq
  <2>4. a[k] = F[q[k]]
    BY <1>7
  <2> QED
    BY <1>5, <1>6, <2>1, <2>2, <2>3, <2>4
<1>12. Range(t) \subseteq Passing(points)
  BY <1>9, <1>10, <1>11 DEF Range
<1>13. \A i, k \in DOMAIN t : i < k => t[i].similarity > t[k].similarity
  <2> SUFFICES ASSUME NEW i \in 1 .. Len(t), NEW k \in 1 .. Len(t), i < k
               PROVE  t[i].similarity > t[k].similarity
    BY <1>10
  <2>1. i \in 1 .. Len(a) /\ k \in 1 .. Len(a) /\ t[i] = a[i] /\ t[k] = a[k]
    BY <1>9
  <2>2. q[i] < q[k]
    BY <1>8, <2>1
  <2>3. /\ q[i] \in 1 .. Len(s) /\ q[k] \in 1 .. Len(s)
        /\ a[i] = s[q[i]] /\ a[k] = s[q[k]]
    BY <1>11, <2>1
  <2>4. s[q[i]].similarity > s[q[k]].similarity
    BY <1>0, <2>2, <2>3
  <2> QED
    BY <2>1, <2>3, <2>4
\* A passing chunk that was fetched stands in `a`.
<1>14. ASSUME NEW c \in Passing(points), NEW l \in 1 .. Len(s), s[l] = c, l <= Len(F)
       PROVE  \E k \in 1 .. Len(a) : a[k] = c /\ q[k] = l
  <2>1. l \in 1 .. Len(F)
    BY <1>2, <1>14
  <2>3. F[l] = c
    BY <1>0, <1>14, <2>1
  <2>2. l \in P
    BY <1>5, <1>6, <2>1, <2>3
  <2>4. PICK k \in 1 .. Len(a) : q[k] = l
    BY <1>8, <2>2
  <2>5. a[k] = F[q[k]]
    BY <1>7
  <2> QED
    BY <2>3, <2>4, <2>5
<1>15. \A c \in Range(t) : Passing(Nearer(c)) \subseteq Range(t)
  <2> SUFFICES ASSUME NEW i \in 1 .. Len(t), NEW d \in Passing(points),
                      d.similarity > t[i].similarity
               PROVE  \E k \in 1 .. Len(t) : t[k] = d
    BY <1>10 DEF Range, Passing, Nearer
  <2>1. i \in 1 .. Len(a) /\ t[i] = a[i]
    BY <1>9
  <2>2. q[i] \in 1 .. Len(s) /\ q[i] \in 1 .. Len(F) /\ t[i] = s[q[i]]
    BY <1>11, <2>1
  <2>3. PICK l \in 1 .. Len(s) : s[l] = d
    BY <1>0, <1>6
  <2>4. l < q[i] /\ l \in Int /\ q[i] \in Int
    BY <1>1, <1>2, <2>2, <2>3, NearerStandsBefore DEF s
  <2>5. PICK k \in 1 .. Len(a) : a[k] = d /\ q[k] = l
    <3>1. l <= Len(F)
      BY <1>2, <2>2, <2>4
    <3> QED
      BY <1>14, <2>3, <3>1
  <2>6. k < i
    <3>1. ~(i < k)
      <4>1. i < k => q[i] < q[k]
        BY <1>8, <2>1
      <4> QED
        BY <2>4, <2>5, <4>1
    <3>2. i # k
      BY <2>4, <2>5
    <3> QED
      BY <1>9, <2>1, <3>1, <3>2
  <2>7. k \in 1 .. Len(t) /\ t[k] = a[k]
    BY <1>9, <2>6
  <2> QED
    BY <2>5, <2>7
<1>16. ASSUME Len(t) < n, NEW c \in Passing(points) \ Range(t)
       PROVE  /\ PostFilters # {}
              /\ Cardinality({d \in Nearer(c) : Passes(d, NativeFilters)}) >= 4 * n
  <2>1. Len(t) = Len(a) /\ Len(a) < n
    BY <1>3, <1>9, <1>16
  <2>2. PICK l \in 1 .. Len(s) : s[l] = c
    BY <1>0, <1>6
  <2>3. Len(F) < l
    <3>1. CASE l <= Len(F)
      <4>1. PICK k \in 1 .. Len(a) : a[k] = c
        BY <1>14, <2>2, <3>1
      <4>2. k \in DOMAIN t /\ t[k] = c
        BY <1>9, <1>10, <2>1, <4>1
      <4> QED
        BY <4>2, <1>16 DEF Range
    <3> QED
      BY <1>2, <3>1
  <2>4. Len(F) = FetchCount /\ FetchCount \in Nat /\ FetchCount < l
    BY <1>0, <1>2, <2>3, QueryType
  <2>5. PostFilters # {}
    <3> SUFFICES ASSUME PostFilters = {} PROVE FALSE
      OBVIOUS
    <3>1. FetchCount = n
      BY <1>3 DEF FetchCount
    <3>2. P = 1 .. n
      <4>1. \A i \in 1 .. Len(F) : Passes(F[i], PostFilters)
        BY DEF Passes
      <4> QED
        BY <1>5, <2>4, <3>1, <4>1
    <3>3. Cardinality(P) = n
      BY <1>3, <3>2, FS_Interval
    <3> QED
      BY <1>3, <1>7, <2>1, <3>3
  <2>6. FetchCount = n * 4
    BY <1>3, <2>5 DEF FetchCount
  <2>7. Cardinality({d \in S : d.similarity > s[l].similarity}) = l - 1
    BY <1>1, NearerAreCounted DEF s
  <2>8. {d \in S : d.similarity > s[l].similarity} = {d \in Nearer(c) : Passes(d, NativeFilters)}
    BY <2>2 DEF S, Nearer
  <2>9. l - 1 >= 4 * n
    BY <1>3, <2>4, <2>6
  <2> QED
    BY <2>5, <2>7, <2>8, <2>9
<1>17. query.store = "chromadb"
  BY QueryType
<1>18. t \in Seq(points)
  BY <1>1, <1>9, SeqMonotonic
<1>19. Len(t) <= n
  BY <1>3, <1>9
<1> QED
  BY <1>3, <1>12, <1>13, <1>15, <1>16, <1>17, <1>18, <1>19 DEF Nearest, Excused, t

-----------------------------------------------------------------------------
(* Questions.                                                              *)

RetrievedInv ==
  /\ points \in Collections /\ query \in Queries
  /\ retrieved \in Seq(points)
  /\ scores \in Seq(Int) /\ Len(scores) <= Len(retrieved)
  /\ stage = "query" => retrieved = <<>> /\ scores = <<>> /\ evidence = <<>>
  /\ stage # "query" /\ query.collection = "there" => Nearest(retrieved) /\ Excused(retrieved)

LEMMA NothingRetrieved == RetrievalInit => RetrievedInv
  BY DEF RetrievalInit, RetrievedInv

LEMMA ScoresAreNumbers ==
  ASSUME NEW reply \in Replies
  PROVE  ParseScore(reply) \in Int
<1>1. reply \in Seq(Int)
  BY ReplyAssumption
<1> QED
  BY <1>1 DEF ParseScore

LEMMA QueryRetrieves ==
  ASSUME RetrievedInv, QuerySimilar
  PROVE  RetrievedInv'
<1>1. /\ points \in Collections /\ query \in Queries
      /\ stage = "query" /\ retrieved = <<>> /\ scores = <<>>
  BY DEF RetrievedInv, QuerySimilar
<1>2. UNCHANGED <<points, query, scores, evidence>> /\ stage' # "query"
  BY DEF QuerySimilar
<1>3. CASE query.collection # "there"
  <2>1. retrieved' = <<>>
    BY <1>3 DEF QuerySimilar
  <2> QED
    BY <1>1, <1>2, <1>3, <2>1 DEF RetrievedInv
<1>4. CASE query.collection = "there"
  <2> DEFINE list == retrieved'
  <2>1. list = IF query.store = "in_memory" THEN QueryInMemory ELSE QueryChroma
    BY <1>4 DEF QuerySimilar
  <2>2. list \in Seq(points) /\ Nearest(list) /\ Excused(list)
    BY <1>1, <2>1, InMemoryIsNearest, ChromaIsNearest
  <2>3. Len(list) \in Nat
    BY <2>2
  <2>4. Nearest(retrieved)'
    BY <1>2, <2>2 DEF Nearest, Passing, Passes, Nearer, Range
  <2>5. Excused(retrieved)'
    BY <1>2, <2>2 DEF Excused, Passing, Passes, Nearer, Range, NativeFilters, PostFilters
  <2> QED
    BY <1>1, <1>2, <2>2, <2>3, <2>4, <2>5 DEF RetrievedInv
<1> QED
  BY <1>3, <1>4

\* Scoring and ranking leave alone what was retrieved.
LEMMA RetrievedStays ==
  ASSUME RetrievedInv, UNCHANGED <<points, query, retrieved>>,
         stage # "query", stage' # "query",
         scores' \in Seq(Int), Len(scores') <= Len(retrieved)
  PROVE  RetrievedInv'
<1>1. points' = points /\ query' = query /\ retrieved' = retrieved
  OBVIOUS
<1>2. Nearest(retrieved) => Nearest(retrieved)'
  BY <1>1 DEF Nearest, Passing, Passes, Nearer, Range
<1>3. Excused(retrieved) => Excused(retrieved)'
  BY <1>1 DEF Excused, Passing, Passes, Nearer, Range, NativeFilters, PostFilters
<1> QED
  BY <1>1, <1>2, <1>3 DEF RetrievedInv

LEMMA RetrievedStep ==
  ASSUME RetrievedInv, [RetrievalNext]_retrievalVars
  PROVE  RetrievedInv'
<1>1. scores \in Seq(Int) /\ Len(scores) <= Len(retrieved) /\ retrieved \in Seq(points)
  BY DEF RetrievedInv
<1>2. CASE QuerySimilar
  BY <1>2, QueryRetrieves
<1>3. CASE Judge
  <2>1. PICK reply \in Replies : scores' = Append(scores, ParseScore(reply))
    BY <1>3 DEF Judge
  <2>2. ParseScore(reply) \in Int
    BY ScoresAreNumbers
  <2>3. Len(scores) < Len(retrieved) /\ stage = "rerank"
    BY <1>3 DEF Judge, Unscored
  <2>4. scores' \in Seq(Int) /\ Len(scores') <= Len(retrieved)
    BY <1>1, <2>1, <2>2, <2>3
  <2> QED
    BY <1>3, <2>3, <2>4, RetrievedStays DEF Judge
<1>4. CASE Score
  <2>1. scores' \in [DOMAIN retrieved -> {ParseScore(reply) : reply \in Replies}]
    BY <1>4 DEF Score
  <2>2. {ParseScore(reply) : reply \in Replies} \subseteq Int
    BY ScoresAreNumbers
  <2>3. scores' \in [1 .. Len(retrieved) -> Int]
    BY <1>1, <2>1, <2>2
  <2>4. scores' \in Seq(Int) /\ Len(scores') <= Len(retrieved)
    BY <1>1, <2>3
  <2> QED
    BY <1>4, <2>4, RetrievedStays DEF Score, Unscored
<1>5. CASE ScoringFails
  BY <1>1, <1>5, RetrievedStays DEF ScoringFails, Unscored
<1>6. CASE Rank
  BY <1>1, <1>6, RetrievedStays DEF Rank
<1>7. CASE UNCHANGED retrievalVars
  <2>1. /\ points' = points /\ query' = query /\ retrieved' = retrieved
        /\ scores' = scores /\ stage' = stage /\ evidence' = evidence
    BY <1>7 DEF retrievalVars
  <2>2. CASE stage # "query"
    BY <1>1, <2>1, <2>2, RetrievedStays
  <2>3. CASE stage = "query"
    BY <2>1, <2>3 DEF RetrievedInv
  <2> QED
    BY <2>2, <2>3
<1> QED
  BY <1>2, <1>3, <1>4, <1>5, <1>6, <1>7 DEF RetrievalNext, RetrievalOver

LEMMA RetrievedAlways == RetrievalSpec => []RetrievedInv
<1> QED
  BY NothingRetrieved, RetrievedStep, PTL DEF RetrievalSpec

\* Whatever is stored and asked, in either store the chunks returned are the
\* nearest that pass, never more than were asked for, and fewer only if there
\* are no more or ChromaDB's post-filter took them from the four times as many
\* it fetched.
THEOREM RetrievedAreTheNearest == RetrievalSpec => []RetrievedIsNearest
<1>1. RetrievedInv => RetrievedIsNearest
  BY DEF RetrievedInv, RetrievedIsNearest, Nearest, Excused
<1> QED
  BY <1>1, RetrievedAlways, PTL

-----------------------------------------------------------------------------
(* Evidence.                                                               *)

EvidenceInv == RetrievedInv /\ EvidenceIsBest

LEMMA NothingRanked == RetrievalInit => EvidenceInv
  BY NothingRetrieved DEF RetrievalInit, EvidenceInv, EvidenceIsBest

\* A question that finds nothing has no evidence.
LEMMA QueryRanksNothing ==
  ASSUME EvidenceInv, QuerySimilar
  PROVE  EvidenceIsBest'
<1>1. evidence' = <<>> /\ stage' \in {"error", "done", "rerank"}
  BY DEF EvidenceInv, RetrievedInv, QuerySimilar
<1>2. stage' = "done" => retrieved' = <<>>
  BY DEF QuerySimilar
<1>3. DOMAIN evidence' = {} /\ (stage' = "done" => DOMAIN retrieved' = {})
  BY <1>1, <1>2
<1>4. query'.rerank_top_k \in Int /\ Len(evidence') = 0
  BY <1>1, QueryType DEF EvidenceInv, RetrievedInv, QuerySimilar
<1> QED
  BY <1>3, <1>4 DEF EvidenceIsBest

LEMMA FinalOrderOrders ==
  ASSUME RetrievedInv, Len(scores) = Len(retrieved)
  PROVE  /\ IsFiniteSet(DOMAIN retrieved)
         /\ Orders(FinalOrder, DOMAIN retrieved)
         /\ DOMAIN retrieved \subseteq Int
         /\ \A i \in DOMAIN retrieved : scores[i] \in Int
<1>1. PICK m \in Nat : m = Len(retrieved) /\ DOMAIN retrieved = 1 .. m
  BY DEF RetrievedInv
<1>2. \A i \in 1 .. m : scores[i] \in Int /\ i \in Int
  BY <1>1, ElementOfSeq DEF RetrievedInv
<1>3. IsFiniteSet(1 .. m)
  BY FS_Interval
<1>4. Orders(FinalOrder, 1 .. m)
  <2>1. \A i, k : <<i, k>> \in FinalOrder <=> i \in 1 .. m /\ k \in 1 .. m /\ Ahead(i, k)
    BY <1>1 DEF FinalOrder
  <2>2. \A i \in 1 .. m : ~Ahead(i, i)
    BY <1>2 DEF Ahead
  <2>3. \A i, k, l \in 1 .. m : Ahead(i, k) /\ Ahead(k, l) => Ahead(i, l)
    BY <1>2 DEF Ahead
  <2>4. \A i, k \in 1 .. m : i # k => Ahead(i, k) \/ Ahead(k, i)
    BY <1>2 DEF Ahead
  <2> QED
    BY <2>1, <2>2, <2>3, <2>4 DEF Orders
<1> QED
  BY <1>1, <1>2, <1>3, <1>4

LEMMA RankTakesTheBest ==
  ASSUME EvidenceInv, Rank
  PROVE  EvidenceIsBest'
<1> DEFINE D == DOMAIN retrieved
           s == InOrder(D, FinalOrder)
           n == IF query.rerank_top_k < 0 THEN 0 ELSE query.rerank_top_k
           e == evidence'
<1>1. RetrievedInv /\ query.rerank_top_k \in Int
  BY QueryType DEF EvidenceInv, RetrievedInv
<1>2. Len(scores) = Len(retrieved)
  BY <1>1 DEF Rank, Unscored, RetrievedInv
<1>3. /\ IsFiniteSet(D) /\ Orders(FinalOrder, D) /\ D \subseteq Int
      /\ \A i \in D : scores[i] \in Int
  BY <1>1, <1>2, FinalOrderOrders
<1>4. /\ s \in Seq(D) /\ Len(s) = Cardinality(D)
      /\ \A c \in D : \E i \in 1 .. Cardinality(D) : s[i] = c
      /\ \A i, k \in 1 .. Cardinality(D) : i < k => <<s[i], s[k]>> \in FinalOrder
  BY <1>3, InOrderIsOrdered
<1>5. n \in Nat /\ query.rerank_top_k <= n
  BY <1>1
<1>6. e = Take(s, n) /\ scores' = scores /\ retrieved' = retrieved /\ query' = query
  BY DEF Rank
<1>7. \A i, k : <<i, k>> \in FinalOrder => Ahead(i, k)
  BY DEF FinalOrder
<1> HIDE DEF D, s, n, e
<1>8. /\ e \in Seq(D)
      /\ Len(e) = IF n < Len(s) THEN n ELSE Len(s)
      /\ \A i \in 1 .. Len(e) : i \in 1 .. Len(s) /\ e[i] = s[i]
  BY <1>4, <1>5, <1>6, TakeFirst
<1>9. DOMAIN e = 1 .. Len(e) /\ Len(e) \in Nat /\ Len(s) \in Nat
  BY <1>4, <1>8
<1>10. \A i, k \in DOMAIN e : i < k =>
         /\ e[i] # e[k]
         /\ scores[e[i]] >= scores[e[k]]
         /\ scores[e[i]] = scores[e[k]] => e[i] < e[k]
  <2> SUFFICES ASSUME NEW i \in 1 .. Len(e), NEW k \in 1 .. Len(e), i < k
               PROVE  /\ e[i] # e[k]
                      /\ scores[e[i]] >= scores[e[k]]
                      /\ scores[e[i]] = scores[e[k]] => e[i] < e[k]
    BY <1>9
  <2>1. Ahead(e[i], e[k])
    BY <1>4, <1>7, <1>8
  <2>2. e[i] \in D /\ e[k] \in D
    BY <1>8
  <2>3. e[i] \in Int /\ e[k] \in Int /\ scores[e[i]] \in Int /\ scores[e[k]] \in Int
    BY <1>3, <2>2
  <2> QED
    BY <2>1, <2>3 DEF Ahead
\* What is not among the evidence stands behind all that is.
<1>11. ASSUME NEW c \in D \ Range(e)
       PROVE  /\ Len(e) >= query.rerank_top_k
              /\ \A k \in Range(e) : scores[k] > scores[c] \/ (scores[k] = scores[c] /\ k < c)
  <2>1. PICK l \in 1 .. Len(s) : s[l] = c
    BY <1>4
  <2>2. Len(e) < l
    <3>1. l \in 1 .. Len(e) => e[l] = c
      BY <1>8, <2>1
    <3>2. l \notin 1 .. Len(e)
      BY <1>9, <1>11, <3>1 DEF Range
    <3> QED
      BY <1>9, <3>2
  <2>3. Len(e) = n
    BY <1>5, <1>8, <1>9, <2>2
  <2>4. ASSUME NEW i \in 1 .. Len(e)
        PROVE  Ahead(e[i], c)
    <3>1. i \in 1 .. Len(s) /\ i < l /\ e[i] = s[i]
      BY <1>8, <1>9, <2>2
    <3> QED
      BY <1>4, <1>7, <2>1, <3>1
  <2>5. \A k \in Range(e) : Ahead(k, c)
    BY <1>9, <2>4 DEF Range
  <2>6. Len(e) >= query.rerank_top_k
    BY <1>1, <1>5, <2>3
  <2> QED
    BY <2>5, <2>6 DEF Ahead
<1>12. Len(e) <= n
  BY <1>5, <1>8, <1>9
<1> QED
  BY <1>6, <1>10, <1>11, <1>12 DEF EvidenceIsBest, D, e, n, Range

LEMMA EvidenceStep ==
  ASSUME EvidenceInv, [RetrievalNext]_retrievalVars
  PROVE  EvidenceInv'
<1>1. RetrievedInv'
  BY RetrievedStep DEF EvidenceInv
<1>2. CASE QuerySimilar
  BY <1>1, <1>2, QueryRanksNothing DEF EvidenceInv
<1>3. CASE Rank
  BY <1>1, <1>3, RankTakesTheBest DEF EvidenceInv
<1>4. CASE Judge \/ Score \/ ScoringFails
  <2>1. stage' # "done"
    BY <1>4 DEF Judge, Score, ScoringFails, Unscored
  <2> QED
    BY <1>1, <2>1 DEF EvidenceInv, EvidenceIsBest
<1>5. CASE UNCHANGED retrievalVars
  BY <1>1, <1>5 DEF EvidenceInv, EvidenceIsBest, Range, retrievalVars
<1> QED
  BY <1>2, <1>3, <1>4, <1>5 DEF RetrievalNext, RetrievalOver

\* Whatever either reranker scores, the evidence are the best chunks, best
\* first, equals as they were retrieved, as many as were asked for if there are
\* so many, and never more.
THEOREM EvidenceIsTheBest == RetrievalSpec => []EvidenceIsBest
<1>1. EvidenceInv => EvidenceIsBest
  BY DEF EvidenceInv
<1> QED
  BY <1>1, NothingRanked, EvidenceStep, PTL DEF RetrievalSpec
=============================================================================
