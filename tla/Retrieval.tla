----------------------------- MODULE Retrieval -----------------------------
(***************************************************************************)
(* The evidence for one question: query_similar of either vector store,    *)
(* then rerank of either reranker, as _prepare of the gateway calls them.  *)
(*                                                                         *)
(* A stored chunk is its similarity to the question and two facts, whether *)
(* it passes the filters ChromaDB evaluates (eq, ne, in, gte, lte, range)  *)
(* and whether it passes `contains`, which the adapter evaluates itself.   *)
(* Similarities are distinct: the order of equals is the index's own.      *)
(***************************************************************************)
EXTENDS Integers, SequencesExt, Ranking

CONSTANTS
  Collections,   \* sets of stored chunks
  Queries,       \* records of store, reranker, filters, retrieve_top_k, rerank_top_k
  Replies        \* what a judge answers: the numbers in its text, in order

Chunks == [similarity: Int, native: BOOLEAN, contains: BOOLEAN]

ASSUME CollectionAssumption ==
  \A points \in Collections :
    /\ IsFiniteSet(points)
    /\ points \subseteq Chunks
    /\ \A c, d \in points : c.similarity = d.similarity => c = d
ASSUME QueryAssumption ==
  Queries \subseteq [store: {"in_memory", "chromadb"}, reranker: {"cross_encoder", "llm"},
                     collection: {"missing", "other dimension", "there"},
                     filters: SUBSET {"native", "contains"},
                     retrieve_top_k: Nat \ {0}, rerank_top_k: Int]
ASSUME ReplyAssumption == Replies \subseteq Seq(Int)

VARIABLES
  points,      \* the collection
  query,       \* the question and the implementations bound
  stage,       \* "query", "rerank", "done" or "error"
  retrieved,   \* what query_similar returned
  scores,      \* the scores of the reranker so far
  evidence     \* what rerank returned: positions in `retrieved`, by final_rank

retrievalVars == <<points, query, stage, retrieved, scores, evidence>>

Take(s, n) == SubSeq(s, 1, IF n < Len(s) THEN n ELSE Len(s))
Nearness(S) == {p \in S \X S : p[1].similarity > p[2].similarity}
BySimilarity(S) == InOrder(S, Nearness(S))

RetrievalInit ==
  /\ points \in Collections
  /\ query \in Queries
  /\ stage = "query"
  /\ retrieved = <<>> /\ scores = <<>> /\ evidence = <<>>

\* _matches_filters: every filter must let the chunk pass.
Passes(c, filters) ==
  ("native" \in filters => c.native) /\ ("contains" \in filters => c.contains)

\* The in-memory store scores what passes, sorts it and takes the first.
QueryInMemory ==
  Take(BySimilarity({c \in points : Passes(c, query.filters)}), query.retrieve_top_k)

\* Which filters ChromaDB evaluates, and which the adapter does.
NativeFilters == query.filters \cap {"native"}
PostFilters == query.filters \cap {"contains"}

\* Mutation: nothing is fetched for what the post-filter takes away.
FetchNoMore == query.retrieve_top_k

\* Over-fetch when `contains` has to be evaluated afterwards.
FetchCount == IF PostFilters # {} THEN query.retrieve_top_k * 4 ELSE query.retrieve_top_k

\* The index returns the nearest chunks its `where` lets pass.
Fetched ==
  Take(BySimilarity({c \in points : Passes(c, NativeFilters)}), FetchCount)

\* _rows_to_scored_chunks: the post-filter, until top_k have passed.
QueryChroma ==
  LET passing == {i \in DOMAIN Fetched : Passes(Fetched[i], PostFilters)}
  IN  Take(AtPositions(Fetched, passing), query.retrieve_top_k)

\* A missing collection is empty; another dimension raises ValueError.
QuerySimilar ==
  /\ stage = "query"
  /\ retrieved' = IF query.collection # "there" THEN <<>>
                  ELSE IF query.store = "in_memory" THEN QueryInMemory ELSE QueryChroma
  /\ stage' = IF query.collection = "other dimension" THEN "error"
              ELSE IF retrieved' = <<>> THEN "done" ELSE "rerank"
  /\ UNCHANGED <<points, query, scores, evidence>>

Unscored == stage = "rerank" /\ Len(scores) < Len(retrieved)

\* _parse_score: the first number, zero if there is none.
ParseScore(reply) == IF reply = <<>> THEN 0 ELSE Head(reply)

\* The LLM judges one chunk after the other; a call may raise.
Judge ==
  /\ Unscored /\ query.reranker = "llm"
  /\ \E reply \in Replies : scores' = Append(scores, ParseScore(reply))
  /\ UNCHANGED <<points, query, stage, retrieved, evidence>>

\* The cross-encoder scores all pairs in one call.
Score ==
  /\ Unscored /\ query.reranker = "cross_encoder"
  /\ scores' \in [DOMAIN retrieved -> {ParseScore(reply) : reply \in Replies}]
  /\ UNCHANGED <<points, query, stage, retrieved, evidence>>

\* The judge raises, or the scorer does or returns another number of scores.
ScoringFails ==
  /\ Unscored
  /\ stage' = "error"
  /\ UNCHANGED <<points, query, retrieved, scores, evidence>>

\* Mutation: sorted by score with reverse=True, which turns ties round.
AheadReversed(i, k) == scores[i] > scores[k] \/ (scores[i] = scores[k] /\ i > k)

\* The key (-score, position) of both rerankers.
Ahead(i, k) == scores[i] > scores[k] \/ (scores[i] = scores[k] /\ i < k)
FinalOrder == {p \in (DOMAIN retrieved) \X (DOMAIN retrieved) : Ahead(p[1], p[2])}

Rank ==
  /\ stage = "rerank" /\ ~Unscored
  /\ evidence' = Take(InOrder(DOMAIN retrieved, FinalOrder),
                      IF query.rerank_top_k < 0 THEN 0 ELSE query.rerank_top_k)
  /\ stage' = "done"
  /\ UNCHANGED <<points, query, retrieved, scores>>

RetrievalOver == stage \in {"done", "error"} /\ UNCHANGED retrievalVars

RetrievalNext == QuerySimilar \/ Judge \/ Score \/ ScoringFails \/ Rank \/ RetrievalOver

RetrievalSpec == RetrievalInit /\ [][RetrievalNext]_retrievalVars
-----------------------------------------------------------------------------
\* The stores are interchangeable: what is retrieved are the nearest chunks
\* that pass all filters, nearest first, never more than retrieve_top_k of them,
\* and fewer only if no more pass.  The exception is ChromaDB's, with a
\* `contains` filter: a chunk that passes may be passed over if there are four
\* times retrieve_top_k nearer ones for the index to return instead.
Nearer(c) == {d \in points : d.similarity > c.similarity}
Passing(S) == {c \in S : Passes(c, query.filters)}

RetrievedIsNearest ==
  LET found == Range(retrieved)
      left == Passing(points) \ found
  IN  stage # "query" /\ query.collection = "there" =>
        /\ found \subseteq Passing(points)
        /\ \A i, k \in DOMAIN retrieved :
             i < k => retrieved[i].similarity > retrieved[k].similarity
        /\ \A c \in found : Passing(Nearer(c)) \subseteq found
        /\ Len(retrieved) <= query.retrieve_top_k
        /\ Len(retrieved) < query.retrieve_top_k => \A c \in left :
             /\ query.store = "chromadb" /\ PostFilters # {}
             /\ Cardinality({d \in Nearer(c) : Passes(d, NativeFilters)})
                  >= 4 * query.retrieve_top_k

\* What the model is shown are the best chunks by score, best first, equals
\* in the order of retrieval, none twice and none passed over: as many as were
\* asked for if so many were retrieved, never more, and none for a negative
\* number; the two rerankers differ in nothing but the scores.
EvidenceIsBest ==
  stage = "done" =>
    /\ Len(evidence) <= IF query.rerank_top_k < 0 THEN 0 ELSE query.rerank_top_k
    /\ \A i, k \in DOMAIN evidence : i < k =>
         /\ evidence[i] # evidence[k]
         /\ scores[evidence[i]] >= scores[evidence[k]]
         /\ scores[evidence[i]] = scores[evidence[k]] => evidence[i] < evidence[k]
    /\ \A i \in DOMAIN retrieved \ Range(evidence) :
         /\ Len(evidence) >= query.rerank_top_k
         /\ \A k \in Range(evidence) :
              scores[k] > scores[i] \/ (scores[k] = scores[i] /\ k < i)
=============================================================================
