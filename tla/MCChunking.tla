----------------------------- MODULE MCChunking -----------------------------
(* Chunking over every text of up to MaxLength newlines and letters.  The    *)
(* separators are the paragraph break (two newlines) and the line break.     *)
(* The same run checks the other pure algorithm, retrieval: a behaviour cuts *)
(* one text, or answers one question, and leaves the other module alone.     *)
EXTENDS Chunking, Retrieval

CONSTANT MaxLength

MCSeparatorLengths == <<2, 1>>

NewlinesAt(n, S) ==
  [length |-> n, occurs |-> << {i \in S : i + 1 \in S}, S >>]

MCTexts ==
  {NewlinesAt(n, S \cap 0 .. n - 1) : n \in 0 .. MaxLength, S \in SUBSET (0 .. MaxLength - 1)}

\* Sizes of which a quarter is less than one, one and two; overlaps that fit
\* the size with the lookback, that do not, and that are refused.
MCConfigs ==
  {[method |-> m, size |-> w[1], overlap |-> w[2]] :
     m \in Methods,
     w \in {<<1, 0>>, <<3, 1>>, <<4, 3>>, <<8, 6>>, <<8, 7>>, <<0, 0>>, <<4, 4>>, <<3, -1>>}}
  \cup {[method |-> "semantic", size |-> 3, overlap |-> 1]}

\* Five chunks, which either pass both filters or fail one of them: with one
\* to retrieve, four that fail `contains` may be nearer than one that passes.
Kinds == {<<TRUE, TRUE>>, <<FALSE, TRUE>>, <<TRUE, FALSE>>}
MCCollections ==
  {{[similarity |-> i, native |-> kind[i][1], contains |-> kind[i][2]] : i \in 1 .. 5} :
     kind \in [1 .. 5 -> Kinds]}

MCQueries ==
  [store: {"in_memory", "chromadb"}, reranker: {"cross_encoder", "llm"},
   collection: {"there"}, filters: SUBSET {"native", "contains"},
   retrieve_top_k: {1, 3}, rerank_top_k: {2}]
  \cup [store: {"in_memory", "chromadb"}, reranker: {"llm"}, rerank_top_k: {-1},
        collection: {"missing", "other dimension", "there"}, filters: {{}}, retrieve_top_k: {1}]

MCReplies == {<<>>, <<-1>>, <<7, 10>>}

NoText == [length |-> 0, occurs |-> << {}, {} >>]
NoConfig == [method |-> "semantic", size |-> 3, overlap |-> 1]
NoQuery == CHOOSE q \in MCQueries : q.collection = "missing"

MCInit ==
  \/ Init /\ points = {} /\ query = NoQuery /\ stage = "done"
          /\ retrieved = <<>> /\ scores = <<>> /\ evidence = <<>>
  \/ RetrievalInit /\ text = NoText /\ config = NoConfig /\ bound = "recursive"
          /\ pc = "error" /\ start = 0 /\ chunks = <<>>

MCNext ==
  \/ Next /\ UNCHANGED retrievalVars
  \/ RetrievalNext /\ UNCHANGED vars

MCSpec == MCInit /\ [][MCNext]_<<vars, retrievalVars>>
=============================================================================
