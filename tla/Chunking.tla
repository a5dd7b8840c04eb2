------------------------------ MODULE Chunking ------------------------------
(***************************************************************************)
(* The two chunkers: chunk() of RecursiveChunker and of FixedSizeChunker,  *)
(* cutting one Markdown text into windows.  Positions are the offsets of   *)
(* the code (0-based, `end` exclusive); of the text only its length and    *)
(* the places where each separator occurs matter.                          *)
(*                                                                         *)
(* The chunker is bound when the process boots, the ChunkConfig is read on *)
(* every batch: an administrator may have changed it in between, to a      *)
(* method the bound chunker does not implement or to any size and overlap. *)
(***************************************************************************)
EXTENDS Integers, Sequences

CONSTANTS
  Texts,             \* texts: their length and the offsets each separator starts at
  Configs,           \* chunking configurations an administrator may store
  SeparatorLengths   \* lengths of the separators, coarsest separator first

Separators == 1 .. Len(SeparatorLengths)
Methods == {"recursive", "fixed_size"}

ASSUME SeparatorAssumption == SeparatorLengths \in Seq(Nat \ {0})
ASSUME TextAssumption ==
  \A t \in Texts :
    /\ t.length \in Nat
    /\ t.occurs \in [Separators -> SUBSET Nat]
ASSUME ConfigAssumption ==
  Configs \subseteq [method: Methods \cup {"semantic"}, size: Int, overlap: Int]

VARIABLES
  text,    \* the Markdown being cut
  config,  \* the ChunkConfig of the call
  bound,   \* the method the bound chunker implements
  pc,      \* "check" the config, cut in the "loop", "done" or "error"
  start,   \* offset the next chunk starts at
  chunks   \* the chunks cut so far, as [start, end]

input == <<text, config, bound>>
vars == <<input, pc, start, chunks>>

Size == config.size
Overlap == config.overlap

Lesser(a, b) == IF a < b THEN a ELSE b
Greater(a, b) == IF a < b THEN b ELSE a

-----------------------------------------------------------------------------
Init ==
  /\ text \in Texts
  /\ config \in Configs
  /\ bound \in Methods
  /\ pc = "check"
  /\ start = 0
  /\ chunks = <<>>

\* Mutation: an overlap as large as the size is accepted.
ConfigAcceptedOffByOne ==
  /\ config.method = bound
  /\ Size > 0
  /\ Overlap >= 0
  /\ Overlap <= Size

ConfigAccepted ==
  /\ config.method = bound
  /\ Size > 0
  /\ Overlap >= 0
  /\ Overlap < Size

\* ValueError: the caller records the document as failed.
Reject ==
  /\ pc = "check"
  /\ ~ConfigAccepted
  /\ pc' = "error"
  /\ UNCHANGED <<input, start, chunks>>

Accept ==
  /\ pc = "check"
  /\ ConfigAccepted
  /\ pc' = IF text.length = 0 THEN "done" ELSE "loop"
  /\ UNCHANGED <<input, start, chunks>>

\* The chunk that starts at `start` ends at `end`; the loop ends with the
\* chunk that reaches the end of the text and goes on at `next` otherwise.
Cut(end, next) ==
  /\ chunks' = Append(chunks, [start |-> start, end |-> end])
  /\ \/ /\ end >= text.length
        /\ pc' = "done"
        /\ UNCHANGED start
     \/ /\ end < text.length
        /\ start' = next
        /\ UNCHANGED pc
  /\ UNCHANGED input

HardEnd == Lesser(start + Size, text.length)

\* Mutation: the window starts over without the overlap's guard.
CutFixedNoOverlap ==
  /\ pc = "loop"
  /\ bound = "fixed_size"
  /\ start < text.length
  /\ Cut(HardEnd, start + Size)

CutFixed ==
  /\ pc = "loop"
  /\ bound = "fixed_size"
  /\ start < text.length
  /\ Cut(HardEnd, start + (Size - Overlap))

Lookback == Greater(1, Size \div 4)

MinEnd == Greater(start + 1, HardEnd - Lookback)

\* The occurrences of separator k that lie in the lookback window.
InWindow(k) ==
  {at \in text.occurs[k] : at >= MinEnd /\ at + SeparatorLengths[k] <= HardEnd}

\* Mutation: a separator only has to start inside the window.
BoundaryOvershoots(end) ==
  \/ /\ \A k \in Separators : \A at \in text.occurs[k] : ~(at >= MinEnd /\ at < HardEnd)
     /\ end = HardEnd
  \/ \E k \in Separators : \E at \in text.occurs[k] :
       /\ at >= MinEnd /\ at < HardEnd
       /\ \A j \in 1 .. k - 1 : InWindow(j) = {}
       /\ end = at + SeparatorLengths[k]

\* `end` is what _find_boundary returns: just after the last occurrence of the
\* coarsest separator in the window, or the hard end.
Boundary(end) ==
  \/ /\ \A k \in Separators : InWindow(k) = {}
     /\ end = HardEnd
  \/ \E k \in Separators : \E at \in InWindow(k) :
       /\ \A j \in 1 .. k - 1 : InWindow(j) = {}
       /\ \A other \in InWindow(k) : other <= at
       /\ end = at + SeparatorLengths[k]

\* Mutation: the character the chunk ends before is skipped.
NextStartSkips(end) == Greater(start + 1, end + 1 - Overlap)

\* The overlap, with forward progress guaranteed.
NextStart(end) == Greater(start + 1, end - Overlap)

CutRecursive ==
  /\ pc = "loop"
  /\ bound = "recursive"
  /\ start < text.length
  /\ \E end \in 1 .. text.length :
       /\ IF HardEnd >= text.length THEN end = text.length ELSE Boundary(end)
       /\ Cut(end, NextStart(end))

\* The call is over: nothing more happens.  (A loop that could neither go on
\* nor end would be a deadlock.)
Returned ==
  /\ pc \in {"done", "error"}
  /\ UNCHANGED vars

Next == Reject \/ Accept \/ CutFixed \/ CutRecursive \/ Returned

Spec == Init /\ [][Next]_vars

-----------------------------------------------------------------------------
(* Properties.                                                             *)

\* The variables have their types, and the loop only runs on an accepted
\* configuration and before the end of the text.
TypeOK ==
  /\ text.length \in Nat
  /\ text.occurs \in [Separators -> SUBSET Nat]
  /\ config \in [method: Methods \cup {"semantic"}, size: Int, overlap: Int]
  /\ bound \in Methods
  /\ pc \in {"check", "loop", "done", "error"}
  /\ start \in Nat
  /\ chunks \in Seq([start: Nat, end: Nat])
  /\ pc = "loop" => ConfigAccepted /\ start < text.length

\* Every chunk is a non-empty slice of the text no longer than the configured
\* size, so that it fits the embedding model the size was chosen for.
ChunksFit ==
  \A k \in 1 .. Len(chunks) :
    /\ chunks[k].start < chunks[k].end
    /\ chunks[k].end - chunks[k].start <= Size
    /\ chunks[k].end <= text.length

\* No character of the text is lost: the first chunk starts the text, each
\* chunk starts inside or right after the one before it, strictly further on,
\* and after the loop the last one ends the text.
NoGaps ==
  /\ chunks # <<>> => chunks[1].start = 0
  /\ \A k \in 1 .. Len(chunks) - 1 :
       /\ chunks[k].start < chunks[k + 1].start
       /\ chunks[k + 1].start <= chunks[k].end
  /\ pc = "done" /\ text.length > 0 =>
       chunks # <<>> /\ chunks[Len(chunks)].end = text.length

\* Adjacent chunks share exactly the configured overlap, and each reaches
\* further than the one before it, provided overlap and lookback together fit
\* the size.  (Otherwise the guard of the next start takes over and windows
\* may crawl forward one character at a time.)
OverlapIsExact ==
  Overlap + Lookback <= Size =>
    \A k \in 1 .. Len(chunks) - 1 :
      /\ chunks[k + 1].start = chunks[k].end - Overlap
      /\ chunks[k].end < chunks[k + 1].end

\* The loop ends: there are never more chunks than characters, whatever the
\* overlap and wherever the separators are.
OneChunkPerCharacter == Len(chunks) <= text.length

\* The windows of a plain sliding window over a text of length n.
SlidingWindows(n, size, overlap) ==
  LET stride == size - overlap
      count == IF n <= size THEN 1 ELSE 1 + (n - size + stride - 1) \div stride
  IN  [k \in 1 .. count |->
         [start |-> (k - 1) * stride, end |-> Lesser((k - 1) * stride + size, n)]]

\* On a text without separators the two chunkers agree, and cut it into the
\* windows of a sliding window: swapping one chunker for the other is
\* invisible to the stages after it.
SameWindows ==
  /\ pc = "done"
  /\ text.length > 0
  /\ bound = "fixed_size" \/ \A k \in Separators : text.occurs[k] = {}
  => chunks = SlidingWindows(text.length, Size, Overlap)
=============================================================================
