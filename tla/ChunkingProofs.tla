--------------------------- MODULE ChunkingProofs ---------------------------
(***************************************************************************)
(* For every text, configuration and list of separators, both chunkers     *)
(* cut the text into chunks that fit, leave no gap and advance; where no   *)
(* separator occurs they cut it into the same windows.                     *)
(***************************************************************************)
EXTENDS Chunking, SequenceTheorems, TLAPS

\* The lookback is at least one character.
LEMMA LookbackType ==
  ASSUME TypeOK
  PROVE  Lookback \in Int /\ Lookback >= 1
<1>1. Size \in Int
  BY DEF TypeOK, Size
<1>2. Size \div 4 \in Int
  BY <1>1
<1> QED
  BY <1>2 DEF Lookback, Greater

\* A boundary lies behind the lookback window's start and not past the hard
\* end; _find_boundary never returns an empty chunk.
LEMMA BoundaryInWindow ==
  ASSUME TypeOK, pc = "loop", HardEnd < text.length,
         NEW end \in Int, Boundary(end)
  PROVE  /\ start < end
         /\ end <= start + Size
         /\ start + Size - Lookback < end
         /\ end < text.length
<1>1. HardEnd = start + Size /\ Size > 0
  BY DEF TypeOK, HardEnd, Lesser, ConfigAccepted, Size
<1>2. Lookback \in Int /\ Lookback >= 1
  BY LookbackType
<1>3. /\ start \in Nat /\ Size \in Int /\ text.length \in Nat
  BY DEF TypeOK, Size
<1>4. CASE end = HardEnd
  BY <1>1, <1>2, <1>3, <1>4
<1>5. CASE \E k \in Separators : \E at \in InWindow(k) : end = at + SeparatorLengths[k]
  <2>0. PICK k \in Separators : \E at \in InWindow(k) : end = at + SeparatorLengths[k]
    BY <1>5
  <2>1. PICK at \in InWindow(k) : end = at + SeparatorLengths[k]
    BY <2>0
  <2>2. at \in Nat /\ SeparatorLengths[k] \in Nat \ {0}
    <3>1. text.occurs[k] \subseteq Nat
      BY DEF TypeOK
    <3>2. at \in text.occurs[k]
      BY DEF InWindow
    <3>3. SeparatorLengths[k] \in Nat \ {0}
      BY SeparatorAssumption DEF Separators
    <3> QED
      BY <3>1, <3>2, <3>3
  <2>3. at >= MinEnd /\ end <= HardEnd
    BY <2>1 DEF InWindow
  <2>4. MinEnd >= start + 1 /\ MinEnd >= HardEnd - Lookback
    BY <1>1, <1>2, <1>3 DEF MinEnd, Greater
  <2>5. MinEnd \in Int
    BY <1>1, <1>2, <1>3 DEF MinEnd, Greater
  <2> HIDE DEF MinEnd, HardEnd, Lookback, Size
  <2> QED
    BY <1>1, <1>2, <1>3, <2>1, <2>2, <2>3, <2>4, <2>5
<1> QED
  BY <1>4, <1>5 DEF Boundary

-----------------------------------------------------------------------------
(* Where the loop is, relative to the chunks it has cut.                   *)

Last == chunks[Len(chunks)]

LoopInv ==
  /\ pc \in {"check", "error"} => chunks = <<>>
  /\ chunks = <<>> => start = 0
  /\ pc = "loop" => Len(chunks) <= start
  /\ pc = "loop" /\ chunks # <<>> =>
       /\ Last.start < start
       /\ start <= Last.end
       /\ Last.end < text.length
       /\ Overlap + Lookback <= Size => start = Last.end - Overlap
  /\ pc = "done" /\ text.length > 0 => chunks # <<>> /\ Last.end = text.length

Inv ==
  /\ TypeOK
  /\ LoopInv
  /\ ChunksFit
  /\ NoGaps
  /\ OverlapIsExact
  /\ OneChunkPerCharacter

\* Cutting one chunk keeps the invariant, as long as the chunk is a non-empty
\* piece of the text that fits, and the next start does not skip past its end.
LEMMA CutKeepsInv ==
  ASSUME Inv, pc = "loop", NEW end \in Int, NEW next \in Int,
         start < end, end <= start + Size, end <= text.length,
         end < text.length => start < next /\ next <= end,
         end < text.length /\ Overlap + Lookback <= Size => next = end - Overlap,
         chunks # <<>> /\ Overlap + Lookback <= Size => Last.end < end,
         Cut(end, next)
  PROVE  Inv'
<1> DEFINE n == Len(chunks)
           cut == [start |-> start, end |-> end]
<1>1. /\ start \in Nat /\ text.length \in Nat
      /\ chunks \in Seq([start: Nat, end: Nat]) /\ n \in Nat
      /\ Size \in Int /\ Overlap \in Int
  BY DEF Inv, TypeOK, Size, Overlap
<1>2. cut \in [start: Nat, end: Nat]
  BY <1>1
<1>3. chunks' = Append(chunks, cut) /\ UNCHANGED input
  BY DEF Cut
<1>4. /\ chunks' \in Seq([start: Nat, end: Nat])
      /\ Len(chunks') = n + 1
      /\ chunks'[n + 1] = cut
      /\ \A k \in 1 .. n : chunks'[k] = chunks[k]
  BY <1>1, <1>2, <1>3
<1>5. UNCHANGED <<text, config, bound, Size, Overlap, Lookback>>
  BY <1>3 DEF input, Size, Overlap, Lookback
<1>6. /\ pc' \in {"loop", "done"}
      /\ pc' = "loop" => end < text.length /\ start' = next
      /\ pc' = "done" => end >= text.length /\ start' = start
  BY DEF Cut
<1>7. ConfigAccepted'
  BY <1>5 DEF Inv, TypeOK, ConfigAccepted
<1>8. start' \in Nat /\ (pc' = "loop" => start' < text.length)
  BY <1>1, <1>6
<1>9. TypeOK'
  BY <1>4, <1>5, <1>6, <1>7, <1>8 DEF Inv, TypeOK
<1>10. chunks # <<>> => n >= 1 /\ Last = chunks[n]
  BY <1>1 DEF Last
<1>11. Last' = cut /\ chunks' # <<>>
  BY <1>1, <1>4 DEF Last
<1>12. n <= start
  BY DEF Inv, LoopInv
<1>13. LoopInv'
  <2>1. pc' = "loop" => Len(chunks') <= start'
    BY <1>1, <1>4, <1>6, <1>12
  <2>2. pc' = "loop" => /\ Last'.start < start'
                        /\ start' <= Last'.end
                        /\ Last'.end < text'.length
                        /\ (Overlap + Lookback <= Size)' => start' = Last'.end - Overlap'
    BY <1>1, <1>5, <1>6, <1>11
  <2>3. pc' = "done" => Last'.end = text'.length
    BY <1>1, <1>5, <1>6, <1>11
  <2> QED
    BY <1>6, <1>11, <2>1, <2>2, <2>3 DEF LoopInv
<1>14. ChunksFit'
  <2> SUFFICES ASSUME NEW k \in 1 .. n + 1
               PROVE  /\ chunks'[k].start < chunks'[k].end
                      /\ chunks'[k].end - chunks'[k].start <= Size
                      /\ chunks'[k].end <= text.length
    <3>1. Len(chunks') = n + 1 /\ Size' = Size /\ text' = text
      BY <1>4, <1>5
    <3> QED
      BY <3>1 DEF ChunksFit
  <2>1. CASE k = n + 1
    BY <2>1, <1>1, <1>4
  <2>2. CASE k \in 1 .. n
    BY <2>2, <1>1, <1>4 DEF Inv, ChunksFit
  <2> QED
    BY <2>1, <2>2, <1>1
<1>15. n = 0 => start = 0
  BY <1>1 DEF Inv, LoopInv
<1>16. n >= 1 => chunks[n].start < start /\ start <= chunks[n].end
  BY <1>1, <1>10 DEF Inv, LoopInv
<1>17. NoGaps'
  <2>1. chunks'[1].start = 0
    <3>1. CASE n = 0
      <4>1. chunks'[1] = cut
        BY <3>1, <1>4
      <4> QED
        BY <3>1, <4>1, <1>15
    <3>2. CASE n >= 1
      <4>1. chunks # <<>> /\ chunks'[1] = chunks[1]
        BY <3>2, <1>1, <1>4
      <4> QED
        BY <4>1 DEF Inv, NoGaps
    <3> QED
      BY <3>1, <3>2, <1>1
  <2>2. ASSUME NEW k \in 1 .. n
        PROVE  /\ chunks'[k].start < chunks'[k + 1].start
               /\ chunks'[k + 1].start <= chunks'[k].end
    <3>1. CASE k = n
      BY <3>1, <1>1, <1>4, <1>16
    <3>2. CASE k < n
      <4>1. k \in 1 .. Len(chunks) - 1 /\ k + 1 \in 1 .. n
        BY <3>2, <1>1
      <4>2. chunks[k].start < chunks[k + 1].start /\ chunks[k + 1].start <= chunks[k].end
        BY <4>1 DEF Inv, NoGaps
      <4> QED
        BY <4>1, <4>2, <1>4
    <3> QED
      BY <3>1, <3>2, <1>1
  <2> QED
    BY <2>1, <2>2, <1>1, <1>4, <1>11, <1>13 DEF NoGaps, LoopInv, Last
<1>18. OverlapIsExact'
  <2> SUFFICES ASSUME Overlap + Lookback <= Size, NEW k \in 1 .. n
               PROVE  /\ chunks'[k + 1].start = chunks'[k].end - Overlap
                      /\ chunks'[k].end < chunks'[k + 1].end
    <3>1. Len(chunks') - 1 = n
      BY <1>1, <1>4
    <3>2. /\ (Overlap + Lookback <= Size)' <=> Overlap + Lookback <= Size
          /\ Overlap' = Overlap
      BY <1>5
    <3> QED
      BY <3>1, <3>2 DEF OverlapIsExact
  <2>1. CASE k = n
    <3>1. n >= 1 /\ chunks # <<>> /\ Last = chunks[n]
      BY <2>1, <1>1, <1>10
    <3>2. chunks'[n + 1] = cut /\ chunks'[n] = chunks[n]
      BY <2>1, <1>4
    <3>3. start = chunks[n].end - Overlap
      BY <3>1 DEF Inv, LoopInv
    <3>4. chunks[n].end < end
      BY <3>1
    <3> QED
      BY <2>1, <3>2, <3>3, <3>4
  <2>2. CASE k < n
    <3>1. k \in 1 .. Len(chunks) - 1 /\ k + 1 \in 1 .. n
      BY <2>2, <1>1
    <3>2. chunks[k + 1].start = chunks[k].end - Overlap /\ chunks[k].end < chunks[k + 1].end
      BY <3>1 DEF Inv, OverlapIsExact
    <3> QED
      BY <3>1, <3>2, <1>4
  <2> QED
    BY <2>1, <2>2, <1>1
<1>19. OneChunkPerCharacter'
  BY <1>1, <1>4, <1>5, <1>12 DEF OneChunkPerCharacter
<1> QED
  BY <1>9, <1>13, <1>14, <1>17, <1>18, <1>19 DEF Inv

LEMMA InitInv == Init => Inv
  BY TextAssumption, ConfigAssumption
  DEF Init, Inv, TypeOK, LoopInv, ChunksFit, NoGaps, OverlapIsExact, OneChunkPerCharacter

LEMMA InvStep ==
  ASSUME Inv, [Next]_vars
  PROVE  Inv'
<1>1. /\ start \in Nat /\ text.length \in Nat
      /\ Size \in Int /\ Overlap \in Int
      /\ Lookback \in Int /\ Lookback >= 1
  BY LookbackType DEF Inv, TypeOK, Size, Overlap
<1>2. CASE Reject
  <2>1. UNCHANGED <<text, config, bound, start, chunks, Size, Overlap, Lookback>>
    BY <1>2 DEF Reject, input, Size, Overlap, Lookback
  <2>2. chunks = <<>> /\ pc' = "error"
    BY <1>2 DEF Reject, Inv, LoopInv
  <2> QED
    BY <2>1, <2>2 DEF Inv, TypeOK, LoopInv, ChunksFit, NoGaps, OverlapIsExact, OneChunkPerCharacter
<1>3. CASE Accept
  <2>1. /\ UNCHANGED <<text, config, bound, start, chunks, Size, Overlap, Lookback>>
        /\ UNCHANGED ConfigAccepted
    BY <1>3 DEF Accept, input, Size, Overlap, Lookback, ConfigAccepted
  <2>2. /\ chunks = <<>> /\ start = 0 /\ ConfigAccepted
        /\ pc' = IF text.length = 0 THEN "done" ELSE "loop"
    BY <1>3 DEF Accept, Inv, LoopInv
  <2> QED
    BY <1>1, <2>1, <2>2 DEF Inv, TypeOK, LoopInv, ChunksFit, NoGaps, OverlapIsExact, OneChunkPerCharacter
<1>4. ASSUME pc = "loop"
      PROVE  /\ Size > 0 /\ Overlap >= 0 /\ Overlap < Size
             /\ HardEnd \in Nat /\ start < HardEnd
             /\ HardEnd <= start + Size /\ HardEnd <= text.length
             /\ HardEnd < text.length => HardEnd = start + Size
  BY <1>1, <1>4 DEF Inv, TypeOK, ConfigAccepted, HardEnd, Lesser
<1>5. ASSUME pc = "loop", chunks # <<>>
      PROVE  /\ Last.end \in Nat
             /\ Last.end < text.length
             /\ Overlap + Lookback <= Size => start = Last.end - Overlap
  <2>1. Last \in [start: Nat, end: Nat]
    <3>1. chunks \in Seq([start: Nat, end: Nat])
      BY DEF Inv, TypeOK
    <3>2. Len(chunks) \in 1 .. Len(chunks)
      BY <1>5, <3>1
    <3> QED
      BY <3>1, <3>2, ElementOfSeq DEF Last
  <2>2. /\ Last.end < text.length
        /\ Overlap + Lookback <= Size => start = Last.end - Overlap
    BY <1>5 DEF Inv, LoopInv
  <2> QED
    BY <2>1, <2>2
<1>6. CASE CutFixed
  <2>1. pc = "loop" /\ Cut(HardEnd, start + (Size - Overlap))
    BY <1>6 DEF CutFixed
  <2>2. chunks # <<>> /\ Overlap + Lookback <= Size => Last.end < HardEnd
    BY <1>1, <1>4, <1>5, <2>1
  <2> HIDE DEF HardEnd, Size, Overlap, Lookback, Last
  <2> QED
    BY <1>1, <1>4, <2>1, <2>2, CutKeepsInv
<1>7. CASE CutRecursive
  <2>1. pc = "loop"
    BY <1>7 DEF CutRecursive
  <2>2. PICK end \in 1 .. text.length :
          /\ IF HardEnd >= text.length THEN end = text.length ELSE Boundary(end)
          /\ Cut(end, NextStart(end))
    BY <1>7 DEF CutRecursive
  <2>3. NextStart(end) = IF start + 1 < end - Overlap THEN end - Overlap ELSE start + 1
    BY DEF NextStart, Greater
  <2>4. /\ start < end /\ end <= start + Size /\ end <= text.length
        /\ end < text.length => start + Size - Lookback < end
    <3>1. CASE HardEnd >= text.length
      BY <1>1, <1>4, <2>1, <2>2, <3>1
    <3>2. CASE HardEnd < text.length
      BY <1>1, <1>4, <2>1, <2>2, <3>2, BoundaryInWindow DEF Inv
    <3> QED
      BY <1>1, <1>4, <2>1, <3>1, <3>2
  <2>5. chunks # <<>> /\ Overlap + Lookback <= Size => Last.end < end
    BY <1>1, <1>4, <1>5, <2>1, <2>4
  <2> HIDE DEF HardEnd, Size, Overlap, Lookback, Last
  <2> QED
    BY <1>1, <1>4, <2>1, <2>2, <2>3, <2>4, <2>5, CutKeepsInv
<1>8. CASE Returned \/ UNCHANGED vars
  <2>1. UNCHANGED vars
    BY <1>8 DEF Returned
  <2> QED
    BY <2>1 DEF vars, input, Inv, TypeOK, LoopInv, ChunksFit, NoGaps, OverlapIsExact,
       OneChunkPerCharacter, ConfigAccepted, Last, Size, Overlap, Lookback
<1> QED
  BY <1>2, <1>3, <1>6, <1>7, <1>8 DEF Next

LEMMA InvAlways == Spec => []Inv
  BY InitInv, InvStep, PTL DEF Spec

-----------------------------------------------------------------------------
(* What every stage after the chunker may rely on.                         *)

\* The loop only runs on an accepted configuration and inside the text.
THEOREM ChunkingTypeCorrect == Spec => []TypeOK
<1>1. Inv => TypeOK
  BY DEF Inv
<1> QED
  BY <1>1, InvAlways, PTL

\* No chunk is empty, longer than the configured size or past the text's end,
\* in either chunker (the slices recursive_chunker.py:81-90 builds).
THEOREM EveryChunkFits == Spec => []ChunksFit
<1>1. Inv => ChunksFit
  BY DEF Inv
<1> QED
  BY <1>1, InvAlways, PTL

\* Every character of the text is in some chunk: what
\* test_full_coverage_no_gaps tests on one text.
THEOREM NothingIsLost == Spec => []NoGaps
<1>1. Inv => NoGaps
  BY DEF Inv
<1> QED
  BY <1>1, InvAlways, PTL

\* If overlap and lookback together fit the size, adjacent chunks share
\* exactly the overlap and none lies inside the one before it.
THEOREM OverlapIsKept == Spec => []OverlapIsExact
<1>1. Inv => OverlapIsExact
  BY DEF Inv
<1> QED
  BY <1>1, InvAlways, PTL

\* There are never more chunks than characters: each turn of the loop appends
\* one, so the loop ends for every overlap the configuration check accepts.
THEOREM LoopIsBounded == Spec => []OneChunkPerCharacter
<1>1. Inv => OneChunkPerCharacter
  BY DEF Inv
<1> QED
  BY <1>1, InvAlways, PTL

-----------------------------------------------------------------------------
(* The two chunkers agree where no separator occurs.                       *)

\* The quotient of two naturals is the one number of times s fits into a.
LEMMA Quotient ==
  ASSUME NEW a \in Nat, NEW s \in Nat \ {0}, NEW q \in Nat,
         q * s <= a, a < q * s + s
  PROVE  a \div s = q
<1>1. PICK d \in Int : d = a \div s
  OBVIOUS
<1>2. d * s <= a /\ a < d * s + s
  BY <1>1
<1>3. CASE d < q
  <2>1. (q - d - 1) * s >= 0
    BY <1>3
  <2>2. (q - d - 1) * s = q * s - d * s - s
    OBVIOUS
  <2> QED
    BY <1>2, <2>1, <2>2
<1>4. CASE q < d
  <2>1. (d - q - 1) * s >= 0
    BY <1>4
  <2>2. (d - q - 1) * s = d * s - q * s - s
    OBVIOUS
  <2> QED
    BY <1>2, <2>1, <2>2
<1> QED
  BY <1>1, <1>3, <1>4

LEMMA NextMultiple ==
  ASSUME NEW n \in Int, NEW s \in Int
  PROVE  n * s \in Int /\ (n + 1) * s = n * s + s /\ (n - 1) * s = n * s - s
OBVIOUS

LEMMA ProductIsNatural ==
  ASSUME NEW a \in Nat, NEW s \in Nat
  PROVE  a * s \in Nat
OBVIOUS

\* Whether no separator can move the end of a chunk, and the distance between
\* the starts of two chunks then.
Plain == bound = "fixed_size" \/ \A k \in Separators : text.occurs[k] = {}
Stride == Size - Overlap

\* The k-th window of a sliding window over the text.
Window(k) ==
  [start |-> (k - 1) * Stride, end |-> Lesser((k - 1) * Stride + Size, text.length)]

\* The chunks cut so far are the first windows; the loop goes on exactly while
\* the last of them ends before the text does.
WindowsInv ==
  Plain =>
    /\ \A k \in 1 .. Len(chunks) : chunks[k] = Window(k)
    /\ pc = "loop" =>
         /\ start = Len(chunks) * Stride
         /\ Len(chunks) > 0 => (Len(chunks) - 1) * Stride + Size < text.length
    /\ pc = "done" /\ text.length > 0 =>
         /\ ConfigAccepted
         /\ Len(chunks) > 0
         /\ text.length <= (Len(chunks) - 1) * Stride + Size
         /\ Len(chunks) > 1 => (Len(chunks) - 2) * Stride + Size < text.length

\* One more turn of the loop cuts the next window.
LEMMA CutKeepsWindows ==
  ASSUME Inv, WindowsInv, Plain, pc = "loop", NEW next \in Int,
         HardEnd < text.length => next = start + Stride,
         Cut(HardEnd, next)
  PROVE  WindowsInv'
<1> DEFINE n == Len(chunks)
           cut == [start |-> start, end |-> HardEnd]
<1>1. /\ start \in Nat /\ text.length \in Nat
      /\ chunks \in Seq([start: Nat, end: Nat]) /\ n \in Nat
      /\ Size \in Int /\ Overlap \in Int /\ Stride \in Int
      /\ ConfigAccepted /\ Size > 0 /\ start < text.length
  BY DEF Inv, TypeOK, Size, Overlap, Stride, ConfigAccepted
<1>2. /\ chunks' = Append(chunks, cut)
      /\ UNCHANGED <<text, config, bound, Size, Overlap, Stride, Plain, ConfigAccepted>>
  BY DEF Cut, input, Size, Overlap, Stride, Plain, ConfigAccepted
<1>3. start = n * Stride /\ HardEnd = Lesser(start + Size, text.length)
  BY DEF WindowsInv, HardEnd
<1>4. /\ n * Stride \in Int
      /\ (n + 1 - 1) * Stride = n * Stride
      /\ (n + 1 - 2) * Stride = (n - 1) * Stride
      /\ (n + 1) * Stride = n * Stride + Stride
  BY <1>1, NextMultiple
<1>5. HardEnd \in Nat
  BY <1>1 DEF HardEnd, Lesser
<1>6. /\ Len(chunks') = n + 1
      /\ chunks'[n + 1] = cut
      /\ \A k \in 1 .. n : chunks'[k] = chunks[k]
  BY <1>1, <1>2, <1>5
<1>7. \A k : Window(k)' = Window(k)
  BY <1>2 DEF Window
<1>8. cut = Window(n + 1)
  BY <1>3, <1>4 DEF Window
<1>9. \A k \in 1 .. n + 1 : chunks'[k] = Window(k)
  <2> SUFFICES ASSUME NEW k \in 1 .. n + 1 PROVE chunks'[k] = Window(k)
    OBVIOUS
  <2>1. CASE k = n + 1
    BY <1>6, <1>8, <2>1
  <2>2. CASE k \in 1 .. n
    BY <1>6, <2>2 DEF WindowsInv
  <2> QED
    BY <1>1, <2>1, <2>2
<1>10. CASE HardEnd < text.length
  <2>1. start' = next /\ pc' = "loop" /\ HardEnd = start + Size
    BY <1>1, <1>3, <1>10 DEF Cut, Lesser
  <2>2. start' = (n + 1) * Stride
    BY <1>1, <1>3, <1>4, <1>10, <2>1
  <2>3. (n + 1 - 1) * Stride + Size < text.length
    BY <1>3, <1>4, <1>10, <2>1
  <2>4. \A k \in 1 .. Len(chunks') : chunks'[k] = Window(k)'
    BY <1>6, <1>7, <1>9
  <2>5. start' = Len(chunks') * Stride' /\ (Len(chunks') - 1) * Stride' + Size' < text'.length
    BY <1>2, <1>6, <2>2, <2>3
  <2> QED
    BY <2>1, <2>4, <2>5 DEF WindowsInv
<1>11. CASE ~(HardEnd < text.length)
  <2>1. pc' = "done" /\ text.length <= start + Size
    BY <1>1, <1>3, <1>5, <1>11 DEF Cut, Lesser
  <2>2. text.length <= (n + 1 - 1) * Stride + Size
    BY <1>3, <1>4, <2>1
  <2>3. n + 1 > 1 => (n + 1 - 2) * Stride + Size < text.length
    <3>1. n + 1 > 1 => n > 0
      BY <1>1
    <3> QED
      BY <1>4, <3>1 DEF WindowsInv
  <2>4. n + 1 > 0
    BY <1>1
  <2>5. \A k \in 1 .. Len(chunks') : chunks'[k] = Window(k)'
    BY <1>6, <1>7, <1>9
  <2>6. /\ Len(chunks') > 0
        /\ text'.length <= (Len(chunks') - 1) * Stride' + Size'
        /\ Len(chunks') > 1 => (Len(chunks') - 2) * Stride' + Size' < text'.length
    BY <1>2, <1>6, <2>2, <2>3, <2>4
  <2> QED
    BY <1>1, <1>2, <2>1, <2>5, <2>6 DEF WindowsInv
<1> QED
  BY <1>10, <1>11

LEMMA WindowsStep ==
  ASSUME Inv, WindowsInv, [Next]_vars
  PROVE  WindowsInv'
<1>0. CASE ~Plain
  <2>1. Plain' = Plain
    BY DEF Next, Reject, Accept, CutFixed, CutRecursive, Cut, Returned, vars, input, Plain
  <2> QED
    BY <1>0, <2>1 DEF WindowsInv
<1>1. CASE Reject \/ Accept
  <2>1. /\ chunks = <<>> /\ start = 0
        /\ UNCHANGED <<text, config, bound, chunks, start>>
        /\ pc' = "error" \/ (pc' = "loop") \/ (pc' = "done" /\ text.length = 0)
    BY <1>1 DEF Reject, Accept, input, Inv, LoopInv
  <2>2. Len(chunks) = 0 /\ 0 * Stride' = 0
    <3>1. Stride' = Stride
      BY <2>1 DEF Stride, Size, Overlap
    <3>2. Stride \in Int
      BY DEF Inv, TypeOK, Stride, Size, Overlap
    <3>3. 0 * Stride = 0
      BY <3>2
    <3> QED
      BY <2>1, <3>1, <3>3
  <2> QED
    BY <2>1, <2>2 DEF WindowsInv
<1>2. CASE CutFixed
  <2>1. Plain /\ pc = "loop" /\ Cut(HardEnd, start + (Size - Overlap))
    BY <1>2 DEF CutFixed, Plain
  <2>2. start + (Size - Overlap) \in Int
    BY DEF Inv, TypeOK, Size, Overlap
  <2> QED
    BY <2>1, <2>2, CutKeepsWindows DEF Stride
<1>3. CASE CutRecursive /\ Plain
  <2>1. pc = "loop" /\ bound = "recursive"
    BY <1>3 DEF CutRecursive
  <2>2. PICK end \in 1 .. text.length :
          /\ IF HardEnd >= text.length THEN end = text.length ELSE Boundary(end)
          /\ Cut(end, NextStart(end))
    BY <1>3 DEF CutRecursive
  <2>3. /\ start \in Nat /\ text.length \in Nat
        /\ Size \in Int /\ Overlap \in Int
        /\ Overlap < Size
    BY <2>1 DEF Inv, TypeOK, Size, Overlap, ConfigAccepted
  <2>4. end = HardEnd
    <3>1. HardEnd \in Int /\ HardEnd <= text.length
      BY <2>3 DEF HardEnd, Lesser
    <3>2. CASE HardEnd >= text.length
      BY <2>2, <2>3, <3>1, <3>2
    <3>3. CASE HardEnd < text.length
      <4>1. Boundary(end)
        BY <2>2, <2>3, <3>1, <3>3
      <4>2. \A k \in Separators : text.occurs[k] = {}
        BY <1>3, <2>1 DEF Plain
      <4>3. \A k \in Separators : InWindow(k) = {}
        BY <4>2 DEF InWindow
      <4> QED
        BY <4>1, <4>3 DEF Boundary
    <3> QED
      BY <2>3, <3>1, <3>2, <3>3
  <2>5. NextStart(end) \in Int /\ (HardEnd < text.length => NextStart(end) = start + Stride)
    BY <2>3, <2>4 DEF NextStart, Greater, HardEnd, Lesser, Stride
  <2> QED
    BY <1>3, <2>1, <2>2, <2>4, <2>5, CutKeepsWindows
<1>4. CASE Returned \/ UNCHANGED vars
  <2>1. UNCHANGED vars
    BY <1>4 DEF Returned
  <2>2. UNCHANGED <<text, config, bound, chunks, start, pc, Size, Overlap, Stride, Plain, ConfigAccepted>>
    BY <2>1 DEF vars, input, Size, Overlap, Stride, Plain, ConfigAccepted
  <2>3. \A k : Window(k)' = Window(k)
    BY <2>2 DEF Window
  <2> QED
    BY <2>2, <2>3 DEF WindowsInv
<1> QED
  BY <1>0, <1>1, <1>2, <1>3, <1>4 DEF Next

\* When the loop is over it has cut as many windows as the formula says.
LEMMA WindowsAreCounted ==
  ASSUME Inv, WindowsInv
  PROVE  SameWindows
<1> SUFFICES ASSUME pc = "done", text.length > 0, Plain
             PROVE  chunks = SlidingWindows(text.length, Size, Overlap)
  BY DEF SameWindows, Plain
<1> DEFINE n == text.length
<1>0. PICK m \in Nat : m = Len(chunks)
  BY DEF Inv, TypeOK
<1>1. /\ n \in Nat
      /\ Size \in Int /\ Overlap \in Int
      /\ chunks \in Seq([start: Nat, end: Nat])
  BY DEF Inv, TypeOK, Size, Overlap
<1>2. /\ Size > 0 /\ Stride \in Nat \ {0}
      /\ m > 0
      /\ n <= (m - 1) * Stride + Size
      /\ m > 1 => (m - 2) * Stride + Size < n
      /\ \A k \in 1 .. m : chunks[k] = Window(k)
  BY <1>0, <1>1 DEF WindowsInv, ConfigAccepted, Stride
<1>3. m = IF n <= Size THEN 1 ELSE 1 + (n - Size + Stride - 1) \div Stride
  <2>1. CASE n <= Size
    <3>1. ASSUME m > 1 PROVE FALSE
      <4>1. PICK p \in Nat : p = (m - 2) * Stride
        BY <1>2, <3>1, ProductIsNatural
      <4>2. p + Size < n
        BY <1>2, <3>1, <4>1
      <4> QED
        BY <1>1, <2>1, <4>2
    <3>2. m = 1
      <4>1. m > 0
        BY <1>2
      <4> QED
        BY <1>1, <2>1, <3>1, <4>1
    <3> QED
      BY <2>1, <3>2
  <2>2. CASE ~(n <= Size)
    <3>1. m > 1
      <4>1. CASE m = 1
        <5>1. (m - 1) * Stride = 0
          BY <1>2, <4>1
        <5> QED
          BY <1>1, <1>2, <2>2, <5>1
      <4>2. m > 0
        BY <1>2
      <4> QED
        BY <4>1, <4>2
    <3>2. PICK q \in Nat : q = m - 1
      BY <1>1, <3>1
    <3>3. /\ (m - 2) * Stride = q * Stride - Stride
          /\ (m - 1) * Stride = q * Stride
          /\ q * Stride \in Int
      BY <1>1, <1>2, <3>2, NextMultiple
    <3>4. /\ q * Stride <= n - Size + Stride - 1
          /\ n - Size + Stride - 1 < q * Stride + Stride
          /\ n - Size + Stride - 1 \in Nat
      <4>1. PICK p \in Int : p = q * Stride
        BY <3>3
      <4>2. n <= p + Size /\ p - Stride + Size < n
        BY <1>2, <3>1, <3>3, <4>1
      <4>3. Stride \in Nat \ {0}
        BY <1>2
      <4>4. /\ p <= n - Size + Stride - 1
            /\ n - Size + Stride - 1 < p + Stride
            /\ n - Size + Stride - 1 \in Nat
        BY <1>1, <2>2, <4>2, <4>3
      <4> QED
        BY <4>1, <4>4
    <3>5. (n - Size + Stride - 1) \div Stride = q
      BY <1>2, <3>2, <3>4, Quotient
    <3> QED
      BY <1>1, <2>2, <3>2, <3>5
  <2> QED
    BY <2>1, <2>2
<1>4. chunks = [k \in 1 .. m |-> Window(k)]
  BY <1>0, <1>1, <1>2
<1>5. SlidingWindows(n, Size, Overlap) = [k \in 1 .. m |-> Window(k)]
  BY <1>3 DEF SlidingWindows, Window, Stride
<1> QED
  BY <1>4, <1>5

\* On a text without separators the recursive chunker cuts exactly the windows
\* the fixed-size chunker cuts on any text, as many as the closed formula
\* says: swapping the chunkers there is invisible to what is embedded.
THEOREM ChunkersAgree == Spec => []SameWindows
<1>1. Init => WindowsInv
  BY DEF Init, WindowsInv
<1>2. Inv /\ WindowsInv /\ [Next]_vars => WindowsInv'
  BY WindowsStep
<1>3. Inv /\ WindowsInv => SameWindows
  BY WindowsAreCounted
<1> QED
  BY <1>1, <1>2, <1>3, InvAlways, PTL DEF Spec
=============================================================================
