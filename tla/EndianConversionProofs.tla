----------------------- MODULE EndianConversionProofs -----------------------
(***************************************************************************)
(* EndianConversion for every length, alignment and chunk size: a call     *)
(* converts all words of its vector and writes no line beyond its last.    *)
(***************************************************************************)
EXTENDS EndianConversion, TLAPS

\* The chunk that is converted is a part of the vector.
ChunkInv ==
    /\ base <= count
    /\ phase = "done" <=> base = count

\* Where the loops are.  Lines are only written on their boundaries; a line that
\* was not full leaves the loop variable behind the end of the chunk.
LoopInv ==
    /\ phase = "done" => i = 0
    /\ phase \in {"head", "tail"} => i <= Words
    /\ phase = "lines" =>
          /\ i <= Words + 7
          /\ i # Words => ~Unaligned
          /\ i > Words => i >= 8

\* What is behind the loop variable is converted, up to the end of the chunk.
DoneInv == \A k \in Memory : k < base + i /\ k < base + Words => dst[k] = "converted"

\* What is written behind the vector is in its last line.
EndInv == \A k \in Memory : k >= count /\ dst[k] # "user" => LineOf(k) = LineOf(count - 1)

CInv == ConversionTypeOK /\ ChunkInv /\ LoopInv /\ DoneInv /\ EndInv

-----------------------------------------------------------------------------

\* The length of a chunk (min of chunk_size and what is left of the vector).
LEMMA WordsOfChunk ==
    ASSUME count \in Nat, base \in Nat, base <= count
    PROVE  /\ Words \in Nat
           /\ Words <= ChunkWords
           /\ base + Words <= count
           /\ base < count => Words > 0
BY ConversionAssumption DEF Words

\* The words of an aligned line are in the same line.
LEMMA SameLine ==
    ASSUME NEW a \in Nat, NEW b \in Nat, a % 8 = 0, a <= b, b <= a + 7
    PROVE  b \div 8 = a \div 8
OBVIOUS

\* Initially nothing is written.
LEMMA InitCInv == ConversionInit => CInv
<1> SUFFICES ASSUME ConversionInit PROVE CInv
  OBVIOUS
<1> USE ConversionAssumption DEF ConversionInit
<1>1. ConversionTypeOK
  BY DEF ConversionTypeOK
<1>2. ChunkInv /\ LoopInv
  BY WordsOfChunk DEF ChunkInv, LoopInv, Unaligned
<1>3. DoneInv /\ EndInv
  BY WordsOfChunk DEF DoneInv, EndInv, Memory
<1> QED BY <1>1, <1>2, <1>3 DEF CInv

\* A word of the first or the last loop.
LEMMA WordKeepsCInv ==
    ASSUME CInv, HeadWord \/ TailWord
    PROVE  CInv'
<1> USE ConversionAssumption
<1>0. /\ base < count /\ i < Words /\ base + i \in Memory
      /\ count \in Nat /\ base \in Nat /\ i \in Nat /\ align \in Nat
      /\ Words \in Nat /\ base + Words <= count /\ Words <= ChunkWords
  BY WordsOfChunk DEF CInv, ChunkInv, LoopInv, ConversionTypeOK, HeadWord, TailWord, Memory
<1>1. /\ UNCHANGED <<count, align, base, phase>> /\ i' = i + 1 /\ Words' = Words
      /\ dst' = [dst EXCEPT ![base + i] = "converted"]
      /\ phase \in {"head", "tail"}
  BY DEF HeadWord, TailWord, Words
<1>2. ConversionTypeOK'
  BY <1>0, <1>1 DEF CInv, ConversionTypeOK
<1>3. ChunkInv' /\ LoopInv'
  BY <1>0, <1>1 DEF CInv, ChunkInv, LoopInv, ConversionTypeOK
<1>4. DoneInv'
  <2> SUFFICES ASSUME NEW k \in Memory, k < base + (i + 1), k < base + Words
               PROVE  dst'[k] = "converted"
    BY <1>1 DEF DoneInv, Memory
  <2>1. k \in Nat
    BY DEF Memory
  <2>2. CASE k = base + i
    BY <1>0, <1>1, <2>2 DEF CInv, ConversionTypeOK
  <2>3. CASE k # base + i
    BY <1>0, <1>1, <2>1, <2>3 DEF CInv, ConversionTypeOK, DoneInv
  <2> QED BY <2>2, <2>3
<1>5. EndInv'
  <2> SUFFICES ASSUME NEW k \in Memory, k >= count, dst'[k] # "user"
               PROVE  LineOf(k) = LineOf(count - 1)
    BY <1>1 DEF EndInv, LineOf, Memory
  <2> QED BY <1>0, <1>1 DEF CInv, ConversionTypeOK, EndInv
<1> QED BY <1>2, <1>3, <1>4, <1>5 DEF CInv

\* The end of the first loop.
LEMMA HeadEndsKeepsCInv ==
    ASSUME CInv, HeadEnds
    PROVE  CInv'
<1> USE ConversionAssumption
<1>0. /\ base < count /\ i <= Words /\ i \in Nat /\ Words \in Nat
  BY WordsOfChunk DEF CInv, ChunkInv, LoopInv, ConversionTypeOK, HeadEnds
<1>1. /\ UNCHANGED <<count, align, base, i, dst>> /\ Words' = Words
      /\ phase' = "lines" /\ Unaligned' = Unaligned
  BY DEF HeadEnds, Words, Unaligned
<1>2. ConversionTypeOK' /\ ChunkInv'
  BY <1>0, <1>1 DEF CInv, ConversionTypeOK, ChunkInv
<1>3. LoopInv'
  BY <1>0, <1>1 DEF LoopInv, HeadEnds
<1>4. DoneInv' /\ EndInv'
  BY <1>1 DEF CInv, DoneInv, EndInv, LineOf, Memory
<1> QED BY <1>2, <1>3, <1>4 DEF CInv

\* A line of the second loop.
LEMMA LineKeepsCInv ==
    ASSUME CInv, Line
    PROVE  CInv'
<1> USE ConversionAssumption
<1>0. /\ base < count /\ i < Words /\ ~Unaligned
      /\ count \in Nat /\ base \in Nat /\ i \in Nat /\ align \in Nat
      /\ Words \in Nat /\ base + Words <= count /\ Words <= ChunkWords
      /\ count <= MaxWords
  BY WordsOfChunk DEF CInv, ChunkInv, LoopInv, ConversionTypeOK, Line, MoreLines
<1>1. /\ UNCHANGED <<count, align, base, phase>> /\ i' = i + 8 /\ Words' = Words
      /\ phase = "lines"
  BY DEF Line, Words
<1>2. \A k \in Memory :
          dst'[k] = IF k \in base + i .. base + i + 7
                    THEN IF k < base + Words THEN "converted" ELSE "foreign"
                    ELSE dst[k]
  BY DEF Line
<1>3. ~Unaligned'
  BY <1>0, <1>1 DEF Unaligned
<1>4. ConversionTypeOK'
  <2>1. dst' \in [Memory -> {"user", "converted", "foreign"}]
    BY DEF Line, CInv, ConversionTypeOK
  <2> QED BY <1>0, <1>1, <2>1 DEF CInv, ConversionTypeOK
<1>5. ChunkInv' /\ LoopInv'
  BY <1>0, <1>1, <1>3 DEF CInv, ChunkInv, LoopInv, ConversionTypeOK
<1>6. DoneInv'
  <2> SUFFICES ASSUME NEW k \in Memory, k < base + (i + 8), k < base + Words
               PROVE  dst'[k] = "converted"
    BY <1>1 DEF DoneInv, Memory
  <2> k \in Nat
    BY DEF Memory
  <2> QED BY <1>0, <1>2 DEF CInv, DoneInv
<1>7. EndInv'
  <2> SUFFICES ASSUME NEW k \in Memory, k >= count, dst'[k] # "user"
               PROVE  LineOf(k) = LineOf(count - 1)
    BY <1>1 DEF EndInv, LineOf, Memory
  <2> k \in Nat
    BY DEF Memory
  <2>1. CASE k \in base + i .. base + i + 7
    <3> DEFINE a == align + base + i
    <3>1. a \in Nat /\ a % 8 = 0
      BY <1>0 DEF Unaligned
    <3>2. align + k \in Nat /\ a <= align + k /\ align + k <= a + 7
      BY <1>0, <2>1
    <3>3. /\ align + (count - 1) \in Nat
          /\ a <= align + (count - 1) /\ align + (count - 1) <= a + 7
      BY <1>0, <2>1
    <3> HIDE DEF a
    <3> QED BY <3>1, <3>2, <3>3, SameLine DEF LineOf
  <2>2. CASE k \notin base + i .. base + i + 7
    BY <1>2, <2>2 DEF CInv, EndInv
  <2> QED BY <2>1, <2>2
<1> QED BY <1>4, <1>5, <1>6, <1>7 DEF CInv

\* The end of the second loop, which steps back into a line that was not full.
LEMMA LinesEndKeepsCInv ==
    ASSUME CInv, LinesEnd
    PROVE  CInv'
<1> USE ConversionAssumption
<1>0. /\ base < count /\ i \in Nat /\ Words \in Nat /\ Words <= ChunkWords
      /\ base \in Nat /\ count \in Nat
  BY WordsOfChunk DEF CInv, ChunkInv, ConversionTypeOK, LinesEnd
<1>1. /\ UNCHANGED <<count, align, base, dst>> /\ Words' = Words /\ phase' = "tail"
      /\ i' = IF i # Words THEN i - 8 ELSE i
  BY DEF LinesEnd, Words
<1>2. i' \in Nat /\ i' <= Words /\ i' <= i
  BY <1>0, <1>1 DEF CInv, LoopInv, LinesEnd, MoreLines
<1>3. ConversionTypeOK' /\ ChunkInv'
  BY <1>0, <1>1, <1>2 DEF CInv, ConversionTypeOK, ChunkInv
<1>4. LoopInv'
  BY <1>1, <1>2 DEF LoopInv
<1>5. DoneInv' /\ EndInv'
  BY <1>0, <1>1, <1>2 DEF CInv, DoneInv, EndInv, LineOf, Memory
<1> QED BY <1>3, <1>4, <1>5 DEF CInv

\* The end of a chunk.
LEMMA ChunkEndsKeepsCInv ==
    ASSUME CInv, ChunkEnds
    PROVE  CInv'
<1> USE ConversionAssumption
<1>0. /\ i = Words /\ base < count /\ base \in Nat /\ count \in Nat /\ Words \in Nat
      /\ base + Words <= count
  BY WordsOfChunk DEF CInv, ChunkInv, ConversionTypeOK, ChunkEnds
<1>1. /\ UNCHANGED <<count, align, dst>> /\ base' = base + Words /\ i' = 0
      /\ phase' = IF base + Words < count THEN "head" ELSE "done"
  BY DEF ChunkEnds, NextBase
<1>2. ConversionTypeOK' /\ ChunkInv'
  BY <1>0, <1>1 DEF CInv, ConversionTypeOK, ChunkInv
<1>3. LoopInv'
  <2>1. Words' \in Nat
    BY <1>0, <1>1 DEF Words
  <2> QED BY <1>1, <2>1 DEF LoopInv
<1>4. DoneInv' /\ EndInv'
  <2>1. DoneInv'
    BY <1>0, <1>1 DEF CInv, DoneInv, Memory
  <2>2. EndInv'
    BY <1>1 DEF CInv, EndInv, LineOf, Memory
  <2> QED BY <2>1, <2>2
<1> QED BY <1>2, <1>3, <1>4 DEF CInv

-----------------------------------------------------------------------------

\* CInv is an invariant: no step of the three loops, for any chunk, disturbs what
\* has been converted.
THEOREM ConversionInvariance == ConversionSpec => []CInv
<1>1. CInv /\ [ConversionNext]_conversionVars => CInv'
  <2> SUFFICES ASSUME CInv, [ConversionNext]_conversionVars PROVE CInv'
    OBVIOUS
  <2>1. CASE UNCHANGED conversionVars
    BY <2>1 DEF CInv, conversionVars, ConversionTypeOK, ChunkInv, LoopInv, DoneInv,
                EndInv, Words, Unaligned, LineOf, Memory
  <2>2. CASE ConversionNext
    BY <2>1, <2>2, WordKeepsCInv, HeadEndsKeepsCInv, LineKeepsCInv, LinesEndKeepsCInv,
       ChunkEndsKeepsCInv DEF ConversionNext, Returned
  <2> QED BY <2>1, <2>2
<1> QED BY <1>1, InitCInv, PTL DEF ConversionSpec

\* The loop variable and the destination keep their types (convert_endianess_32).
THEOREM ConversionTypes == ConversionSpec => []ConversionTypeOK
<1>1. CInv => ConversionTypeOK
  BY DEF CInv
<1> QED BY <1>1, ConversionInvariance, PTL

\* A call returns the converted results of all chunks, whatever the length and the
\* alignment of the vector and the size of a chunk.
THEOREM ResultsAreConverted == ConversionSpec => []ResultConverted
<1>1. CInv => ResultConverted
  BY ConversionAssumption, WordsOfChunk
     DEF CInv, ConversionTypeOK, ChunkInv, LoopInv, DoneInv, ResultConverted, Memory
<1> QED BY <1>1, ConversionInvariance, PTL

\* Streaming stores are aligned and stay in lines the vector has words in.
THEOREM LinesAreOwn == ConversionSpec => []WritesOwnLines
<1>1. CInv => WritesOwnLines
  BY ConversionAssumption, WordsOfChunk
     DEF CInv, ConversionTypeOK, LoopInv, EndInv, WritesOwnLines, MoreLines
<1> QED BY <1>1, ConversionInvariance, PTL
=============================================================================
