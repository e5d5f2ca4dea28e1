-------------------------- MODULE EndianConversion --------------------------
(***************************************************************************)
(* How results get from the receive buffers into the user's vector: every  *)
(* chunk is converted to host byte order, eight words at a time            *)
(* (client_lib, convert_endianess_32): single words up to the first        *)
(* 32-byte line of the destination, then whole lines with streaming        *)
(* stores, then single words again if the last line was not full.          *)
(*                                                                         *)
(* Chunks are converted in the order in which they are received            *)
(* (AllreduceSystem).  A word of the vector is "converted" when it holds   *)
(* its own result; whole lines may also carry words of the receive buffer  *)
(* that do not belong to the chunk.                                        *)
(***************************************************************************)
EXTENDS Naturals

CONSTANTS
    ChunkWords,    \* words of a chunk (64)
    MaxWords       \* bound: length of a vector

ASSUME ConversionAssumption == ChunkWords \in Nat \ {0} /\ MaxWords \in Nat

VARIABLES
    count,     \* the length of the vector
    align,     \* words between the last 32-byte boundary and the vector
    base,      \* where in the vector the current chunk goes
    i,         \* the loop variable
    phase,     \* the loop that is executed
    dst        \* the memory from the start of the vector

conversionVars == <<count, align, base, i, phase, dst>>

\* The vector and as many words behind it as could matter.
Memory == 0 .. MaxWords + 15

ConversionInit ==
    /\ count \in 0 .. MaxWords
    /\ align \in 0 .. 7
    /\ base = 0
    /\ i = 0
    /\ phase = IF count = 0 THEN "done" ELSE "head"
    /\ dst = [k \in Memory |-> "user"]

\* min(chunk_size, size - send_pos), in words.
Words == IF count - base >= ChunkWords THEN ChunkWords ELSE count - base

LineOf(k) == (align + k) \div 8

\* dst + i is not on a 32-byte boundary.
Unaligned == (align + base + i) % 8 # 0

\* The first loop, for one word.
HeadWord ==
    /\ phase = "head"
    /\ i < Words /\ Unaligned
    /\ dst' = [dst EXCEPT ![base + i] = "converted"]
    /\ i' = i + 1
    /\ UNCHANGED <<count, align, base, phase>>

HeadEnds ==
    /\ phase = "head"
    /\ ~(i < Words /\ Unaligned)
    /\ phase' = "lines"
    /\ UNCHANGED <<count, align, base, i, dst>>

\* Faulty variants: one line too many, or only full lines, as if the third loop
\* started where the second ends.
MoreLinesOff == i <= Words

MoreLinesFull == i + 8 <= Words

MoreLines == i < Words

\* Faulty variant: a store of half a line.
LineHalf ==
    /\ phase = "lines"
    /\ MoreLines
    /\ dst' = [k \in Memory |->
                  IF k \in base + i .. base + i + 3
                  THEN IF k < base + Words THEN "converted" ELSE "foreign"
                  ELSE dst[k]]
    /\ i' = i + 8
    /\ UNCHANGED <<count, align, base, phase>>

\* The second loop, for one line: eight words, whether or not the chunk has them.
Line ==
    /\ phase = "lines"
    /\ MoreLines
    /\ dst' = [k \in Memory |->
                  IF k \in base + i .. base + i + 7
                  THEN IF k < base + Words THEN "converted" ELSE "foreign"
                  ELSE dst[k]]
    /\ i' = i + 8
    /\ UNCHANGED <<count, align, base, phase>>

\* "Remaining words": back to the start of the last line.
LinesEnd ==
    /\ phase = "lines"
    /\ ~MoreLines
    /\ phase' = "tail"
    /\ i' = IF i # Words THEN i - 8 ELSE i
    /\ UNCHANGED <<count, align, base, dst>>

\* The third loop, for one word.
TailWord ==
    /\ phase = "tail"
    /\ i < Words
    /\ dst' = [dst EXCEPT ![base + i] = "converted"]
    /\ i' = i + 1
    /\ UNCHANGED <<count, align, base, phase>>

NextBase == base + Words

\* The next chunk, or the end of the call.
ChunkEnds ==
    /\ phase = "tail"
    /\ i = Words
    /\ base' = NextBase
    /\ i' = 0
    /\ phase' = IF NextBase < count THEN "head" ELSE "done"
    /\ UNCHANGED <<count, align, dst>>

Returned == phase = "done" /\ UNCHANGED conversionVars

ConversionNext ==
    HeadWord \/ HeadEnds \/ Line \/ LinesEnd \/ TailWord \/ ChunkEnds \/ Returned

ConversionSpec == ConversionInit /\ [][ConversionNext]_conversionVars

-----------------------------------------------------------------------------
(* Properties. *)

ConversionTypeOK ==
    /\ count \in 0 .. MaxWords /\ align \in 0 .. 7
    /\ base \in 0 .. count /\ i \in 0 .. ChunkWords + 7
    /\ phase \in {"head", "lines", "tail", "done"}
    /\ dst \in [Memory -> {"user", "converted", "foreign"}]

\* Whatever the length and the alignment of the vector: what a line leaves of
\* foreign words in the next chunk is overwritten with its results, and no result
\* is overwritten in turn.
ResultConverted ==
    phase = "done" => \A k \in 0 .. count - 1 : dst[k] = "converted"

\* A call stays in the 32-byte lines its vector has words in: behind the vector it
\* may write up to seven words, as the last line is written as a whole.  Streaming
\* stores, which must be aligned, are only executed on line boundaries.
WritesOwnLines ==
    /\ \A k \in Memory : k >= count /\ dst[k] # "user" => LineOf(k) = LineOf(count - 1)
    /\ phase = "lines" /\ MoreLines => ~Unaligned
=============================================================================
