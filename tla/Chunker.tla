------------------------------- MODULE Chunker -------------------------------
(***************************************************************************)
(* Chunker::varSizeChunking: the file is read block by block; every byte   *)
(* goes to the chunk buffer, and the fingerprint of the last               *)
(* slidingWinSize bytes of it, kept by a rolling hash, decides where a     *)
(* chunk ends.  Deduplication rests on that decision depending on nothing  *)
(* but these bytes.                                                        *)
(*                                                                         *)
(* The fingerprint is a 16-bit variable; the tables of ChunkerInit hold    *)
(* numbers modulo polyMOD + 1 = 2^23.  Both moduli are parameters.         *)
(***************************************************************************)
EXTENDS Integers, Sequences, SequencesExt

CONSTANTS
  minChunkSize, maxChunkSize, slidingWinSize, ReadSize,
  polyBase,
  Modulus,    \* polyMOD + 1
  Word,       \* 2^16, for uint16_t winFp
  Anchors,    \* anchorMask + 1
  Bytes,      \* the values of a byte in the files
  MaxFile     \* bound: the length of a file

ASSUME ChunkerAssumption ==
  /\ {minChunkSize, maxChunkSize, slidingWinSize, ReadSize} \subseteq Nat \ {0}
  /\ minChunkSize < maxChunkSize /\ slidingWinSize < maxChunkSize
  /\ {Modulus, Word, Anchors} \subseteq Nat \ {0} /\ polyBase \in Nat
  /\ Word % Anchors = 0 /\ Modulus % Word = 0
  /\ Bytes \subseteq Nat

VARIABLES
  input,    \* the file
  read,     \* bytes read from it so far
  i,        \* bytes of them that have been looked at
  eof,      \* a read met the end of the file
  chunkBuffer,
  winFp,
  chunks,   \* the chunks cut so far
  done

chunkerVars == <<input, read, i, eof, chunkBuffer, winFp, chunks, done>>

\* ChunkerInit: powerLUT[n] is power[n + 1]
power[n \in 1 .. slidingWinSize] ==
  IF n = 1 THEN 1 ELSE (power[n - 1] * polyBase) % Modulus

removeLUT ==
  [byte \in Bytes |-> (Modulus - ((byte * power[slidingWinSize]) % Modulus)) % Modulus]

\* winFp is not initialised: it starts as what memory happened to hold
ChunkerInit ==
  /\ input \in UNION {[1 .. n -> Bytes] : n \in 0 .. MaxFile}
  /\ read = 0 /\ i = 0
  /\ eof = FALSE
  /\ chunkBuffer = <<>>
  /\ winFp \in 0 .. Word - 1
  /\ chunks = <<>>
  /\ done = FALSE

\* Faulty variant: the end is only seen by a read that got something.
ReadNoEnd ==
  /\ i = read /\ ~eof
  /\ LET end == read + ReadSize IN
       /\ read' = IF end <= Len(input) THEN end ELSE Len(input)
       /\ eof' = (end > Len(input) /\ read' > read)
  /\ UNCHANGED <<input, i, chunkBuffer, winFp, chunks, done>>

\* ifstream::read of one block, short at the end of the file
Read ==
  /\ i = read /\ ~eof
  /\ LET end == read + ReadSize IN
       /\ read' = IF end <= Len(input) THEN end ELSE Len(input)
       /\ eof' = (end > Len(input))
  /\ UNCHANGED <<input, i, chunkBuffer, winFp, chunks, done>>

Byte == input[i + 1]
Cnt  == Len(chunkBuffer)

Take ==
  /\ i < read
  /\ i' = i + 1
  /\ UNCHANGED <<input, read, eof, done>>

\* the sliding window is not full yet
Fill ==
  /\ Take
  /\ Cnt < slidingWinSize
  /\ chunkBuffer' = Append(chunkBuffer, Byte)
  /\ winFp' = ((winFp + Byte * power[slidingWinSize - Cnt]) % Modulus) % Word
  /\ UNCHANGED chunks

\* the fingerprint when the window has moved on by one byte
Slid ==
  LET v == chunkBuffer[Cnt - slidingWinSize + 1]
  IN  (((winFp + removeLUT[v]) * polyBase + Byte) % Modulus) % Word

\* Faulty variant: a chunk ends one byte behind maxChunkSize.
EndsOver(size, fp) ==
  \/ size >= minChunkSize /\ fp % Anchors = 0
  \/ size > maxChunkSize

\* does a chunk end here: an anchor behind minChunkSize bytes, or maxChunkSize
Ends(size, fp) ==
  \/ size >= minChunkSize /\ fp % Anchors = 0
  \/ size >= maxChunkSize

Slide ==
  /\ Take
  /\ Cnt >= slidingWinSize
  /\ ~Ends(Cnt + 1, Slid)
  /\ chunkBuffer' = Append(chunkBuffer, Byte)
  /\ winFp' = Slid
  /\ UNCHANGED chunks

\* Faulty variants: the byte at the cut is dropped; winFp is not reset.
CutDropsByte ==
  /\ Take
  /\ Cnt >= slidingWinSize
  /\ Ends(Cnt + 1, Slid)
  /\ chunks' = Append(chunks, chunkBuffer)
  /\ chunkBuffer' = <<>> /\ winFp' = 0

CutKeepsFp ==
  /\ Take
  /\ Cnt >= slidingWinSize
  /\ Ends(Cnt + 1, Slid)
  /\ chunks' = Append(chunks, Append(chunkBuffer, Byte))
  /\ chunkBuffer' = <<>> /\ winFp' = Slid

CutHere ==
  /\ Take
  /\ Cnt >= slidingWinSize
  /\ Ends(Cnt + 1, Slid)
  /\ chunks' = Append(chunks, Append(chunkBuffer, Byte))
  /\ chunkBuffer' = <<>> /\ winFp' = 0

\* the final chunk
Finish ==
  /\ ~done /\ eof /\ i = read
  /\ done' = TRUE
  /\ IF Cnt # 0
     THEN chunks' = Append(chunks, chunkBuffer) /\ chunkBuffer' = <<>> /\ winFp' = 0
     ELSE UNCHANGED <<chunks, chunkBuffer, winFp>>
  /\ UNCHANGED <<input, read, i, eof>>

ChunkerNext == Read \/ Fill \/ Slide \/ CutHere \/ Finish

ChunkerSpec == ChunkerInit /\ [][ChunkerNext]_chunkerVars /\ WF_chunkerVars(ChunkerNext)

-----------------------------------------------------------------------------
(* Properties                                                              *)

\* The fingerprint of a window, as a polynomial of its bytes.
Fingerprint(w) ==
  LET fp[n \in 0 .. Len(w)] == IF n = 0 THEN 0 ELSE (fp[n - 1] * polyBase + w[n]) % Word
  IN  fp[Len(w)]

\* the last slidingWinSize bytes of s
Window(s) == SubSeq(s, Len(s) - slidingWinSize + 1, Len(s))

\* Content alone says that a chunk may end behind s.
Boundary(s) == Len(s) > slidingWinSize /\ Ends(Len(s), Fingerprint(Window(s)))

\* The chunks and the buffer are the bytes looked at, each once and in order,
\* whatever the blocks: restoring the chunks restores the file.
NothingLost ==
  /\ FlattenSeq(chunks) \o chunkBuffer = SubSeq(input, 1, i)
  /\ done => FlattenSeq(chunks) = input

\* The bytes never run over chunkBuffer, which has maxChunkSize of them, and every
\* chunk but the last has minChunkSize bytes or more.
SizesInBounds ==
  /\ Cnt < maxChunkSize
  /\ \A n \in 1 .. Len(chunks) :
       /\ Len(chunks[n]) <= maxChunkSize
       /\ Len(chunks[n]) >= minChunkSize \/ (done /\ n = Len(chunks))

\* chunks[n] ends at the first place its own bytes allow.
EndsWhereContentSays(n) ==
  /\ Boundary(chunks[n])
  /\ \A m \in 1 .. Len(chunks[n]) - 1 : ~Boundary(SubSeq(chunks[n], 1, m))

\* Every chunk between the first and the last ends at the first place its own bytes
\* allow: not what came before it, nor where a block ended, moves its end.  Equal
\* data therefore falls into equal chunks again behind the first common cut.  (The
\* first chunk is left out: winFp is not initialised, and may move its end.)
CutByContent ==
  \A n \in 2 .. Len(chunks) : ~(done /\ n = Len(chunks)) => EndsWhereContentSays(n)

\* The chunking of every file ends, also when its size is a multiple of the block's.
Ended == <>done
=============================================================================
