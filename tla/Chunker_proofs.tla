--------------------------- MODULE Chunker_proofs ---------------------------
(***************************************************************************)
(* For every file and every sizes ChunkerAssumption allows: the chunk      *)
(* buffer is never overrun, chunks have the configured sizes, they are the *)
(* file when put together, and where they end depends on their bytes only. *)
(* The assumption slidingWinSize < maxChunkSize is needed: a chunk cannot  *)
(* end before its window is full.                                          *)
(***************************************************************************)
EXTENDS Chunker, SequenceTheorems, NatRecursion, TLAPS

\* Once the final chunk is cut nothing follows.
Flags == done \in BOOLEAN /\ (done => eof /\ i = read)

\* The sizes, and what keeps them.
Sized ==
  /\ chunkBuffer \in Seq(Nat)
  /\ chunks \in Seq(Seq(Nat))
  /\ input \in Seq(Nat)
  /\ read \in Nat /\ i \in Nat /\ i <= read /\ read <= Len(input)
  /\ Flags
  /\ SizesInBounds

LEMMA SizedInit == ChunkerInit => Sized
<1> SUFFICES ASSUME ChunkerInit
             PROVE  Sized
  OBVIOUS
<1>1. input \in Seq(Nat)
  <2>1. PICK n \in 0 .. MaxFile : input \in [1 .. n -> Bytes]
    BY DEF ChunkerInit
  <2>2. n \in Nat
    OBVIOUS
  <2>3. input \in Seq(Bytes)
    BY <2>1, <2>2
  <2> QED
    BY <2>3, SeqMonotonic, ChunkerAssumption
<1>2. Cnt < maxChunkSize /\ chunks = <<>>
  BY ChunkerAssumption DEF ChunkerInit, Cnt
<1>3. /\ chunkBuffer \in Seq(Nat) /\ chunks \in Seq(Seq(Nat)) /\ done = FALSE
      /\ read = 0 /\ i = 0 /\ Len(chunks) = 0
  BY DEF ChunkerInit
<1>4. Len(input) \in Nat
  BY <1>1
<1>5. SizesInBounds
  BY <1>2, <1>3 DEF SizesInBounds
<1>6. Flags
  BY DEF ChunkerInit, Flags
<1> QED
  BY <1>1, <1>3, <1>4, <1>5, <1>6 DEF Sized

\* Cutting a chunk of an allowed size off.
LEMMA CutSized ==
  ASSUME chunks \in Seq(Seq(Nat)), NEW c \in Seq(Nat),
         \A n \in 1 .. Len(chunks) :
           minChunkSize <= Len(chunks[n]) /\ Len(chunks[n]) <= maxChunkSize,
         chunks' = Append(chunks, c), Len(c) <= maxChunkSize,
         minChunkSize <= Len(c) \/ done'
  PROVE  /\ chunks' \in Seq(Seq(Nat))
         /\ \A n \in 1 .. Len(chunks') :
              /\ Len(chunks'[n]) <= maxChunkSize
              /\ Len(chunks'[n]) >= minChunkSize \/ (done' /\ n = Len(chunks'))
<1>1. /\ chunks' \in Seq(Seq(Nat)) /\ Len(chunks') = Len(chunks) + 1
      /\ \A n \in 1 .. Len(chunks) : chunks'[n] = chunks[n]
      /\ chunks'[Len(chunks) + 1] = c
  BY AppendProperties
<1>2. Len(chunks) \in Nat /\ Len(c) \in Nat
  OBVIOUS
<1>3. ASSUME NEW n \in 1 .. Len(chunks')
      PROVE  /\ Len(chunks'[n]) <= maxChunkSize
             /\ Len(chunks'[n]) >= minChunkSize \/ (done' /\ n = Len(chunks'))
  <2>1. CASE n \in 1 .. Len(chunks)
    <3>1. chunks'[n] = chunks[n] /\ chunks[n] \in Seq(Nat)
      BY <1>1, <2>1, ElementOfSeq
    <3>2. Len(chunks[n]) \in Nat
      BY <3>1
    <3> QED
      BY <2>1, <3>1, <3>2, ChunkerAssumption
  <2>2. CASE n = Len(chunks) + 1
    BY <1>1, <1>2, <2>2, ChunkerAssumption
  <2> QED
    BY <1>1, <1>2, <2>1, <2>2
<1> QED
  BY <1>1, <1>3

LEMMA SizedStep == Sized /\ [ChunkerNext]_chunkerVars => Sized'
<1> SUFFICES ASSUME Sized, [ChunkerNext]_chunkerVars
             PROVE  Sized'
  OBVIOUS
<1>0. /\ minChunkSize \in Nat /\ maxChunkSize \in Nat \ {0} /\ slidingWinSize \in Nat /\ ReadSize \in Nat \ {0}
      /\ slidingWinSize < maxChunkSize
      /\ Cnt \in Nat /\ Len(input) \in Nat
  BY ChunkerAssumption DEF Sized, Cnt
<1>1. CASE Read
  <2>1. Flags'
    BY <1>1, Zenon DEF Read, Sized, Flags
  <2> QED
    BY <1>0, <1>1, <2>1 DEF Read, Sized, SizesInBounds, Cnt
<1>2. ASSUME Take
      PROVE  /\ ~done /\ ~done' /\ Flags' /\ Byte \in Nat
             /\ input' = input /\ read' = read /\ i' \in Nat /\ i' <= read'
             /\ eof' = eof
             /\ Append(chunkBuffer, Byte) \in Seq(Nat)
             /\ Len(Append(chunkBuffer, Byte)) = Cnt + 1
  <2>0. ~done
    BY <1>2 DEF Take, Sized, Flags
  <2>1. i + 1 \in 1 .. Len(input)
    BY <1>2, <1>0 DEF Take, Sized
  <2>4. ~done' /\ Flags'
    <3>1. done' = done
      BY <1>2 DEF Take
    <3>2. done \in BOOLEAN
      BY DEF Sized, Flags
    <3> QED
      BY <3>1, <3>2, <2>0, Zenon DEF Flags
  <2>2. Byte \in Nat
    BY <2>1, ElementOfSeq DEF Byte, Sized
  <2>3. input' = input /\ read' = read /\ i' \in Nat /\ i' <= read' /\ eof' = eof
    BY <1>2 DEF Take, Sized
  <2> QED
    BY <2>0, <2>1, <2>2, <2>3, <2>4, AppendProperties DEF Sized, Cnt
<1>3. ASSUME Take, chunkBuffer' = Append(chunkBuffer, Byte), chunks' = chunks,
             Cnt + 1 < maxChunkSize
      PROVE  Sized'
  <2>1. /\ chunks \in Seq(Seq(Nat)) /\ input \in Seq(Nat) /\ read <= Len(input) /\ read \in Nat
        /\ \A n \in 1 .. Len(chunks) :
             /\ Len(chunks[n]) <= maxChunkSize
             /\ Len(chunks[n]) >= minChunkSize
    BY <1>2, <1>3 DEF Sized, SizesInBounds
  <2>2. chunkBuffer' \in Seq(Nat) /\ Cnt' = Cnt + 1
    BY <1>2, <1>3 DEF Cnt
  <2>3. SizesInBounds'
    BY <1>3, <2>1, <2>2 DEF SizesInBounds
  <2> QED
    BY <1>2, <1>3, <2>1, <2>2, <2>3 DEF Sized
<1>4. CASE Fill
  BY <1>0, <1>3, <1>4, ChunkerAssumption DEF Fill
<1>5. CASE Slide
  BY <1>0, <1>3, <1>5, ChunkerAssumption DEF Slide, Ends
<1>6. ASSUME ~done
      PROVE  \A n \in 1 .. Len(chunks) :
               minChunkSize <= Len(chunks[n]) /\ Len(chunks[n]) <= maxChunkSize
  BY <1>6 DEF Sized, SizesInBounds
<1>7. CASE CutHere
  <2>1. Take /\ Ends(Cnt + 1, Slid) /\ chunkBuffer' = <<>>
        /\ chunks' = Append(chunks, Append(chunkBuffer, Byte))
    BY <1>7 DEF CutHere
  <2>2. Cnt + 1 <= maxChunkSize /\ Cnt + 1 >= minChunkSize
    BY <1>0, <2>1, ChunkerAssumption DEF Ends, Sized, SizesInBounds
  <2>3. /\ chunks' \in Seq(Seq(Nat))
        /\ \A n \in 1 .. Len(chunks') :
             /\ Len(chunks'[n]) <= maxChunkSize
             /\ Len(chunks'[n]) >= minChunkSize \/ (done' /\ n = Len(chunks'))
    BY <1>2, <1>6, <2>1, <2>2, CutSized DEF Sized
  <2>4. Cnt' < maxChunkSize
    BY <1>0, <2>1 DEF Cnt
  <2>5. SizesInBounds'
    BY <2>3, <2>4 DEF SizesInBounds
  <2>6. chunkBuffer' \in Seq(Nat)
    BY <2>1
  <2> QED
    BY <1>2, <2>1, <2>3, <2>5, <2>6 DEF Sized
<1>8. CASE Finish
  <2>1. /\ ~done /\ done' = TRUE /\ eof /\ i = read
        /\ UNCHANGED <<input, read, i, eof>>
    BY <1>8 DEF Finish
  <2>4. Flags'
    BY <2>1, Zenon DEF Flags
  <2>2. CASE Cnt # 0
    <3>1. chunks' = Append(chunks, chunkBuffer) /\ chunkBuffer' = <<>>
      BY <1>8, <2>2 DEF Finish
    <3>2. /\ chunks' \in Seq(Seq(Nat))
          /\ \A n \in 1 .. Len(chunks') :
               /\ Len(chunks'[n]) <= maxChunkSize
               /\ Len(chunks'[n]) >= minChunkSize \/ (done' /\ n = Len(chunks'))
      <4>1. chunkBuffer \in Seq(Nat) /\ Len(chunkBuffer) <= maxChunkSize
        BY <1>0 DEF Sized, SizesInBounds, Cnt
      <4> QED
        BY <1>6, <2>1, <3>1, <4>1, CutSized DEF Sized
    <3>3. Cnt' < maxChunkSize
      BY <1>0, <3>1 DEF Cnt
    <3> QED
      <4>1. SizesInBounds'
        BY <3>2, <3>3 DEF SizesInBounds
      <4>2. chunkBuffer' \in Seq(Nat)
        BY <3>1
      <4> QED
        BY <2>1, <2>4, <3>1, <3>2, <4>1, <4>2 DEF Sized
  <2>3. CASE Cnt = 0
    <3>1. chunks' = chunks /\ chunkBuffer' = chunkBuffer
      BY <1>8, <2>3 DEF Finish
    <3> QED
      BY <1>0, <2>1, <2>4, <3>1 DEF Sized, SizesInBounds, Cnt
  <2> QED
    BY <2>2, <2>3
<1>9. CASE UNCHANGED chunkerVars
  BY <1>9 DEF chunkerVars, Sized, Flags, SizesInBounds, Cnt
<1> QED
  BY <1>1, <1>4, <1>5, <1>7, <1>8, <1>9 DEF ChunkerNext

\* The chunk buffer is never overrun, and every chunk but the last is at least
\* minChunkSize and at most maxChunkSize bytes long.
THEOREM SizesAlwaysInBounds == ChunkerSpec => []SizesInBounds
<1>1. Sized => SizesInBounds
  BY DEF Sized
<1> QED
  BY <1>1, SizedInit, SizedStep, PTL DEF ChunkerSpec

-----------------------------------------------------------------------------

\* The chunks and the buffer are the bytes looked at.
Kept ==
  /\ FlattenSeq(chunks) \o chunkBuffer = SubSeq(input, 1, i)
  /\ eof => read = Len(input)
  /\ done => chunkBuffer = <<>>

LEMMA KeptInit == ChunkerInit => Kept
<1> SUFFICES ASSUME ChunkerInit
             PROVE  Kept
  OBVIOUS
<1>1. FlattenSeq(<<>>) = <<>> /\ <<>> \o <<>> = <<>> /\ SubSeq(input, 1, 0) = <<>>
  BY SubSeqEmpty DEF FlattenSeq
<1> QED
  BY <1>1 DEF ChunkerInit, Kept

\* The byte looked at is the next of the file.
LEMMA TakenByte ==
  ASSUME Sized, Take
  PROVE  /\ Byte \in Nat /\ ~done /\ ~done' /\ UNCHANGED <<input, read, eof>>
         /\ SubSeq(input', 1, i') = SubSeq(input, 1, i) \o <<Byte>>
<1>1. i' = i + 1 /\ i + 1 \in 1 .. Len(input) /\ (i + 1) - 1 = i /\ input \in Seq(Nat)
  BY DEF Take, Sized
<1>2. Byte \in Nat
  BY <1>1, ElementOfSeq DEF Byte
<1>3. SubSeq(input, 1, i + 1) = SubSeq(input, 1, (i + 1) - 1) \o <<input[i + 1]>>
  <2>1. 1 \in 1 .. Len(input) /\ i + 1 \in 1 .. Len(input)
    BY <1>1
  <2> QED
    BY <1>1, <2>1, SubSeqRecursiveSecond, Zenon
<1>4. ~done /\ done' = done /\ UNCHANGED <<input, read, eof>>
  BY <1>1 DEF Take, Sized, Flags
<1> QED
  BY <1>1, <1>2, <1>3, <1>4 DEF Byte

\* Appending the byte to the buffer keeps the whole.
LEMMA BufferTakes ==
  ASSUME Sized, Kept, Take
  PROVE  FlattenSeq(chunks) \o Append(chunkBuffer, Byte) = SubSeq(input', 1, i')
<1>1. Byte \in Nat /\ SubSeq(input', 1, i') = SubSeq(input, 1, i) \o <<Byte>>
  BY TakenByte
<1>2. /\ FlattenSeq(chunks) \in Seq(Nat) /\ chunkBuffer \in Seq(Nat)
      /\ <<Byte>> \in Seq(Nat)
  BY <1>1, FlattenType DEF Sized
<1>3. Append(chunkBuffer, Byte) = chunkBuffer \o <<Byte>>
  BY <1>1, <1>2, AppendIsConcat
<1>4. FlattenSeq(chunks) \o (chunkBuffer \o <<Byte>>)
        = (FlattenSeq(chunks) \o chunkBuffer) \o <<Byte>>
  BY <1>2, ConcatAssociative
<1> QED
  BY <1>1, <1>3, <1>4, Zenon DEF Kept

LEMMA KeptStep == Sized /\ Kept /\ [ChunkerNext]_chunkerVars => Kept'
<1> SUFFICES ASSUME Sized, Kept, [ChunkerNext]_chunkerVars
             PROVE  Kept'
  OBVIOUS
<1>1. CASE Read
  <2>1. eof' => read' = Len(input')
    <3>1. read + ReadSize \in Nat /\ Len(input) \in Nat
      BY ChunkerAssumption DEF Sized
    <3>2. /\ input' = input
          /\ read' = IF read + ReadSize <= Len(input) THEN read + ReadSize ELSE Len(input)
          /\ eof' = (read + ReadSize > Len(input))
      BY <1>1 DEF Read
    <3>3. eof' => read + ReadSize > Len(input)
      BY <3>2, Zenon
    <3>4. read + ReadSize > Len(input) => read' = Len(input)
      BY <3>1, <3>2
    <3> QED
      BY <3>2, <3>3, <3>4, Zenon
  <2>2. UNCHANGED <<input, i, chunkBuffer, chunks, done>>
    BY <1>1 DEF Read
  <2> QED
    BY <2>1, <2>2 DEF Kept
<1>2. ASSUME Take, chunkBuffer' = Append(chunkBuffer, Byte), chunks' = chunks
      PROVE  Kept'
  <2>1. FlattenSeq(chunks') \o chunkBuffer' = SubSeq(input', 1, i')
    BY <1>2, BufferTakes, Zenon
  <2>2. UNCHANGED <<input, read, eof>> /\ ~done'
    BY <1>2, TakenByte
  <2> QED
    BY <2>1, <2>2, Zenon DEF Kept
<1>3. CASE Fill
  BY <1>2, <1>3, Zenon DEF Fill
<1>4. CASE Slide
  BY <1>2, <1>4, Zenon DEF Slide
<1>5. CASE CutHere
  <2>1. /\ Take /\ chunks' = Append(chunks, Append(chunkBuffer, Byte)) /\ chunkBuffer' = <<>>
    BY <1>5 DEF CutHere
  <2>2. /\ chunks \in Seq(Seq(Nat)) /\ chunks' \in Seq(Seq(Nat))
        /\ Append(chunkBuffer, Byte) \in Seq(Nat)
    BY <2>1, TakenByte, AppendProperties DEF Sized
  <2>3. FlattenSeq(chunks') = SubSeq(input', 1, i')
    BY <2>1, <2>2, BufferTakes, FlattenAppend, Zenon
  <2>4. FlattenSeq(chunks') \o <<>> = FlattenSeq(chunks')
    BY <2>2, FlattenType, ConcatEmptySeq
  <2> QED
    BY <2>1, <2>3, <2>4, TakenByte DEF Kept
<1>6. CASE Finish
  <2>1. UNCHANGED <<input, read, i, eof>>
    BY <1>6 DEF Finish
  <2>2. CASE Cnt # 0
    <3>1. chunks' = Append(chunks, chunkBuffer) /\ chunkBuffer' = <<>>
      BY <1>6, <2>2 DEF Finish
    <3>2. /\ chunks \in Seq(Seq(Nat)) /\ chunks' \in Seq(Seq(Nat)) /\ chunkBuffer \in Seq(Nat)
      BY <3>1, AppendProperties DEF Sized
    <3>3. FlattenSeq(chunks') = FlattenSeq(chunks) \o chunkBuffer
      BY <3>1, <3>2, FlattenAppend, Zenon
    <3>4. FlattenSeq(chunks') \o <<>> = FlattenSeq(chunks')
      BY <3>2, FlattenType, ConcatEmptySeq
    <3> QED
      BY <2>1, <3>1, <3>3, <3>4 DEF Kept
  <2>3. CASE Cnt = 0
    <3>1. chunks' = chunks /\ chunkBuffer' = chunkBuffer
      BY <1>6, <2>3 DEF Finish
    <3>2. chunkBuffer = <<>>
      BY <2>3, EmptySeq DEF Cnt, Sized
    <3> QED
      BY <2>1, <3>1, <3>2 DEF Kept
  <2> QED
    BY <2>2, <2>3
<1>7. CASE UNCHANGED chunkerVars
  BY <1>7 DEF chunkerVars, Kept
<1> QED
  BY <1>1, <1>3, <1>4, <1>5, <1>6, <1>7 DEF ChunkerNext

\* Whatever the file, the blocks and the fingerprints, the chunks are the bytes of
\* the file, each once and in order.
THEOREM NothingEverLost == ChunkerSpec => []NothingLost
<1>1. Sized /\ Kept => NothingLost
  <2> SUFFICES ASSUME Sized, Kept, done
               PROVE  FlattenSeq(chunks) = input
    BY DEF NothingLost, Kept
  <2>1. i = Len(input) /\ chunkBuffer = <<>>
    BY DEF Kept, Sized, Flags
  <2>2. FlattenSeq(chunks) \o <<>> = FlattenSeq(chunks)
    BY FlattenType, ConcatEmptySeq DEF Sized
  <2>3. SubSeq(input, 1, Len(input)) = input
    BY SubSeqFull DEF Sized
  <2> QED
    BY <2>1, <2>2, <2>3, Zenon DEF Kept
<1> QED
  BY <1>1, SizedInit, SizedStep, KeptInit, KeptStep, PTL DEF ChunkerSpec

-----------------------------------------------------------------------------
(* The rolling fingerprint.                                                *)

\* a and b are the same modulo m.
Cong(a, b, m) == \E q \in Int : a = b + q * m

LEMMA CongMod ==
  ASSUME NEW a \in Int, NEW m \in Nat \ {0}
  PROVE  a % m \in 0 .. m - 1 /\ Cong(a % m, a, m)
<1>1. a % m \in 0 .. m - 1
  OBVIOUS
<1>2. a = m * (a \div m) + (a % m)
  OBVIOUS
<1>3. a \div m \in Int
  OBVIOUS
<1> DEFINE q == -(a \div m)
<1>4. a % m = a + q * m /\ q \in Int
  BY <1>1, <1>2, <1>3
<1> HIDE DEF q
<1>5. Cong(a % m, a, m)
  BY <1>4 DEF Cong
<1> QED
  BY <1>1, <1>5

LEMMA CongSame ==
  ASSUME NEW m \in Nat \ {0}, NEW a \in 0 .. m - 1, NEW b \in 0 .. m - 1, Cong(a, b, m)
  PROVE  a = b
<1>1. PICK q \in Int : a = b + q * m
  BY DEF Cong
<1>2. q >= 1 => q * m >= m
  OBVIOUS
<1>3. q <= -1 => q * m <= -m
  OBVIOUS
<1>4. q = 0
  BY <1>1, <1>2, <1>3
<1> QED
  BY <1>1, <1>4

LEMMA CongTrans ==
  ASSUME NEW m \in Int, NEW a \in Int, NEW b \in Int, NEW c \in Int,
         Cong(a, b, m), Cong(b, c, m)
  PROVE  Cong(a, c, m)
<1>1. PICK q \in Int : a = b + q * m
  BY DEF Cong
<1>2. PICK r \in Int : b = c + r * m
  BY DEF Cong
<1>3. a = c + (q + r) * m /\ q + r \in Int
  BY <1>1, <1>2
<1> QED
  BY <1>3 DEF Cong

LEMMA CongSym ==
  ASSUME NEW m \in Int, NEW a \in Int, NEW b \in Int, Cong(a, b, m)
  PROVE  Cong(b, a, m)
<1>1. PICK q \in Int : a = b + q * m
  BY DEF Cong
<1>3. b = a + (-q) * m /\ -q \in Int
  BY <1>1
<1> QED
  BY <1>3 DEF Cong

LEMMA CongSum ==
  ASSUME NEW m \in Int, NEW a \in Int, NEW b \in Int, NEW c \in Int, NEW d \in Int,
         Cong(a, b, m), Cong(c, d, m)
  PROVE  Cong(a + c, b + d, m)
<1>1. PICK q \in Int : a = b + q * m
  BY DEF Cong
<1>2. PICK r \in Int : c = d + r * m
  BY DEF Cong
<1>3. a + c = (b + d) + (q + r) * m /\ q + r \in Int
  BY <1>1, <1>2
<1> QED
  BY <1>3 DEF Cong

LEMMA CongTimes ==
  ASSUME NEW m \in Int, NEW a \in Int, NEW b \in Int, NEW c \in Int,
         Cong(a, b, m)
  PROVE  Cong(c * a, c * b, m)
<1>1. PICK q \in Int : a = b + q * m
  BY DEF Cong
<1>3. c * a = c * b + (c * q) * m /\ c * q \in Int
  BY <1>1
<1> QED
  BY <1>3 DEF Cong

LEMMA CongDivides ==
  ASSUME NEW m \in Nat \ {0}, NEW w \in Nat \ {0}, m % w = 0, NEW a \in Int, NEW b \in Int,
         Cong(a, b, m)
  PROVE  Cong(a, b, w)
<1>1. PICK q \in Int : a = b + q * m
  BY DEF Cong
<1>2. m = w * (m \div w) + (m % w) /\ m \div w \in Int
  OBVIOUS
<1>3. a = b + (q * (m \div w)) * w /\ q * (m \div w) \in Int
  BY <1>1, <1>2
<1> QED
  BY <1>3 DEF Cong

\* The tables are modulo Modulus, which the word divides.
LEMMA Reduced ==
  ASSUME NEW x \in Int
  PROVE  /\ x % Modulus \in Nat /\ Cong(x % Modulus, x, Word)
         /\ (x % Modulus) % Word \in 0 .. Word - 1 /\ Cong((x % Modulus) % Word, x, Word)
<1>0. Modulus \in Nat \ {0} /\ Word \in Nat \ {0} /\ Modulus % Word = 0
  BY ChunkerAssumption
<1> DEFINE y == x % Modulus
           z == y % Word
<1>1. y \in Nat /\ Cong(y, x, Modulus)
  BY <1>0, CongMod
<1> HIDE DEF y
<1>2. Cong(y, x, Word)
  BY <1>0, <1>1, CongDivides
<1>3. z \in 0 .. Word - 1 /\ z \in Int /\ Cong(z, y, Word)
  <2>1. y \in Int /\ Word \in Nat \ {0}
    BY <1>0, <1>1
  <2>2. z \in 0 .. Word - 1 /\ Cong(z, y, Word)
    BY <2>1, CongMod, Zenon
  <2>3. z \in Int
    <3> HIDE DEF z
    <3> QED
      BY <2>1, <2>2
  <2> QED
    BY <2>2, <2>3
<1> HIDE DEF z
<1>4. Cong(z, x, Word)
  BY <1>0, <1>1, <1>2, <1>3, CongTrans
<1> QED
  BY <1>1, <1>2, <1>3, <1>4 DEF y, z

\* polyBase to the n.
Pow == CHOOSE f : Recurses(f, Int, 1, [x \in Nat \X Int |-> x[2] * polyBase])

LEMMA PowIs ==
  Pow \in [Nat -> Int] /\ Pow[0] = 1 /\ \A n \in Nat : Pow[n + 1] = Pow[n] * polyBase
<1> DEFINE step == [x \in Nat \X Int |-> x[2] * polyBase]
<1>1. polyBase \in Int
  BY ChunkerAssumption
<1>2. step \in Steps(Int)
  BY <1>1 DEF Steps
<1>3. \A n \in Nat, v \in Int : step[<<n, v>>] = v * polyBase
  OBVIOUS
<1> HIDE DEF step
<1>4. \E f : Recurses(f, Int, 1, step)
  BY <1>2, Recursion
<1>5. Recurses(Pow, Int, 1, step)
  BY <1>4 DEF Pow, step
<1> QED
  BY <1>3, <1>5 DEF Recurses

\* The value of the first k bytes of s as a polynomial.
At(s, k) == IF k \in 1 .. Len(s) THEN s[k] ELSE 0

Value(s) ==
  CHOOSE f : Recurses(f, Int, 0, [x \in Nat \X Int |-> x[2] * polyBase + At(s, x[1] + 1)])

LEMMA ValueIs ==
  ASSUME NEW s \in Seq(Int)
  PROVE  /\ Value(s) \in [Nat -> Int] /\ Value(s)[0] = 0
         /\ \A k \in 0 .. Len(s) - 1 : Value(s)[k + 1] = Value(s)[k] * polyBase + s[k + 1]
<1> DEFINE step == [x \in Nat \X Int |-> x[2] * polyBase + At(s, x[1] + 1)]
<1>1. polyBase \in Int /\ \A k \in Nat : At(s, k) \in Int
  BY ChunkerAssumption, ElementOfSeq DEF At
<1>2. step \in Steps(Int)
  BY <1>1 DEF Steps
<1>3. \A n \in Nat, v \in Int : step[<<n, v>>] = v * polyBase + At(s, n + 1)
  OBVIOUS
<1> HIDE DEF step
<1>4. \E f : Recurses(f, Int, 0, step)
  BY <1>2, Recursion
<1>5. Recurses(Value(s), Int, 0, step)
  BY <1>4 DEF Value, step
<1>6. ASSUME NEW k \in 0 .. Len(s) - 1
      PROVE  Value(s)[k + 1] = Value(s)[k] * polyBase + s[k + 1]
  <2>1. k \in Nat /\ At(s, k + 1) = s[k + 1] /\ Value(s)[k] \in Int
    BY <1>5 DEF At, Recurses
  <2> QED
    BY <1>3, <1>5, <2>1 DEF Recurses
<1> QED
  BY <1>5, <1>6 DEF Recurses

\* power[n] is polyBase to the n - 1, as far as the word of the fingerprint shows.
LEMMA PowerIs ==
  ASSUME NEW n \in 1 .. slidingWinSize
  PROVE  power[n] \in Int /\ Cong(power[n], Pow[n - 1], Word)
<1>0. /\ slidingWinSize \in Nat \ {0} /\ polyBase \in Int
      /\ Modulus \in Nat \ {0} /\ Word \in Nat \ {0} /\ Modulus % Word = 0
  BY ChunkerAssumption
<1>1. power = [k \in 1 .. slidingWinSize |-> IF k = 1 THEN 1 ELSE (power[k - 1] * polyBase) % Modulus]
  <2> DEFINE step == [x \in Nat \X Int |-> IF x[1] = 0 THEN 1 ELSE (x[2] * polyBase) % Modulus]
  <2>1. step \in Steps(Int)
    BY <1>0 DEF Steps
  <2>2. \A m \in Nat, v \in Int : step[<<m, v>>] = IF m = 0 THEN 1 ELSE (v * polyBase) % Modulus
    OBVIOUS
  <2> HIDE DEF step
  <2>3. PICK g : Recurses(g, Int, 0, step)
    BY <2>1, Recursion
  <2> DEFINE f == [k \in 1 .. slidingWinSize |-> g[k]]
  <2>4. ASSUME NEW k \in 1 .. slidingWinSize
        PROVE  g[k] = IF k = 1 THEN 1 ELSE (f[k - 1] * polyBase) % Modulus
    <3>1. k - 1 \in Nat /\ (k - 1) + 1 = k /\ g[k - 1] \in Int
      BY <1>0, <2>3 DEF Recurses
    <3>2. g[k] = IF k - 1 = 0 THEN 1 ELSE (g[k - 1] * polyBase) % Modulus
      BY <2>2, <2>3, <3>1 DEF Recurses
    <3>3. k # 1 => f[k - 1] = g[k - 1]
      BY <1>0
    <3> QED
      BY <3>1, <3>2, <3>3
  <2>5. f = [k \in 1 .. slidingWinSize |-> IF k = 1 THEN 1 ELSE (f[k - 1] * polyBase) % Modulus]
    BY <2>4
  <2>6. \E h : h = [k \in 1 .. slidingWinSize |-> IF k = 1 THEN 1 ELSE (h[k - 1] * polyBase) % Modulus]
    BY <2>5
  <2> QED
    BY <2>6 DEF power
<1>2. /\ power[1] = 1
      /\ \A k \in 1 .. slidingWinSize : k # 1 => power[k] = (power[k - 1] * polyBase) % Modulus
  BY <1>0, <1>1
<1> DEFINE T == {k \in Nat : k + 1 \in 1 .. slidingWinSize =>
                               power[k + 1] \in Int /\ Cong(power[k + 1], Pow[k], Word)}
<1>3. 0 \in T
  <2>1. Cong(1, 1, Word)
    BY <1>0 DEF Cong
  <2> QED
    BY <1>2, <2>1, PowIs
<1>4. ASSUME NEW k \in Nat, k \in T
      PROVE  k + 1 \in T
  <2> SUFFICES ASSUME (k + 1) + 1 \in 1 .. slidingWinSize
               PROVE  power[(k + 1) + 1] \in Int /\ Cong(power[(k + 1) + 1], Pow[k + 1], Word)
    OBVIOUS
  <2>1. k + 1 \in 1 .. slidingWinSize /\ (k + 1) + 1 # 1 /\ ((k + 1) + 1) - 1 = k + 1
    BY <1>0
  <2>2. power[k + 1] \in Int /\ Cong(power[k + 1], Pow[k], Word)
    BY <1>4, <2>1
  <2>3. power[(k + 1) + 1] = (power[k + 1] * polyBase) % Modulus
    BY <1>2, <2>1
  <2> DEFINE p == power[k + 1]
             r == power[(k + 1) + 1]
             q == Pow[k]
  <2>4. p \in Int /\ q \in Int /\ p * polyBase \in Int /\ q * polyBase \in Int /\ Pow[k + 1] = q * polyBase
    BY <1>0, <2>2, PowIs
  <2>5. (p * polyBase) % Modulus \in Nat /\ Cong((p * polyBase) % Modulus, p * polyBase, Word)
    BY <2>4, Reduced
  <2>6. r \in Int /\ Cong(r, p * polyBase, Word)
    BY <2>3, <2>5
  <2>7. Cong(p * polyBase, q * polyBase, Word)
    <3>1. Cong(polyBase * p, polyBase * q, Word)
      BY <1>0, <2>2, <2>4, CongTimes
    <3>2. polyBase * p = p * polyBase /\ polyBase * q = q * polyBase
      BY <1>0, <2>4
    <3> QED
      BY <3>1, <3>2, Zenon
  <2>8. Cong(r, q * polyBase, Word)
    BY <1>0, <2>4, <2>6, <2>7, CongTrans
  <2> QED
    BY <2>4, <2>6, <2>8
<1> HIDE DEF T
<1>5. n - 1 \in T
  BY <1>3, <1>4, SetInduction
<1>6. (n - 1) + 1 = n
  OBVIOUS
<1> QED
  BY <1>5, <1>6 DEF T

\* The value of a window, from the values of the prefixes it lies between.
LEMMA ValueWindow ==
  ASSUME NEW s \in Seq(Int), NEW a \in Nat, NEW n \in Nat, a + n <= Len(s)
  PROVE  /\ SubSeq(s, a + 1, a + n) \in Seq(Int) /\ Len(SubSeq(s, a + 1, a + n)) = n
         /\ \A j \in 0 .. n :
              Value(SubSeq(s, a + 1, a + n))[j] = Value(s)[a + j] - Value(s)[a] * Pow[j]
<1> DEFINE w == SubSeq(s, a + 1, a + n)
<1>0. polyBase \in Int /\ Len(s) \in Nat
  BY ChunkerAssumption
<1>1. w \in Seq(Int) /\ Len(w) = n /\ \A j \in 1 .. n : w[j] = s[a + j]
  <2>1. a + 1 \in Int /\ a + n \in Int /\ (a + n) - (a + 1) + 1 = n
        /\ \A k \in a + 1 .. a + n : s[k] \in Int
    BY <1>0, ElementOfSeq
  <2>2. /\ w \in Seq(Int)
        /\ Len(w) = IF a + 1 <= a + n THEN (a + n) - (a + 1) + 1 ELSE 0
        /\ \A j \in 1 .. (a + n) - (a + 1) + 1 : w[j] = s[(a + 1) + j - 1]
    BY <2>1, SubSeqProperties
  <2>3. \A j \in 1 .. n : (a + 1) + j - 1 = a + j
    OBVIOUS
  <2> HIDE DEF w
  <2> QED
    BY <2>1, <2>2, <2>3
<1> HIDE DEF w
<1>2. /\ Value(s) \in [Nat -> Int] /\ Value(s)[0] = 0
      /\ \A k \in 0 .. Len(s) - 1 : Value(s)[k + 1] = Value(s)[k] * polyBase + s[k + 1]
  BY ValueIs
<1>3. /\ Value(w) \in [Nat -> Int] /\ Value(w)[0] = 0
      /\ \A k \in 0 .. n - 1 : Value(w)[k + 1] = Value(w)[k] * polyBase + w[k + 1]
  BY <1>1, ValueIs
<1> DEFINE T == {j \in Nat : j <= n => Value(w)[j] = Value(s)[a + j] - Value(s)[a] * Pow[j]}
<1>4. 0 \in T
  BY <1>2, <1>3, PowIs
<1>5. ASSUME NEW j \in Nat, j \in T
      PROVE  j + 1 \in T
  <2> SUFFICES ASSUME j + 1 <= n
               PROVE  Value(w)[j + 1] = Value(s)[a + (j + 1)] - Value(s)[a] * Pow[j + 1]
    OBVIOUS
  <2>1. /\ j \in 0 .. n - 1 /\ j + 1 \in 1 .. n /\ a + j \in 0 .. Len(s) - 1
        /\ a + (j + 1) = (a + j) + 1
    BY <1>0
  <2>2. Value(w)[j] = Value(s)[a + j] - Value(s)[a] * Pow[j]
    BY <1>5, <2>1
  <2>3. Value(w)[j + 1] = Value(w)[j] * polyBase + w[j + 1] /\ w[j + 1] = s[a + (j + 1)]
    BY <1>1, <1>3, <2>1
  <2>4. Value(s)[(a + j) + 1] = Value(s)[a + j] * polyBase + s[(a + j) + 1]
    BY <1>2, <2>1
  <2>5. Pow[j + 1] = Pow[j] * polyBase
    BY PowIs
  <2>6. Value(s)[a + j] \in Int /\ Value(s)[a] \in Int /\ Pow[j] \in Int
    <3>1. Pow \in [Nat -> Int] /\ Value(s) \in [Nat -> Int]
      BY <1>2, PowIs, Zenon
    <3>2. a + j \in Nat
      OBVIOUS
    <3> QED
      BY <3>1, <3>2, Zenon
  <2>7. s[a + (j + 1)] \in Int
    <3>1. a + (j + 1) \in 1 .. Len(s)
      BY <1>0, <2>1
    <3> QED
      BY <3>1, ElementOfSeq
  <2> DEFINE v == Value(s)[a + j]
             u == Value(s)[a]
             p == Pow[j]
             c == s[a + (j + 1)]
  <2>8. v \in Int /\ u \in Int /\ p \in Int /\ c \in Int
    BY <2>6, <2>7
  <2> HIDE DEF v, u, p, c
  <2>9. (v - u * p) * polyBase + c = (v * polyBase + c) - u * (p * polyBase)
    BY <1>0, <2>8
  <2> USE DEF v, u, p, c
  <2> QED
    BY <2>1, <2>2, <2>3, <2>4, <2>5, <2>9, Zenon
<1> HIDE DEF T
<1>6. \A j \in Nat : j \in T
  BY <1>4, <1>5, SetInduction
<1>7. \A j \in 0 .. n : Value(w)[j] = Value(s)[a + j] - Value(s)[a] * Pow[j]
  BY <1>6 DEF T
<1> QED
  BY <1>1, <1>7 DEF w

\* One byte more.
LEMMA ValueAppend ==
  ASSUME NEW s \in Seq(Int), NEW c \in Int
  PROVE  /\ \A k \in 0 .. Len(s) : Value(Append(s, c))[k] = Value(s)[k]
         /\ Value(Append(s, c))[Len(s) + 1] = Value(s)[Len(s)] * polyBase + c
<1> DEFINE t == Append(s, c)
           n == Len(s)
<1>0. n \in Nat /\ t \in Seq(Int) /\ Len(t) = n + 1 /\ t[n + 1] = c /\ \A k \in 1 .. n : t[k] = s[k]
  BY AppendProperties
<1>1. SubSeq(t, 0 + 1, 0 + n) = s
  <2>1. 0 + 1 = 1 /\ 0 + n = n /\ n <= Len(t)
    BY <1>0
  <2>2. SubSeq(t, 0 + 1, 0 + n) \in Seq(Int) /\ Len(SubSeq(t, 0 + 1, 0 + n)) = n
    BY <1>0, <2>1, ValueWindow
  <2>3. ASSUME NEW k \in 1 .. n
        PROVE  SubSeq(t, 1, n)[k] = s[k]
    <3>1. \A d \in 1 .. n : t[d] \in Int
      BY <1>0, ElementOfSeq
    <3>2. \A d \in 1 .. n - 1 + 1 : SubSeq(t, 1, n)[d] = t[1 + d - 1]
      BY <1>0, <3>1, SubSeqProperties
    <3>3. k \in 1 .. n - 1 + 1 /\ 1 + k - 1 = k
      BY <1>0
    <3> QED
      BY <1>0, <3>2, <3>3
  <2> HIDE DEF t
  <2>4. SubSeq(t, 1, n) \in Seq(Int) /\ Len(SubSeq(t, 1, n)) = n
    BY <2>1, <2>2
  <2>5. SubSeq(t, 1, n) = s
    BY <2>3, <2>4, SeqEqual
  <2> QED
    BY <2>1, <2>5
<1>2. Value(t) \in [Nat -> Int] /\ Value(t)[0] = 0 /\ Value(s) \in [Nat -> Int]
  BY <1>0, ValueIs
<1>3. ASSUME NEW k \in 0 .. n
      PROVE  Value(t)[k] = Value(s)[k]
  <2>1. Value(SubSeq(t, 0 + 1, 0 + n))[k] = Value(t)[0 + k] - Value(t)[0] * Pow[k]
    <3>1. 0 + n <= Len(t)
      BY <1>0
    <3> HIDE DEF t
    <3> QED
      BY <1>0, <3>1, ValueWindow
  <2>2. 0 + k = k /\ k \in Nat
    BY <1>0
  <2>3. Value(t)[k] \in Int /\ Pow[k] \in Int
    BY <1>2, <2>2, PowIs
  <2> HIDE DEF t
  <2>4. Value(t)[0 + k] - Value(t)[0] * Pow[k] = Value(t)[k]
    BY <1>2, <2>2, <2>3
  <2> QED
    BY <1>1, <2>1, <2>4, Zenon
<1>4. n \in 0 .. Len(t) - 1 /\ n \in 0 .. n
  BY <1>0
<1>5. Value(t)[n + 1] = Value(t)[n] * polyBase + t[n + 1]
  <2> HIDE DEF t
  <2> QED
    BY <1>0, <1>4, ValueIs
<1>6. Value(t)[n + 1] = Value(s)[n] * polyBase + c
  BY <1>0, <1>3, <1>4, <1>5
<1> QED
  BY <1>3, <1>6

\* A fingerprint is the value of the window, in a word.
LEMMA FingerprintIs ==
  ASSUME NEW w \in Seq(Int)
  PROVE  Fingerprint(w) \in 0 .. Word - 1 /\ Cong(Fingerprint(w), Value(w)[Len(w)], Word)
<1> DEFINE fp[n \in 0 .. Len(w)] == IF n = 0 THEN 0 ELSE (fp[n - 1] * polyBase + w[n]) % Word
<1>0. Len(w) \in Nat /\ polyBase \in Int /\ Word \in Nat \ {0}
  BY ChunkerAssumption
<1>1. Fingerprint(w) = fp[Len(w)]
  BY DEF Fingerprint
<1>2. \E h : h = [n \in 0 .. Len(w) |-> IF n = 0 THEN 0 ELSE (h[n - 1] * polyBase + w[n]) % Word]
  <2> DEFINE step == [x \in Nat \X Int |-> (x[2] * polyBase + At(w, x[1] + 1)) % Word]
  <2>1. \A k \in Nat : At(w, k) \in Int
    BY ElementOfSeq DEF At
  <2>2. step \in Steps(Int)
    BY <1>0, <2>1 DEF Steps
  <2>3. \A m \in Nat, v \in Int : step[<<m, v>>] = (v * polyBase + At(w, m + 1)) % Word
    OBVIOUS
  <2> HIDE DEF step
  <2>4. PICK g : Recurses(g, Int, 0, step)
    BY <2>2, Recursion
  <2> DEFINE f == [n \in 0 .. Len(w) |-> g[n]]
  <2>5. ASSUME NEW n \in 0 .. Len(w)
        PROVE  g[n] = IF n = 0 THEN 0 ELSE (f[n - 1] * polyBase + w[n]) % Word
    <3>1. CASE n = 0
      BY <2>4, <3>1 DEF Recurses
    <3>2. CASE n # 0
      <4>1. n - 1 \in Nat /\ n - 1 \in 0 .. Len(w) /\ (n - 1) + 1 = n /\ n \in 1 .. Len(w)
        BY <1>0, <3>2
      <4>2. g[n] = step[<<n - 1, g[n - 1]>>] /\ g[n - 1] \in Int
        BY <2>4, <4>1 DEF Recurses
      <4>3. step[<<n - 1, g[n - 1]>>] = (g[n - 1] * polyBase + w[n]) % Word
        BY <2>3, <4>1, <4>2 DEF At
      <4> QED
        BY <3>2, <4>1, <4>2, <4>3
    <3> QED
      BY <3>1, <3>2
  <2>6. f = [n \in 0 .. Len(w) |-> IF n = 0 THEN 0 ELSE (f[n - 1] * polyBase + w[n]) % Word]
    BY <2>5
  <2> QED
    BY <2>6
<1>3. fp = [n \in 0 .. Len(w) |-> IF n = 0 THEN 0 ELSE (fp[n - 1] * polyBase + w[n]) % Word]
  BY <1>2
<1> HIDE DEF fp
<1>4. /\ fp[0] = 0
      /\ \A n \in 0 .. Len(w) - 1 : fp[n + 1] = (fp[n] * polyBase + w[n + 1]) % Word
  <2>1. fp[0] = 0
    BY <1>0, <1>3
  <2>2. ASSUME NEW n \in 0 .. Len(w) - 1
        PROVE  fp[n + 1] = (fp[n] * polyBase + w[n + 1]) % Word
    <3>1. n + 1 \in 0 .. Len(w) /\ n + 1 # 0 /\ (n + 1) - 1 = n
      BY <1>0
    <3> QED
      BY <1>3, <3>1
  <2> QED
    BY <2>1, <2>2
<1>5. /\ Value(w) \in [Nat -> Int] /\ Value(w)[0] = 0
      /\ \A n \in 0 .. Len(w) - 1 : Value(w)[n + 1] = Value(w)[n] * polyBase + w[n + 1]
  BY ValueIs
<1> DEFINE T == {n \in Nat : n <= Len(w) => fp[n] \in 0 .. Word - 1 /\ Cong(fp[n], Value(w)[n], Word)}
<1>6. 0 \in T
  <2>1. Cong(0, 0, Word)
    BY <1>0 DEF Cong
  <2> QED
    BY <1>0, <1>4, <1>5, <2>1
<1>7. ASSUME NEW n \in Nat, n \in T
      PROVE  n + 1 \in T
  <2> SUFFICES ASSUME n + 1 <= Len(w)
               PROVE  fp[n + 1] \in 0 .. Word - 1 /\ Cong(fp[n + 1], Value(w)[n + 1], Word)
    OBVIOUS
  <2> DEFINE p == fp[n]
             v == Value(w)[n]
             c == w[n + 1]
  <2>1. n \in 0 .. Len(w) - 1 /\ n + 1 \in 1 .. Len(w)
    BY <1>0
  <2>2. p \in 0 .. Word - 1 /\ Cong(p, v, Word)
    BY <1>7, <2>1
  <2>3. v \in Int /\ c \in Int
    BY <1>5, <2>1, ElementOfSeq
  <2>4. fp[n + 1] = (p * polyBase + c) % Word /\ Value(w)[n + 1] = v * polyBase + c
    BY <1>4, <1>5, <2>1
  <2> HIDE DEF p, v, c
  <2>5. p \in Int /\ polyBase * p + c \in Int /\ polyBase * v + c \in Int
        /\ polyBase * p = p * polyBase /\ polyBase * v = v * polyBase
        /\ polyBase * p \in Int /\ polyBase * v \in Int
    BY <1>0, <2>2, <2>3
  <2>6. Cong(polyBase * p, polyBase * v, Word) /\ Cong(c, c, Word)
    <3>1. c = c + 0 * Word
      BY <1>0, <2>3
    <3> QED
      BY <1>0, <2>2, <2>3, <2>5, <3>1, CongTimes DEF Cong
  <2>7. Cong(polyBase * p + c, polyBase * v + c, Word)
    BY <1>0, <2>3, <2>5, <2>6, CongSum
  <2>8. /\ (polyBase * p + c) % Word \in 0 .. Word - 1
        /\ Cong((polyBase * p + c) % Word, polyBase * p + c, Word)
    BY <1>0, <2>5, CongMod
  <2>9. (polyBase * p + c) % Word \in Int
    BY <1>0, <2>8
  <2>10. Cong((polyBase * p + c) % Word, polyBase * v + c, Word)
    BY <1>0, <2>5, <2>7, <2>8, <2>9, CongTrans
  <2> QED
    BY <2>4, <2>5, <2>8, <2>10, Zenon
<1> HIDE DEF T
<1>8. Len(w) \in T
  BY <1>0, <1>6, <1>7, SetInduction
<1> QED
  BY <1>0, <1>1, <1>8 DEF T

\* What the rolling fingerprint of a buffer s stands for: its bytes at the places
\* they will have in the first window, or the bytes of the last window.
Rolling(s) ==
  IF Len(s) <= slidingWinSize
  THEN Value(s)[Len(s)] * Pow[slidingWinSize - Len(s)]
  ELSE Value(s)[Len(s)] - Value(s)[Len(s) - slidingWinSize] * Pow[slidingWinSize]

\* The bytes in a window are all it stands for.
LEMMA RollingIsWindow ==
  ASSUME NEW s \in Seq(Int), Len(s) >= slidingWinSize
  PROVE  /\ Window(s) \in Seq(Int) /\ Len(Window(s)) = slidingWinSize
         /\ Rolling(s) = Value(Window(s))[slidingWinSize]
         /\ Rolling(s) = Value(s)[Len(s)] - Value(s)[Len(s) - slidingWinSize] * Pow[slidingWinSize]
<1> DEFINE n == slidingWinSize
           a == Len(s) - n
<1>0. n \in Nat \ {0} /\ Len(s) \in Nat /\ a \in Nat /\ a + n = Len(s) /\ n \in 0 .. n
  BY ChunkerAssumption
<1>1. Window(s) = SubSeq(s, a + 1, a + n)
  BY <1>0 DEF Window
<1> HIDE DEF a, n
<1>2. /\ Window(s) \in Seq(Int) /\ Len(Window(s)) = n
      /\ Value(Window(s))[n] = Value(s)[a + n] - Value(s)[a] * Pow[n]
  <2>1. /\ SubSeq(s, a + 1, a + n) \in Seq(Int) /\ Len(SubSeq(s, a + 1, a + n)) = n
        /\ \A j \in 0 .. n : Value(SubSeq(s, a + 1, a + n))[j] = Value(s)[a + j] - Value(s)[a] * Pow[j]
    <3>1. a + n <= Len(s)
      BY <1>0
    <3> QED
      BY <1>0, <3>1, ValueWindow
  <2> QED
    BY <1>0, <1>1, <2>1, Zenon
<1>3. Rolling(s) = Value(s)[Len(s)] - Value(s)[a] * Pow[n]
  <2>1. Len(s) <= n => Len(s) = n /\ a = 0 /\ n - Len(s) = 0
    BY <1>0
  <2>2. Value(s)[0] = 0 /\ Pow[0] = 1 /\ Value(s)[Len(s)] \in Int /\ Pow[n] \in Int
    BY <1>0, ValueIs, PowIs
  <2>3. CASE Len(s) <= n
    <3>1. Rolling(s) = Value(s)[Len(s)] * Pow[n - Len(s)]
      BY <2>3 DEF Rolling, n
    <3>2. Value(s)[Len(s)] * 1 = Value(s)[Len(s)] - 0 * Pow[n]
      BY <2>2
    <3> QED
      BY <2>1, <2>2, <2>3, <3>1, <3>2, Zenon
  <2>4. CASE ~(Len(s) <= n)
    BY <2>4 DEF Rolling, a, n
  <2> QED
    BY <2>3, <2>4
<1> QED
  BY <1>0, <1>2, <1>3 DEF a, n

\* Filling the first window.
LEMMA FillRolls ==
  ASSUME NEW s \in Seq(Int), Len(s) < slidingWinSize, NEW c \in Int, NEW fp \in Int,
         Cong(fp, Rolling(s), Word)
  PROVE  Cong(((fp + c * power[slidingWinSize - Len(s)]) % Modulus) % Word,
              Rolling(Append(s, c)), Word)
<1> DEFINE n == slidingWinSize - Len(s)
           v == Value(s)[Len(s)]
           p == power[n]
           q == Pow[n - 1]
<1>0. /\ Word \in Int /\ polyBase \in Int /\ n \in 1 .. slidingWinSize
      /\ Len(s) \in Nat /\ slidingWinSize \in Nat /\ n - 1 \in Nat /\ (n - 1) + 1 = n
  BY ChunkerAssumption
<1>1. v \in Int /\ Rolling(s) = v * Pow[n]
  BY <1>0, ValueIs DEF Rolling
<1>2. Pow[n] = q * polyBase /\ q \in Int
  BY <1>0, PowIs
<1>3. p \in Int /\ Cong(p, q, Word)
  BY <1>0, PowerIs
<1>4. Rolling(Append(s, c)) = (v * polyBase + c) * q
  <2>1. Len(Append(s, c)) = Len(s) + 1 /\ Len(Append(s, c)) <= slidingWinSize
        /\ slidingWinSize - Len(Append(s, c)) = n - 1
    BY <1>0, AppendProperties
  <2>2. Value(Append(s, c))[Len(s) + 1] = v * polyBase + c
    BY ValueAppend
  <2> QED
    BY <2>1, <2>2 DEF Rolling
<1> HIDE DEF n, v, p, q
<1>5. Cong(fp + c * p, v * (q * polyBase) + c * q, Word)
  <2>1. Cong(c * p, c * q, Word)
    BY <1>0, <1>2, <1>3, CongTimes
  <2>2. c * p \in Int /\ c * q \in Int /\ v * (q * polyBase) \in Int
    BY <1>0, <1>1, <1>2, <1>3
  <2>3. Cong(fp, v * (q * polyBase), Word)
    BY <1>1, <1>2, Zenon
  <2> QED
    BY <1>0, <2>1, <2>2, <2>3, CongSum
<1>6. v * (q * polyBase) + c * q = (v * polyBase + c) * q
  BY <1>0, <1>1, <1>2
<1>7. /\ fp + c * p \in Int /\ (v * polyBase + c) * q \in Int
      /\ ((fp + c * p) % Modulus) % Word \in Int
      /\ Cong(((fp + c * p) % Modulus) % Word, fp + c * p, Word)
  <2>1. fp + c * p \in Int /\ (v * polyBase + c) * q \in Int
    BY <1>0, <1>1, <1>2, <1>3
  <2>2. ((fp + c * p) % Modulus) % Word \in 0 .. Word - 1
        /\ Cong(((fp + c * p) % Modulus) % Word, fp + c * p, Word)
    BY <2>1, Reduced
  <2> QED
    BY <2>1, <2>2
<1>8. Cong(fp + c * p, (v * polyBase + c) * q, Word)
  BY <1>5, <1>6, Zenon
<1>9. Cong(((fp + c * p) % Modulus) % Word, (v * polyBase + c) * q, Word)
  BY <1>0, <1>7, <1>8, CongTrans
<1> QED
  BY <1>4, <1>9, Zenon DEF n, p

\* What removeLUT takes away: the byte at the first place of the window.
LEMMA RemoveIs ==
  ASSUME NEW v \in Bytes
  PROVE  removeLUT[v] \in Int /\ Cong(removeLUT[v], -(v * Pow[slidingWinSize - 1]), Word)
<1> DEFINE p == power[slidingWinSize]
           q == Pow[slidingWinSize - 1]
           x == v * p
           y == x % Modulus
           z == (Modulus - y) % Modulus
<1>0. /\ Word \in Nat \ {0} /\ Modulus \in Nat \ {0} /\ Modulus % Word = 0 /\ v \in Int
      /\ slidingWinSize \in 1 .. slidingWinSize /\ slidingWinSize - 1 \in Nat
  BY ChunkerAssumption
<1>1. removeLUT[v] = z
  BY DEF removeLUT
<1>2. p \in Int /\ Cong(p, q, Word) /\ q \in Int
  BY <1>0, PowerIs, PowIs
<1> HIDE DEF p, q
<1>3. x \in Int /\ v * q \in Int /\ Cong(x, v * q, Word)
  BY <1>0, <1>2, CongTimes
<1> HIDE DEF x
<1>4. y \in Nat /\ Cong(y, x, Word)
  BY <1>3, Reduced
<1> HIDE DEF y
<1>5. z \in Nat /\ Cong(z, Modulus - y, Word)
  <2>1. Modulus - y \in Int
    BY <1>0, <1>4
  <2> QED
    BY <2>1, Reduced
<1> HIDE DEF z
<1>6. Cong(y, v * q, Word)
  BY <1>0, <1>3, <1>4, CongTrans
<1>7. Cong(Modulus - y, -(v * q), Word)
  <2>1. PICK k \in Int : y = v * q + k * Word
    BY <1>6 DEF Cong
  <2>2. Modulus = Word * (Modulus \div Word) + (Modulus % Word) /\ Modulus \div Word \in Int
    BY <1>0
  <2> DEFINE d == Modulus \div Word
             vq == v * q
  <2>3. d \in Int /\ Modulus = Word * d /\ vq \in Int /\ y = vq + k * Word
    BY <1>0, <1>3, <2>1, <2>2
  <2> HIDE DEF d, vq
  <2>4. Modulus - y = -vq + (d - k) * Word /\ d - k \in Int
    BY <1>0, <2>3
  <2>5. Cong(Modulus - y, -vq, Word)
    BY <2>4 DEF Cong
  <2> QED
    BY <2>5 DEF vq
<1>8. Cong(z, -(v * q), Word)
  <2>1. Modulus - y \in Int /\ -(v * q) \in Int /\ z \in Int /\ Word \in Int
    BY <1>0, <1>3, <1>4, <1>5
  <2> QED
    BY <1>5, <1>7, <2>1, CongTrans
<1> QED
  BY <1>1, <1>5, <1>8 DEF q

\* Sliding the window on by a byte.
LEMMA SlideRolls ==
  ASSUME NEW s \in Seq(Int), Len(s) >= slidingWinSize, s[Len(s) - slidingWinSize + 1] \in Bytes,
         NEW c \in Int, NEW fp \in Int, Cong(fp, Rolling(s), Word)
  PROVE  Cong((((fp + removeLUT[s[Len(s) - slidingWinSize + 1]]) * polyBase + c) % Modulus) % Word,
              Rolling(Append(s, c)), Word)
<1> DEFINE n == slidingWinSize
           a == Len(s) - n
           v == s[a + 1]
           r == removeLUT[v]
           q == Pow[n - 1]
           u == Value(s)[a]
           w == Value(s)[Len(s)]
           x == (fp + r) * polyBase + c
           y == (x % Modulus) % Word
<1>0. /\ Word \in Int /\ polyBase \in Int /\ n \in Nat \ {0} /\ n - 1 \in Nat /\ (n - 1) + 1 = n
      /\ Len(s) \in Nat /\ a \in 0 .. Len(s) - 1 /\ v \in Bytes /\ v \in Int
  <2>1. /\ Word \in Int /\ polyBase \in Int /\ n \in Nat \ {0} /\ Bytes \subseteq Int
    BY ChunkerAssumption
  <2>2. n - 1 \in Nat /\ (n - 1) + 1 = n /\ Len(s) \in Nat /\ a \in 0 .. Len(s) - 1
    BY <2>1
  <2>3. v \in Bytes
    OBVIOUS
  <2> QED
    BY <2>1, <2>2, <2>3
<1>1. r \in Int /\ Cong(r, -(v * q), Word)
  BY <1>0, RemoveIs
<1>2. q \in Int /\ Pow[n] = q * polyBase
  BY <1>0, PowIs
<1>3. u \in Int /\ w \in Int /\ Value(s)[a + 1] = u * polyBase + v
  <2>1. /\ Value(s) \in [Nat -> Int]
        /\ \A k \in 0 .. Len(s) - 1 : Value(s)[k + 1] = Value(s)[k] * polyBase + s[k + 1]
    BY ValueIs
  <2>2. a \in Nat /\ Len(s) \in Nat /\ a \in 0 .. Len(s) - 1
    BY <1>0
  <2> HIDE DEF a
  <2> QED
    BY <2>1, <2>2
<1>4. Rolling(s) = w - u * Pow[n]
  BY RollingIsWindow
<1>5. Rolling(Append(s, c)) = (w * polyBase + c) - (u * polyBase + v) * Pow[n]
  <2>1. /\ Append(s, c) \in Seq(Int) /\ Len(Append(s, c)) = Len(s) + 1
        /\ Len(Append(s, c)) >= n /\ Len(Append(s, c)) - n = a + 1
    BY <1>0, AppendProperties
  <2>2. Rolling(Append(s, c))
          = Value(Append(s, c))[Len(s) + 1] - Value(Append(s, c))[a + 1] * Pow[n]
    BY <2>1, RollingIsWindow
  <2>3. Value(Append(s, c))[Len(s) + 1] = w * polyBase + c
    BY ValueAppend
  <2>4. Value(Append(s, c))[a + 1] = Value(s)[a + 1]
    <3>1. a + 1 \in 0 .. Len(s)
      BY <1>0
    <3> QED
      BY <3>1, ValueAppend
  <2> QED
    BY <1>3, <2>2, <2>3, <2>4, Zenon
<1> HIDE DEF n, a, v, r, q, u, w
<1>6. Cong(fp, w - u * (q * polyBase), Word)
  BY <1>2, <1>4, Zenon
<1>7. w - u * (q * polyBase) \in Int /\ v * q \in Int /\ -(v * q) \in Int /\ x \in Int
  BY <1>0, <1>1, <1>2, <1>3
<1>8. Cong(fp + r, (w - u * (q * polyBase)) + -(v * q), Word)
  BY <1>0, <1>1, <1>6, <1>7, CongSum
<1> DEFINE b == (w - u * (q * polyBase)) + -(v * q)
<1>9. b \in Int /\ fp + r \in Int
  BY <1>1, <1>7
<1>10. (b * polyBase) + c = (w * polyBase + c) - (u * polyBase + v) * (q * polyBase)
  BY <1>0, <1>2, <1>3
<1>11. Cong(fp + r, b, Word)
  BY <1>8
<1> HIDE DEF b
<1>12. Cong(x, (b * polyBase) + c, Word)
  <2>1. Cong(polyBase * (fp + r), polyBase * b, Word)
    BY <1>0, <1>9, <1>11, CongTimes
  <2>2. polyBase * (fp + r) = (fp + r) * polyBase /\ polyBase * b = b * polyBase
        /\ (fp + r) * polyBase \in Int /\ b * polyBase \in Int
    BY <1>0, <1>9
  <2>3. Cong((fp + r) * polyBase, b * polyBase, Word)
    BY <2>1, <2>2, Zenon
  <2>4. Cong(c, c, Word)
    <3>1. c = c + 0 * Word
      BY <1>0
    <3> QED
      BY <3>1 DEF Cong
  <2> QED
    BY <1>0, <2>2, <2>3, <2>4, CongSum
<1>13. Cong(x, Rolling(Append(s, c)), Word) /\ Rolling(Append(s, c)) \in Int
  <2>1. (b * polyBase) + c \in Int
    BY <1>0, <1>9
  <2> QED
    BY <1>2, <1>5, <1>10, <1>12, <2>1, Zenon
<1> HIDE DEF x
<1>14. y \in 0 .. Word - 1 /\ Cong(y, x, Word)
  BY <1>7, Reduced
<1>15. y \in Int
  BY <1>0, <1>14
<1> HIDE DEF y
<1>16. Cong(y, Rolling(Append(s, c)), Word)
  BY <1>0, <1>7, <1>13, <1>14, <1>15, CongTrans
<1> QED
  BY <1>16 DEF y, x, r, v, a, n

\* The rolled fingerprint is the one of the window.
LEMMA RolledIsFingerprint ==
  ASSUME NEW s \in Seq(Int), Len(s) >= slidingWinSize, NEW fp \in 0 .. Word - 1,
         Cong(fp, Rolling(s), Word)
  PROVE  fp = Fingerprint(Window(s))
<1> DEFINE f == Fingerprint(Window(s))
           v == Value(Window(s))[slidingWinSize]
<1>0. Word \in Nat \ {0} /\ slidingWinSize \in Nat
  BY ChunkerAssumption
<1>1. Window(s) \in Seq(Int) /\ Len(Window(s)) = slidingWinSize /\ Rolling(s) = v
  BY RollingIsWindow
<1>2. f \in 0 .. Word - 1 /\ Cong(f, v, Word) /\ v \in Int
  BY <1>0, <1>1, FingerprintIs, ValueIs
<1> HIDE DEF f, v
<1>3. f \in Int /\ fp \in Int
  BY <1>0, <1>2
<1>4. Cong(v, f, Word)
  BY <1>0, <1>2, <1>3, CongSym
<1>5. Cong(fp, f, Word)
  BY <1>0, <1>1, <1>2, <1>3, <1>4, CongTrans
<1> QED
  BY <1>0, <1>2, <1>5, CongSame DEF f

\* No chunk may end in s, or only behind all of it.
NoBoundaryIn(s) == \A m \in 1 .. Len(s) : ~Boundary(SubSeq(s, 1, m))

LEMMA NoBoundaryAppend ==
  ASSUME NEW s \in Seq(Int), NEW c \in Int, NoBoundaryIn(s)
  PROVE  /\ \A m \in 1 .. Len(Append(s, c)) - 1 : ~Boundary(SubSeq(Append(s, c), 1, m))
         /\ ~Boundary(Append(s, c)) => NoBoundaryIn(Append(s, c))
<1> DEFINE t == Append(s, c)
<1>1. /\ t \in Seq(Int) /\ Len(t) = Len(s) + 1 /\ Len(s) \in Nat
      /\ <<c>> \in Seq(Int) /\ t = s \o <<c>>
  BY AppendProperties, AppendIsConcat
<1>2. ASSUME NEW m \in 1 .. Len(s)
      PROVE  SubSeq(t, 1, m) = SubSeq(s, 1, m)
  <2>1. 1 \in 1 .. Len(s)
    BY <1>1
  <2> HIDE DEF t
  <2>2. SubSeq(s \o <<c>>, 1, m) = SubSeq(s, 1, m)
    BY <1>1, <2>1, SubSeqOfConcat1
  <2> QED
    BY <1>1, <2>2, Zenon
<1>3. SubSeq(t, 1, Len(t)) = t
  <2> HIDE DEF t
  <2> QED
    BY <1>1, SubSeqFull
<1> HIDE DEF t
<1>4. \A m \in 1 .. Len(s) : ~Boundary(SubSeq(t, 1, m))
  BY <1>2, Zenon DEF NoBoundaryIn
<1>5. Len(t) - 1 = Len(s)
  BY <1>1
<1>6. ASSUME ~Boundary(t), NEW m \in 1 .. Len(t)
      PROVE  ~Boundary(SubSeq(t, 1, m))
  <2>1. m = Len(t) \/ m \in 1 .. Len(s)
    BY <1>1
  <2> QED
    BY <1>3, <1>4, <1>6, <2>1, Zenon
<1> QED
  BY <1>4, <1>5, <1>6 DEF t, NoBoundaryIn

\* From the second chunk on the fingerprint is the one of the bytes in the buffer,
\* and no chunk may have ended among them.
Rolled ==
  /\ input \in Seq(Bytes) /\ chunkBuffer \in Seq(Bytes)
  /\ winFp \in 0 .. Word - 1
  /\ chunks # <<>> /\ ~done => Cong(winFp, Rolling(chunkBuffer), Word) /\ NoBoundaryIn(chunkBuffer)
  /\ CutByContent

LEMMA RolledInit == ChunkerInit => Rolled
<1> SUFFICES ASSUME ChunkerInit
             PROVE  Rolled
  OBVIOUS
<1>1. input \in Seq(Bytes)
  <2>1. PICK n \in 0 .. MaxFile : input \in [1 .. n -> Bytes]
    BY DEF ChunkerInit
  <2>2. n \in Nat
    OBVIOUS
  <2> QED
    BY <2>1, <2>2
<1>2. chunks = <<>> /\ chunkBuffer = <<>> /\ winFp \in 0 .. Word - 1
  BY DEF ChunkerInit
<1>3. chunkBuffer \in Seq(Bytes) /\ Len(chunks) = 0
  BY <1>2
<1>4. CutByContent
  BY <1>3 DEF CutByContent
<1> QED
  BY <1>1, <1>2, <1>3, <1>4 DEF Rolled

\* A byte that is taken into the buffer.
LEMMA RolledTake ==
  ASSUME Sized, Rolled, Take, chunkBuffer' = Append(chunkBuffer, Byte), chunks' = chunks,
         winFp' \in 0 .. Word - 1,
         chunks # <<>> =>
           Cong(winFp', Rolling(chunkBuffer'), Word) /\ ~Boundary(chunkBuffer')
  PROVE  Rolled'
<1>1. Byte \in Bytes /\ Byte \in Int /\ chunkBuffer \in Seq(Int) /\ chunkBuffer' \in Seq(Bytes)
  <2>1. i + 1 \in 1 .. Len(input)
    BY DEF Take, Sized
  <2>2. Byte \in Bytes
    BY <2>1, ElementOfSeq DEF Byte, Rolled
  <2>3. Bytes \subseteq Int /\ chunkBuffer \in Seq(Bytes)
    BY ChunkerAssumption DEF Rolled
  <2>4. chunkBuffer \in Seq(Int)
    BY <2>3, SeqMonotonic
  <2>5. chunkBuffer' \in Seq(Bytes)
    BY <2>2, <2>3, AppendProperties
  <2> QED
    BY <2>2, <2>3, <2>4, <2>5
<1>2. ~done /\ ~done' /\ input' = input
  BY TakenByte
<1>3. chunks' # <<>> => NoBoundaryIn(chunkBuffer')
  BY <1>1, <1>2, NoBoundaryAppend DEF Rolled
<1>4. CutByContent'
  <2>1. \A n : EndsWhereContentSays(n) => EndsWhereContentSays(n)'
    BY DEF EndsWhereContentSays
  <2> QED
    BY <1>2, <2>1 DEF CutByContent, Rolled
<1> QED
  BY <1>1, <1>2, <1>3, <1>4 DEF Rolled

\* A chunk that is cut off where its own bytes say, or the last one.
LEMMA CutContent ==
  ASSUME Sized, CutByContent, ~done, NEW c \in Seq(Nat), chunks' = Append(chunks, c),
         \/ done'
         \/ chunks # <<>> =>
              /\ Boundary(c)
              /\ \A m \in 1 .. Len(c) - 1 : ~Boundary(SubSeq(c, 1, m))
  PROVE  CutByContent'
<1>1. /\ Len(chunks') = Len(chunks) + 1 /\ Len(chunks) \in Nat
      /\ \A n \in 1 .. Len(chunks) : chunks'[n] = chunks[n]
      /\ chunks'[Len(chunks) + 1] = c
  BY AppendProperties DEF Sized
<1> SUFFICES ASSUME NEW n \in 2 .. Len(chunks'), ~(done' /\ n = Len(chunks'))
             PROVE  EndsWhereContentSays(n)'
  BY DEF CutByContent
<1>2. CASE n \in 2 .. Len(chunks)
  <2>1. EndsWhereContentSays(n) /\ chunks'[n] = chunks[n]
    BY <1>1, <1>2 DEF CutByContent
  <2> QED
    BY <2>1 DEF EndsWhereContentSays
<1>3. CASE n = Len(chunks) + 1
  <2>1. chunks'[n] = c /\ ~done' /\ chunks # <<>>
    BY <1>1, <1>3
  <2> QED
    BY <2>1 DEF EndsWhereContentSays
<1> QED
  BY <1>1, <1>2, <1>3

LEMMA RolledStep == Sized /\ Rolled /\ [ChunkerNext]_chunkerVars => Rolled'
<1> SUFFICES ASSUME Sized, Rolled, [ChunkerNext]_chunkerVars
             PROVE  Rolled'
  OBVIOUS
<1>0. /\ Word \in Nat \ {0} /\ slidingWinSize \in Nat \ {0} /\ Cnt \in Nat /\ winFp \in Int
      /\ chunkBuffer \in Seq(Int) /\ chunkBuffer \in Seq(Nat)
  <2>1. Bytes \subseteq Int /\ chunkBuffer \in Seq(Bytes)
    BY ChunkerAssumption DEF Rolled
  <2>2. chunkBuffer \in Seq(Int)
    BY <2>1, SeqMonotonic
  <2> QED
    BY <2>2, ChunkerAssumption DEF Sized, Rolled, Cnt
<1>1. ASSUME UNCHANGED <<input, chunkBuffer, winFp, chunks, done>>
      PROVE  Rolled'
  <2>1. \A n : EndsWhereContentSays(n) => EndsWhereContentSays(n)'
    BY <1>1 DEF EndsWhereContentSays
  <2>2. CutByContent'
    BY <1>1, <2>1 DEF CutByContent, Rolled
  <2> QED
    BY <1>1, <2>2 DEF Rolled
<1>2. CASE Read
  BY <1>1, <1>2, Zenon DEF Read
<1>3. ASSUME Take
      PROVE  Byte \in Int /\ ~done /\ ~done' /\ input' = input
  BY <1>3, TakenByte
<1>4. CASE Fill
  <2> DEFINE x == winFp + Byte * power[slidingWinSize - Cnt]
  <2>1. Take /\ Cnt < slidingWinSize /\ chunkBuffer' = Append(chunkBuffer, Byte)
        /\ winFp' = (x % Modulus) % Word /\ chunks' = chunks
    BY <1>4 DEF Fill
  <2>2. winFp' \in 0 .. Word - 1
    <3>1. power[slidingWinSize - Cnt] \in Int
      <4>1. slidingWinSize - Cnt \in 1 .. slidingWinSize
        BY <1>0, <2>1
      <4> QED
        BY <4>1, PowerIs
    <3>2. x \in Int
      BY <1>0, <1>3, <2>1, <3>1
    <3> HIDE DEF x
    <3> QED
      BY <2>1, <3>2, Reduced
  <2>3. ASSUME chunks # <<>>
        PROVE  Cong(winFp', Rolling(chunkBuffer'), Word)
    <3>1. Cong(winFp, Rolling(chunkBuffer), Word)
      BY <1>3, <2>1, <2>3 DEF Rolled
    <3>2. Cong((x % Modulus) % Word, Rolling(Append(chunkBuffer, Byte)), Word)
      BY <1>0, <1>3, <2>1, <3>1, FillRolls DEF Cnt
    <3> QED
      BY <2>1, <3>2, Zenon
  <2>4. ~Boundary(chunkBuffer')
    <3>1. Len(chunkBuffer') = Cnt + 1
      BY <1>0, <1>3, <2>1, AppendProperties DEF Cnt
    <3> QED
      BY <1>0, <2>1, <3>1 DEF Boundary
  <2> QED
    BY <2>1, <2>2, <2>3, <2>4, RolledTake
\* what Slide and CutHere know of the fingerprint
<1>5. ASSUME Take, Cnt >= slidingWinSize
      PROVE  /\ Slid \in 0 .. Word - 1
             /\ chunks # <<>> =>
                  /\ Cong(Slid, Rolling(Append(chunkBuffer, Byte)), Word)
                  /\ Boundary(Append(chunkBuffer, Byte)) <=> Ends(Cnt + 1, Slid)
  <2> DEFINE v == chunkBuffer[Cnt - slidingWinSize + 1]
             x == (winFp + removeLUT[v]) * polyBase + Byte
             t == Append(chunkBuffer, Byte)
  <2>1. v \in Bytes
    <3>1. Cnt - slidingWinSize + 1 \in 1 .. Len(chunkBuffer)
      BY <1>0, <1>5 DEF Cnt
    <3> QED
      BY <3>1, ElementOfSeq DEF Rolled
  <2>2. Slid = (x % Modulus) % Word
    BY DEF Slid
  <2>3. Slid \in 0 .. Word - 1
    <3>1. removeLUT[v] \in Int /\ polyBase \in Int
      <4> HIDE DEF v
      <4>1. removeLUT[v] \in Int
        BY <2>1, RemoveIs
      <4> QED
        BY <4>1, ChunkerAssumption
    <3>2. x \in Int
      BY <1>0, <1>3, <1>5, <3>1
    <3> HIDE DEF x
    <3> QED
      BY <2>2, <3>2, Reduced
  <2>4. ASSUME chunks # <<>>
        PROVE  Cong(Slid, Rolling(t), Word) /\ (Boundary(t) <=> Ends(Cnt + 1, Slid))
    <3>1. Cong(winFp, Rolling(chunkBuffer), Word)
      BY <1>3, <1>5, <2>4 DEF Rolled
    <3>2. Cong((x % Modulus) % Word, Rolling(t), Word)
      BY <1>0, <1>3, <1>5, <2>1, <3>1, SlideRolls DEF Cnt
    <3>3. Cong(Slid, Rolling(t), Word)
      BY <2>2, <3>2, Zenon
    <3>4. t \in Seq(Int) /\ Len(t) = Cnt + 1
      BY <1>0, <1>3, <1>5, AppendProperties DEF Cnt
    <3> HIDE DEF t
    <3>5. Len(t) >= slidingWinSize /\ Len(t) > slidingWinSize
      BY <1>0, <1>5, <3>4
    <3>6. Slid = Fingerprint(Window(t))
      BY <2>3, <3>3, <3>4, <3>5, RolledIsFingerprint
    <3>7. Boundary(t) <=> Ends(Cnt + 1, Slid)
      BY <3>4, <3>5, <3>6 DEF Boundary
    <3> QED
      BY <3>3, <3>7
  <2> QED
    BY <2>3, <2>4
<1>6. CASE Slide
  <2>1. /\ Take /\ Cnt >= slidingWinSize /\ ~Ends(Cnt + 1, Slid) /\ winFp' = Slid
        /\ chunkBuffer' = Append(chunkBuffer, Byte) /\ chunks' = chunks
    BY <1>6 DEF Slide
  <2> QED
    BY <1>5, <2>1, RolledTake
<1>7. CASE CutHere
  <2>1. /\ Take /\ Cnt >= slidingWinSize /\ Ends(Cnt + 1, Slid)
        /\ chunks' = Append(chunks, Append(chunkBuffer, Byte))
        /\ chunkBuffer' = <<>> /\ winFp' = 0
    BY <1>7 DEF CutHere
  <2>2. /\ Append(chunkBuffer, Byte) \in Seq(Nat)
        /\ chunks # <<>> =>
             /\ Boundary(Append(chunkBuffer, Byte))
             /\ \A m \in 1 .. Len(Append(chunkBuffer, Byte)) - 1 :
                  ~Boundary(SubSeq(Append(chunkBuffer, Byte), 1, m))
    <3>1. Append(chunkBuffer, Byte) \in Seq(Nat)
      BY <1>0, <2>1, TakenByte, AppendProperties
    <3>2. chunks # <<>> => NoBoundaryIn(chunkBuffer)
      BY <1>3, <2>1 DEF Rolled
    <3> QED
      BY <1>0, <1>3, <1>5, <2>1, <3>1, <3>2, NoBoundaryAppend
  <2>3. CutByContent'
    BY <1>3, <2>1, <2>2, CutContent DEF Rolled
  <2>4. Cong(winFp', Rolling(chunkBuffer'), Word)
    <3>1. <<>> \in Seq(Int) /\ Len(<<>>) = 0
      OBVIOUS
    <3>2. Value(<<>>)[0] = 0 /\ Pow[slidingWinSize] \in Int
      BY <1>0, <3>1, ValueIs, PowIs
    <3>3. Rolling(<<>>) = Value(<<>>)[0] * Pow[slidingWinSize - 0]
      BY <1>0, <3>1 DEF Rolling
    <3>4. 0 = 0 * Pow[slidingWinSize] + 0 * Word /\ slidingWinSize - 0 = slidingWinSize
      BY <1>0, <3>2
    <3>5. 0 = Rolling(<<>>) + 0 * Word
      BY <3>2, <3>3, <3>4, Zenon
    <3> QED
      BY <2>1, <3>5 DEF Cong
  <2>5. chunkBuffer' \in Seq(Bytes) /\ NoBoundaryIn(chunkBuffer') /\ winFp' \in 0 .. Word - 1
    BY <1>0, <2>1 DEF NoBoundaryIn
  <2> QED
    BY <1>3, <2>1, <2>3, <2>4, <2>5 DEF Rolled
<1>8. CASE Finish
  <2>1. ~done /\ done' = TRUE /\ input' = input
    BY <1>8 DEF Finish
  <2>2. CASE Cnt # 0
    <3>1. chunks' = Append(chunks, chunkBuffer) /\ chunkBuffer' = <<>> /\ winFp' = 0
      BY <1>8, <2>2 DEF Finish
    <3>2. CutByContent'
      BY <1>0, <2>1, <3>1, CutContent DEF Rolled
    <3>3. chunkBuffer' \in Seq(Bytes) /\ winFp' \in 0 .. Word - 1
      BY <1>0, <3>1
    <3> QED
      BY <2>1, <3>2, <3>3 DEF Rolled
  <2>3. CASE Cnt = 0
    <3>1. UNCHANGED <<chunkBuffer, winFp, chunks>>
      BY <1>8, <2>3 DEF Finish
    <3>2. \A n : EndsWhereContentSays(n) => EndsWhereContentSays(n)'
      BY <3>1 DEF EndsWhereContentSays
    <3>3. CutByContent'
      BY <2>1, <3>1, <3>2 DEF CutByContent, Rolled
    <3> QED
      BY <2>1, <3>1, <3>3 DEF Rolled
  <2> QED
    BY <2>2, <2>3
<1>9. CASE UNCHANGED chunkerVars
  BY <1>1, <1>9, Zenon DEF chunkerVars
<1> QED
  BY <1>2, <1>4, <1>6, <1>7, <1>8, <1>9 DEF ChunkerNext

\* For every window, base, modulus and word: from the second chunk to the last but
\* one, each ends where its own bytes say, at the first place they allow.
THEOREM CutsFollowContent == ChunkerSpec => []CutByContent
<1>1. Rolled => CutByContent
  BY DEF Rolled
<1> QED
  BY <1>1, SizedInit, SizedStep, RolledInit, RolledStep, PTL DEF ChunkerSpec
=============================================================================
