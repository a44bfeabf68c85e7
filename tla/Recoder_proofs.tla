---------------------------- MODULE Recoder_proofs ----------------------------
(***************************************************************************)
(* The bit writer loses no bit and stuffs every byte of ones that no       *)
(* marker follows, for any size of a byte.  The second pass of the recoder *)
(* finds a code for every symbol it meets, no code begins with another     *)
(* one, a magnitude is written as it was read, and all the recoder does to *)
(* the bit writer are steps of the bit writer, so the same holds of the    *)
(* recoder; reading the files back leaves all that as it is, and what is   *)
(* read back of the tables are the codes they were made of.                *)
(***************************************************************************)
EXTENDS RecodedFile, FiniteSetTheorems,
        FunctionTheorems, SequenceTheorems, NatRecursion, TLAPS

(* The bit writer; WriterStep is what any step of it preserves.            *)

Item == {Data(byte) : byte \in Byte} \cup {Rst(n) : n \in 0 .. 7}

Written ==
  /\ pending \in Seq(Bit) /\ Len(pending) <= ByteBits
  /\ sent \in Seq(Bit) /\ coded = sent \o pending
  /\ file \in Seq(Item)
  /\ UnstuffedAtMarkers(file)

-----------------------------------------------------------------------------
(* Lemmas about bytes and bodies.                                          *)

LEMMA BytesTyped ==
  /\ Ones \in Byte /\ Zeros \in Byte /\ Zeros # Ones
  /\ \A b \in Byte : b \in Seq(Bit) /\ Len(b) = ByteBits
  /\ \A b \in Seq(Bit) : Len(b) = ByteBits => b \in Byte
<1>1. Ones \in Byte /\ Zeros \in Byte
  BY DEF Ones, Zeros, Byte, Bit
<1>2. Zeros # Ones
  <2>1. 1 \in 1 .. ByteBits
    BY ByteBitsAssumption
  <2> QED
    BY <2>1 DEF Ones, Zeros
<1>3. \A b \in Byte : b \in Seq(Bit) /\ Len(b) = ByteBits
  BY ByteBitsAssumption DEF Byte
<1>4. \A b \in Seq(Bit) : Len(b) = ByteBits => b \in Byte
  BY ByteBitsAssumption DEF Byte
<1> QED
  BY <1>1, <1>2, <1>3, <1>4

\* Two bodies that are right are right one behind the other.
LEMMA BodiesJoin ==
  ASSUME NEW s \in Seq(Item), NEW t \in Seq(Item),
         UnstuffedAtMarkers(s), UnstuffedAtMarkers(t)
  PROVE  s \o t \in Seq(Item) /\ UnstuffedAtMarkers(s \o t)
<1> DEFINE b == s \o t
<1>1. /\ b \in Seq(Item) /\ Len(b) = Len(s) + Len(t)
      /\ \A i \in 1 .. Len(s) + Len(t) :
           b[i] = IF i <= Len(s) THEN s[i] ELSE t[i - Len(s)]
  BY ConcatProperties
<1>2. Len(s) \in Nat /\ Len(t) \in Nat
  OBVIOUS
<1> HIDE DEF b
<1>3. ASSUME NEW i \in 1 .. Len(b), b[i] = Data(Ones)
      PROVE  Stuffing(b, i) \/ MarkerBehind(b, i)
  <2>1. CASE i <= Len(s)
    <3>1. i \in 1 .. Len(s) /\ s[i] = Data(Ones)
      BY <1>1, <1>2, <1>3, <2>1
    <3>2. Stuffing(s, i) \/ MarkerBehind(s, i)
      BY <3>1 DEF UnstuffedAtMarkers
    <3>3. i < Len(s) => b[i + 1] = s[i + 1] /\ i < Len(b)
      BY <1>1, <1>2, <3>1
    <3> QED
      BY <3>2, <3>3 DEF Stuffing, MarkerBehind
  <2>2. CASE i > Len(s)
    <3>1. PICK k \in 1 .. Len(t) : k = i - Len(s)
      BY <1>1, <1>2, <2>2
    <3>2. t[k] = Data(Ones)
      BY <1>1, <1>2, <1>3, <2>2, <3>1
    <3>3. Stuffing(t, k) \/ MarkerBehind(t, k)
      BY <3>2 DEF UnstuffedAtMarkers
    <3>4. ASSUME k < Len(t)
          PROVE  b[i + 1] = t[k + 1] /\ i < Len(b)
      <4>1. /\ i + 1 \in 1 .. Len(s) + Len(t) /\ ~(i + 1 <= Len(s))
            /\ (i + 1) - Len(s) = k + 1
        BY <1>1, <1>2, <2>2, <3>1, <3>4
      <4> QED
        BY <1>1, <1>2, <4>1
    <3> QED
      BY <3>3, <3>4 DEF Stuffing, MarkerBehind
  <2> QED
    BY <1>1, <1>2, <2>1, <2>2
<1> QED
  BY <1>1, <1>3 DEF UnstuffedAtMarkers, b

\* What Emit writes is right, whatever the byte.
LEMMA EmitRight ==
  ASSUME NEW byte \in Byte
  PROVE  Emit(byte) \in Seq(Item) /\ UnstuffedAtMarkers(Emit(byte))
<1>1. Data(byte) \in Item /\ Data(Zeros) \in Item
  BY BytesTyped DEF Item
<1>2. Data(Zeros) # Data(Ones)
  <2>1. Data(Zeros).data = Zeros /\ Data(Ones).data = Ones
    BY DEF Data
  <2> QED
    BY <2>1, BytesTyped
<1>3. CASE byte = Ones
  <2>1. Emit(byte) = <<Data(Ones), Data(Zeros)>>
    BY <1>3 DEF Emit
  <2> DEFINE a == Data(Ones)
             z == Data(Zeros)
  <2>2. a \in Item /\ z \in Item /\ z # a
    BY <1>1, <1>2, <1>3
  <2> HIDE DEF a, z
  <2>3. /\ <<a, z>> \in Seq(Item) /\ Len(<<a, z>>) = 2
        /\ <<a, z>>[1] = a /\ <<a, z>>[2] = z
    BY <2>2
  <2>4. \A i \in 1 .. 2 : <<a, z>>[i] = a => i < 2 /\ <<a, z>>[i + 1] = z
    BY <2>2, <2>3
  <2> QED
    BY <2>1, <2>3, <2>4 DEF UnstuffedAtMarkers, Stuffing, a, z
<1>4. CASE byte # Ones
  <2>1. Emit(byte) = <<Data(byte)>>
    BY <1>4 DEF Emit
  <2>2. Data(byte) # Data(Ones)
    <3>1. Data(byte).data = byte /\ Data(Ones).data = Ones
      BY DEF Data
    <3> QED
      BY <1>4, <3>1
  <2> DEFINE a == Data(byte)
  <2>3. a \in Item /\ a # Data(Ones)
    BY <1>1, <2>2
  <2> HIDE DEF a
  <2>4. <<a>> \in Seq(Item) /\ Len(<<a>>) = 1 /\ <<a>>[1] = a
    BY <2>3
  <2> QED
    BY <2>1, <2>3, <2>4 DEF UnstuffedAtMarkers, a
<1> QED
  BY <1>3, <1>4

\* ... and so is a restart marker behind any byte or behind none.
LEMMA MarkerRight ==
  ASSUME NEW n \in 0 .. 7
  PROVE  /\ <<Rst(n)>> \in Seq(Item) /\ UnstuffedAtMarkers(<<Rst(n)>>)
         /\ \A byte \in Byte : /\ <<Data(byte), Rst(n)>> \in Seq(Item)
                               /\ UnstuffedAtMarkers(<<Data(byte), Rst(n)>>)
<1> DEFINE r == Rst(n)
<1>1. r \in Item
  BY DEF Item
<1>2. r # Data(Ones)
  <2>1. DOMAIN r = {"rst"} /\ DOMAIN Data(Ones) = {"data"}
    BY DEF Rst, Data
  <2> QED
    BY <2>1
<1>3. \E m \in 0 .. 7 : r = Rst(m)
  OBVIOUS
<1> HIDE DEF r
<1>4. <<r>> \in Seq(Item) /\ UnstuffedAtMarkers(<<r>>)
  <2>1. <<r>> \in Seq(Item) /\ Len(<<r>>) = 1 /\ <<r>>[1] = r
    BY <1>1
  <2> QED
    BY <1>2, <2>1 DEF UnstuffedAtMarkers
<1>5. ASSUME NEW byte \in Byte
      PROVE  <<Data(byte), r>> \in Seq(Item) /\ UnstuffedAtMarkers(<<Data(byte), r>>)
  <2> DEFINE a == Data(byte)
  <2>1. a \in Item
    BY DEF Item
  <2> HIDE DEF a
  <2>2. /\ <<a, r>> \in Seq(Item) /\ Len(<<a, r>>) = 2
        /\ <<a, r>>[1] = a /\ <<a, r>>[2] = r
    BY <1>1, <2>1
  <2>3. MarkerBehind(<<a, r>>, 1)
    BY <1>3, <2>2 DEF MarkerBehind
  <2>4. \A i \in 1 .. 2 : i = 1 \/ <<a, r>>[i] # Data(Ones)
    BY <1>2, <2>2
  <2> QED
    BY <2>2, <2>3, <2>4 DEF UnstuffedAtMarkers, a
<1> QED
  BY <1>4, <1>5 DEF r

LEMMA PadTyped ==
  ASSUME NEW bits \in Seq(Bit), Len(bits) <= ByteBits
  PROVE  Pad(bits) \in Byte
  BY ByteBitsAssumption DEF Pad, Byte, Bit

-----------------------------------------------------------------------------
(* Lemmas about the ways a code is split.                                  *)

LEMMA Joined ==
  ASSUME NEW a \in Seq(Bit), NEW b \in Seq(Bit)
  PROVE  a \o b \in Seq(Bit) /\ Len(a \o b) = Len(a) + Len(b)
  BY ConcatProperties

LEMMA Regrouped ==
  ASSUME NEW a \in Seq(Bit), NEW b \in Seq(Bit), NEW c \in Seq(Bit)
  PROVE  (a \o b) \o c = a \o (b \o c)
  BY ConcatAssociative

\* A sequence is its beginning and the rest.
LEMMA SplitAt ==
  ASSUME NEW bits \in Seq(Bit), NEW k \in 0 .. Len(bits)
  PROVE  /\ SubSeq(bits, 1, k) \in Seq(Bit) /\ Len(SubSeq(bits, 1, k)) = k
         /\ SubSeq(bits, k + 1, Len(bits)) \in Seq(Bit)
         /\ Len(SubSeq(bits, k + 1, Len(bits))) = Len(bits) - k
         /\ SubSeq(bits, 1, k) \o SubSeq(bits, k + 1, Len(bits)) = bits
<1>1. k \in Nat /\ Len(bits) \in Nat /\ k <= Len(bits)
  OBVIOUS
<1>2. SubSeq(bits, 1, k) \in Seq(Bit) /\ Len(SubSeq(bits, 1, k)) = k
  <2>1. \A i \in 1 .. k : bits[i] \in Bit
    BY <1>1
  <2> QED
    BY <1>1, <2>1, SubSeqProperties
<1>3. /\ SubSeq(bits, k + 1, Len(bits)) \in Seq(Bit)
      /\ Len(SubSeq(bits, k + 1, Len(bits))) = Len(bits) - k
  <2>1. \A i \in k + 1 .. Len(bits) : bits[i] \in Bit
    BY <1>1
  <2> QED
    BY <1>1, <2>1, SubSeqProperties
<1>4. SubSeq(bits, 1, k) \o SubSeq(bits, k + 1, Len(bits)) = SubSeq(bits, 1, Len(bits))
  <2>1. /\ 1 \in 1 .. Len(bits) + 1 /\ k \in 1 - 1 .. Len(bits)
        /\ Len(bits) \in k .. Len(bits)
    BY <1>1
  <2> QED
    BY <2>1, ConcatAdjacentSubSeq, Zenon
<1>5. SubSeq(bits, 1, Len(bits)) = bits
  BY SubSeqFull, Zenon
<1> QED
  BY <1>2, <1>3, <1>4, <1>5

\* The first byte a code fills, and what is left of the code.
LEMMA FilledAndLeft ==
  ASSUME pending \in Seq(Bit), Len(pending) <= ByteBits,
         NEW c \in Codes, Len(c) > Free
  PROVE  /\ Filled(c) \in Byte
         /\ Left(c) \in Seq(Bit) /\ Len(Left(c)) <= ByteBits + Len(pending)
         /\ Filled(c) \o Left(c) = pending \o c
<1> DEFINE first == SubSeq(c, 1, Free)
<1>1. /\ c \in Seq(Bit) /\ Len(c) <= 2 * ByteBits /\ Len(c) \in Nat
      /\ ByteBits \in Nat /\ Len(pending) \in Nat
  BY ByteBitsAssumption DEF Codes
<1>2. Free \in 0 .. Len(c) /\ Free + Len(pending) = ByteBits
  BY <1>1 DEF Free
<1>3. /\ first \in Seq(Bit) /\ Len(first) = Free
      /\ Left(c) \in Seq(Bit) /\ Len(Left(c)) = Len(c) - Free
      /\ first \o Left(c) = c
  BY <1>1, <1>2, SplitAt DEF Left
<1>4. Filled(c) = pending \o first
  BY DEF Filled
<1> HIDE DEF first
<1>5. Filled(c) \in Seq(Bit) /\ Len(Filled(c)) = ByteBits
  BY <1>1, <1>2, <1>3, <1>4, Joined
<1>6. Filled(c) \o Left(c) = pending \o c
  <2>1. (pending \o first) \o Left(c) = pending \o (first \o Left(c))
    BY <1>3, Regrouped
  <2> QED
    BY <1>3, <1>4, <2>1, Zenon
<1>7. Len(Left(c)) <= ByteBits + Len(pending)
  BY <1>1, <1>2, <1>3
<1> QED
  BY <1>3, <1>5, <1>6, <1>7, BytesTyped

\* The second byte it fills, and what is left then.
LEMMA SecondAndLast ==
  ASSUME NEW c \in Codes, Left(c) \in Seq(Bit), Len(Left(c)) >= ByteBits
  PROVE  /\ Second(c) \in Byte
         /\ Rest(c) \in Seq(Bit) /\ Len(Rest(c)) = Len(Left(c)) - ByteBits
         /\ Second(c) \o Rest(c) = Left(c)
<1>1. ByteBits \in 0 .. Len(Left(c))
  BY ByteBitsAssumption
<1>2. /\ Second(c) \in Seq(Bit) /\ Len(Second(c)) = ByteBits
      /\ Rest(c) \in Seq(Bit) /\ Len(Rest(c)) = Len(Left(c)) - ByteBits
      /\ Second(c) \o Rest(c) = Left(c)
  BY <1>1, SplitAt DEF Second, Rest
<1> QED
  BY <1>2, BytesTyped

\* A step of Write_Stream_To_File.
LEMMA WriteStreamKeeps ==
  ASSUME Written, NEW c \in Codes, WriteStream(c)
  PROVE  Written'
<1>1. /\ pending \in Seq(Bit) /\ Len(pending) <= ByteBits /\ Len(pending) \in Nat
      /\ sent \in Seq(Bit) /\ coded = sent \o pending
      /\ file \in Seq(Item) /\ UnstuffedAtMarkers(file)
      /\ c \in Seq(Bit) /\ Len(c) \in Nat /\ ByteBits \in Nat
  BY ByteBitsAssumption DEF Written, Codes
<1>2. coded' = sent \o (pending \o c)
  <2>1. coded' = (sent \o pending) \o c
    BY <1>1 DEF WriteStream
  <2> QED
    BY <1>1, <2>1, Regrouped
<1>3. CASE Fits(c)
  <2>1. pending' = pending \o c /\ file' = file /\ sent' = sent /\ Len(c) <= Free
    BY <1>3 DEF Fits
  <2>2. pending \o c \in Seq(Bit) /\ Len(pending \o c) <= ByteBits
    BY <1>1, <2>1, Joined DEF Free
  <2> QED
    BY <1>1, <1>2, <2>1, <2>2 DEF Written
<1>4. CASE FillsOne(c) \/ FillsTwo(c)
  <2>1. /\ Filled(c) \in Byte /\ Filled(c) \in Seq(Bit)
        /\ Left(c) \in Seq(Bit) /\ Len(Left(c)) <= ByteBits + Len(pending)
        /\ Len(Left(c)) \in Nat
        /\ Filled(c) \o Left(c) = pending \o c
    <3>1. Len(c) > Free
      BY <1>4 DEF FillsOne, FillsTwo
    <3>2. /\ Filled(c) \in Byte
          /\ Left(c) \in Seq(Bit) /\ Len(Left(c)) <= ByteBits + Len(pending)
          /\ Filled(c) \o Left(c) = pending \o c
      BY <1>1, <3>1, FilledAndLeft
    <3>3. Filled(c) \in Seq(Bit)
      BY <3>2, BytesTyped
    <3>4. Len(Left(c)) \in Nat
      BY <3>2
    <3> QED
      BY <3>2, <3>3, <3>4
  <2>2. sent \o Filled(c) \in Seq(Bit)
    BY <1>1, <2>1, Joined
  <2>3. coded' = (sent \o Filled(c)) \o Left(c)
    <3>1. (sent \o Filled(c)) \o Left(c) = sent \o (Filled(c) \o Left(c))
      BY <1>1, <2>1, Regrouped
    <3> QED
      BY <1>2, <2>1, <3>1, Zenon
  <2>4. /\ file \o Emit(Filled(c)) \in Seq(Item)
        /\ UnstuffedAtMarkers(file \o Emit(Filled(c)))
    BY <1>1, <2>1, EmitRight, BodiesJoin
  <2>5. CASE FillsOne(c)
    <3>1. /\ file' = file \o Emit(Filled(c)) /\ sent' = sent \o Filled(c)
          /\ pending' = Left(c) /\ Len(Left(c)) < ByteBits
      BY <2>5 DEF FillsOne
    <3> QED
      BY <1>1, <2>1, <2>2, <2>3, <2>4, <3>1 DEF Written
  <2>6. CASE FillsTwo(c)
    <3>1. /\ file' = (file \o Emit(Filled(c))) \o Emit(Second(c))
          /\ sent' = (sent \o Filled(c)) \o Second(c)
          /\ pending' = Rest(c) /\ Len(Left(c)) >= ByteBits
      BY <2>6 DEF FillsTwo
    <3>2. /\ Second(c) \in Byte /\ Second(c) \in Seq(Bit)
          /\ Rest(c) \in Seq(Bit) /\ Len(Rest(c)) = Len(Left(c)) - ByteBits
          /\ Second(c) \o Rest(c) = Left(c)
      BY <2>1, <3>1, SecondAndLast, BytesTyped
    <3>3. Len(Rest(c)) <= ByteBits
      BY <1>1, <2>1, <3>2
    <3>4. /\ file' \in Seq(Item) /\ UnstuffedAtMarkers(file')
      BY <2>4, <3>1, <3>2, EmitRight, BodiesJoin
    <3>5. (sent \o Filled(c)) \o Second(c) \in Seq(Bit)
      BY <2>2, <3>2, Joined
    <3>6. coded' = ((sent \o Filled(c)) \o Second(c)) \o Rest(c)
      <4>1. ((sent \o Filled(c)) \o Second(c)) \o Rest(c) =
              (sent \o Filled(c)) \o (Second(c) \o Rest(c))
        BY <2>2, <3>2, Regrouped
      <4> QED
        BY <2>3, <3>2, <4>1, Zenon
    <3> QED
      BY <3>1, <3>2, <3>3, <3>4, <3>5, <3>6 DEF Written
  <2> QED
    BY <1>4, <2>5, <2>6
<1> QED
  BY <1>3, <1>4 DEF WriteStream

-----------------------------------------------------------------------------
(* The theorems.                                                           *)

\* Any step of the writer.
LEMMA WriterStep == Written /\ [WriterNext]_writerVars => Written'
<1> SUFFICES ASSUME Written, [WriterNext]_writerVars
             PROVE  Written'
  OBVIOUS
<1>1. /\ pending \in Seq(Bit) /\ Len(pending) <= ByteBits
      /\ file \in Seq(Item) /\ UnstuffedAtMarkers(file)
  BY DEF Written
<1>2. /\ <<>> \in Seq(Bit) /\ Len(<<>>) = 0 /\ 0 <= ByteBits
      /\ <<>> \o <<>> = <<>>
  BY ByteBitsAssumption
<1>3. Pad(pending) \in Byte
  BY <1>1, PadTyped
<1>4. ASSUME NEW c \in Codes, WriteStream(c)
      PROVE  Written'
  BY <1>4, WriteStreamKeeps
<1>5. ASSUME NEW n \in 0 .. 7, WriteRst(n)
      PROVE  Written'
  <2>1. pending' = <<>> /\ coded' = <<>> /\ sent' = <<>>
    BY <1>5 DEF WriteRst
  <2>2. file' \in Seq(Item) /\ UnstuffedAtMarkers(file')
    <3> DEFINE r == Rst(n)
               d == Data(Pad(pending))
    <3>1. file' = file \o <<r>> \/ file' = file \o <<d, r>>
      BY <1>5 DEF WriteRst
    <3>2. /\ <<r>> \in Seq(Item) /\ UnstuffedAtMarkers(<<r>>)
          /\ <<d, r>> \in Seq(Item) /\ UnstuffedAtMarkers(<<d, r>>)
      BY <1>3, MarkerRight
    <3> HIDE DEF r, d
    <3> QED
      BY <1>1, <3>1, <3>2, BodiesJoin
  <2> QED
    BY <1>2, <2>1, <2>2 DEF Written
<1>6. CASE Flush
  <2>1. pending' = <<>> /\ coded' = <<>> /\ sent' = <<>>
    BY <1>6 DEF Flush
  <2>2. file' = file \/ file' = file \o Emit(Pad(pending))
    BY <1>1, <1>6 DEF Flush
  <2>3. file' \in Seq(Item) /\ UnstuffedAtMarkers(file')
    BY <1>1, <1>3, <2>2, EmitRight, BodiesJoin
  <2> QED
    BY <1>2, <2>1, <2>3 DEF Written
<1>7. CASE NewFile
  <2>1. <<>> \in Seq(Item) /\ UnstuffedAtMarkers(<<>>)
    BY DEF UnstuffedAtMarkers
  <2> QED
    BY <1>2, <1>7, <2>1 DEF NewFile, Written
<1>8. CASE UNCHANGED writerVars
  BY <1>8 DEF writerVars, Written
<1> QED
  BY <1>4, <1>5, <1>6, <1>7, <1>8 DEF WriterNext

LEMMA WriterStart == WriterInit => Written
<1>1. <<>> \in Seq(Item) /\ UnstuffedAtMarkers(<<>>)
  BY DEF UnstuffedAtMarkers
<1> QED
  BY <1>1, ByteBitsAssumption DEF WriterInit, Written

\* The bits of the bytes written since the last marker and those that wait are,
\* at any time, the bits of the codes in their order, and at most a byte waits:
\* Write_Stream_To_File, for any size of a byte and any codes of up to two bytes.
THEOREM AllBitsStay == WriterSpec => []AllBitsKept
<1>1. Written => AllBitsKept
  BY DEF Written, AllBitsKept
<1> QED
  BY <1>1, WriterStart, WriterStep, PTL DEF WriterSpec

\* Nothing in a body but the last byte before a restart marker can be taken for
\* the first byte of a marker: every other byte of ones is stuffed.
THEOREM AllStuffed == WriterSpec => []StuffedElsewhere
<1>1. Written => StuffedElsewhere
  BY DEF Written, StuffedElsewhere
<1> QED
  BY <1>1, WriterStart, WriterStep, PTL DEF WriterSpec

-----------------------------------------------------------------------------
(* The recoder: its types, and that what the first pass went through is    *)
(* counted.                                                                *)

Files == 1 .. JPEGFileNum

\* the first pass is through with MCU m of file f
Passed(f, m) ==
  phase = "count" => f < workon \/ (f = workon /\ m < mcu)

SymbolOf(f, m, i)  == image[f].mcus[m][i].symbol
TableFor(f, m, i) == TableOf(image[f].mcus[m][i])

RecoderTyped ==
  /\ phase \in {"count", "tables", "write", "flushed", "done"}
  /\ image \in [Files -> Images]
  /\ workon \in Files /\ mcu \in Nat \ {0} /\ unit \in Nat \ {0}
  /\ seen \in 0 .. 7
  /\ part = "bits" => phase = "write" /\ mcu <= Len(image[workon].mcus)
                      /\ unit <= Len(image[workon].mcus[mcu])
                      /\ image[workon].mcus[mcu][unit].bits # <<>>
  /\ huff_val \in [Tables -> [Symbols -> Nat]]

\* What the first pass went through is counted, and the codes are those of the
\* counted symbols.
Counted ==
  /\ \A f \in Files : \A m \in DOMAIN image[f].mcus :
       Passed(f, m) => \A i \in DOMAIN image[f].mcus[m] :
         huff_val[TableFor(f, m, i)][SymbolOf(f, m, i)] # 0
  /\ phase \notin {"count", "tables"} =>
       code = [t \in Tables |-> [s \in Found(t) |-> NewCode(Rank(t, s))]]

-----------------------------------------------------------------------------

LEMMA ImagesTyped ==
  ASSUME NEW i \in Images
  PROVE  /\ i.mcus \in Seq(Seq(Unit)) /\ Len(i.mcus) \in Nat
         /\ DOMAIN i.mcus = 1 .. Len(i.mcus)
         /\ \A m \in DOMAIN i.mcus :
              /\ i.mcus[m] \in Seq(Unit) /\ Len(i.mcus[m]) \in Nat
              /\ DOMAIN i.mcus[m] = 1 .. Len(i.mcus[m])
              /\ \A n \in DOMAIN i.mcus[m] : i.mcus[m][n] \in Unit
<1>1. i.mcus \in Seq(Seq(Unit))
  BY ImagesAssumption
<1> QED
  BY <1>1

LEMMA TablesTyped ==
  \A u \in Unit : TableOf(u) \in Tables /\ u.symbol \in Symbols
<1> SUFFICES ASSUME NEW u \in Unit
             PROVE  TableOf(u) \in Tables /\ u.symbol \in Symbols
  OBVIOUS
<1>1. u.class \in {"DC", "AC"} /\ u.symbol \in Symbols
  BY DEF Unit
<1> QED
  BY <1>1 DEF TableOf, Tables

\* A symbol of an MCU is counted at least once.
LEMMA UnitsCounted ==
  ASSUME NEW m \in Seq(Unit), NEW t, NEW s
  PROVE  /\ Cardinality(Units(m, t, s)) \in Nat
         /\ \A i \in DOMAIN m : TableOf(m[i]) = t /\ m[i].symbol = s =>
              Cardinality(Units(m, t, s)) # 0
<1>1. IsFiniteSet(DOMAIN m)
  BY FS_Interval
<1>2. IsFiniteSet(Units(m, t, s)) /\ Units(m, t, s) \subseteq DOMAIN m
  BY <1>1, FS_Subset DEF Units
<1>3. Cardinality(Units(m, t, s)) \in Nat
  BY <1>2, FS_CardinalityType
<1>4. ASSUME NEW i \in DOMAIN m, TableOf(m[i]) = t, m[i].symbol = s
      PROVE  Cardinality(Units(m, t, s)) # 0
  <2>1. i \in Units(m, t, s)
    BY <1>4 DEF Units
  <2> QED
    BY <1>2, <2>1, FS_EmptySet
<1> QED
  BY <1>3, <1>4

\* The rank of a symbol is at most the number of symbols.
LEMMA RankInRange ==
  ASSUME huff_val \in [Tables -> [Symbols -> Nat]],
         NEW t \in Tables, NEW s \in Symbols
  PROVE  Rank(t, s) \in 1 .. Cardinality(Symbols)
<1> DEFINE before == {r \in Found(t) :
             \/ huff_val[t][r] > huff_val[t][s]
             \/ huff_val[t][r] = huff_val[t][s] /\ r < s}
<1>1. ~(huff_val[t][s] > huff_val[t][s]) /\ ~(s < s)
  <2>1. huff_val[t][s] \in Nat /\ s \in Nat
    BY RecoderAssumption
  <2> QED
    BY <2>1
<1>2. before \subseteq Symbols \ {s}
  BY <1>1 DEF Found
<1>3. Rank(t, s) = 1 + Cardinality(before)
  BY DEF Rank
<1> HIDE DEF before
<1>4. IsFiniteSet(Symbols)
  BY RecoderAssumption
<1>5. /\ IsFiniteSet(Symbols \ {s})
      /\ Cardinality(Symbols \ {s}) = Cardinality(Symbols) - 1
  BY <1>4, FS_RemoveElement
<1>6. Cardinality(before) <= Cardinality(Symbols) - 1 /\ IsFiniteSet(before)
  BY <1>2, <1>5, FS_Subset
<1>7. Cardinality(before) \in Nat /\ Cardinality(Symbols) \in Nat
  BY <1>4, <1>6, FS_CardinalityType
<1> QED
  BY <1>3, <1>6, <1>7

-----------------------------------------------------------------------------
(* The invariant.                                                          *)

LEMMA RecoderStart == RecoderInit => RecoderTyped /\ Counted
<1> SUFFICES ASSUME RecoderInit
             PROVE  RecoderTyped /\ Counted
  OBVIOUS
<1>1. /\ phase = "count" /\ workon = 1 /\ mcu = 1 /\ unit = 1 /\ seen = 0
      /\ part = "symbol" /\ image \in [Files -> Images]
      /\ huff_val = [t \in Tables |-> [s \in Symbols |-> 0]]
  BY DEF RecoderInit, Files
<1>2. RecoderTyped
  BY <1>1, RecoderAssumption DEF RecoderTyped, Files
<1>3. ASSUME NEW f \in Files, NEW m \in DOMAIN image[f].mcus
      PROVE  ~Passed(f, m)
  <2>1. image[f] \in Images
    BY <1>1
  <2>2. m \in Nat /\ m >= 1
    BY <2>1, ImagesTyped
  <2> QED
    BY <1>1, <2>2 DEF Passed, Files
<1> QED
  BY <1>1, <1>2, <1>3 DEF Counted

LEMMA TypedStep == RecoderTyped /\ [RecoderNext]_recoderVars => RecoderTyped'
<1> SUFFICES ASSUME RecoderTyped, [RecoderNext]_recoderVars
             PROVE  RecoderTyped'
  OBVIOUS
<1>1. /\ phase \in {"count", "tables", "write", "flushed", "done"}
      /\ image \in [Files -> Images]
      /\ workon \in Files /\ mcu \in Nat \ {0} /\ unit \in Nat \ {0}
      /\ seen \in 0 .. 7
      /\ part = "bits" => phase = "write" /\ mcu <= Len(image[workon].mcus)
                          /\ unit <= Len(image[workon].mcus[mcu])
                          /\ image[workon].mcus[mcu][unit].bits # <<>>
      /\ huff_val \in [Tables -> [Symbols -> Nat]]
  BY DEF RecoderTyped
<1>2. CASE CountMCU
  <2>1. /\ phase = "count" /\ mcu <= Len(image[workon].mcus)
        /\ huff_val' = [t \in Tables |-> [s \in Symbols |->
             huff_val[t][s] + Cardinality(Units(image[workon].mcus[mcu], t, s))]]
        /\ mcu' = mcu + 1
        /\ UNCHANGED <<phase, image, workon, unit, part, seen>>
    BY <1>2 DEF CountMCU
  <2>2. image[workon].mcus[mcu] \in Seq(Unit)
    BY <1>1, <2>1, ImagesTyped
  <2>3. \A t \in Tables, s \in Symbols :
          huff_val[t][s] + Cardinality(Units(image[workon].mcus[mcu], t, s)) \in Nat
    BY <1>1, <2>2, UnitsCounted
  <2>4. huff_val' \in [Tables -> [Symbols -> Nat]]
    BY <2>1, <2>3
  <2> QED
    BY <1>1, <2>1, <2>4 DEF RecoderTyped
<1>3. CASE CountBeyond
  <2>1. PICK t \in Tables, s \in Symbols :
          huff_val' = [huff_val EXCEPT ![t][s] = @ + 1]
    BY <1>3 DEF CountBeyond
  <2>2. /\ phase = "count" /\ mcu' = mcu + 1
        /\ UNCHANGED <<phase, image, workon, unit, part, seen>>
    BY <1>3 DEF CountBeyond
  <2>3. huff_val' \in [Tables -> [Symbols -> Nat]]
    BY <1>1, <2>1
  <2> QED
    BY <1>1, <2>2, <2>3 DEF RecoderTyped
<1>4. CASE EndCount
  <2>1. /\ phase = "count" /\ phase' \in {"count", "tables"} /\ mcu' = 1
        /\ workon' \in Files
        /\ UNCHANGED <<image, unit, part, seen, huff_val>>
    BY <1>1, <1>4, RecoderAssumption DEF EndCount, Files
  <2> QED
    BY <1>1, <2>1 DEF RecoderTyped
<1>5. CASE BuildTables
  <2>1. /\ phase = "tables" /\ phase' = "write"
        /\ UNCHANGED <<image, workon, mcu, unit, part, seen, huff_val>>
    BY <1>5 DEF BuildTables
  <2> QED
    BY <1>1, <2>1 DEF RecoderTyped
<1>6. CASE WriteSymbol
  <2>1. /\ phase = "write" /\ mcu <= Len(image[workon].mcus)
        /\ unit <= Len(image[workon].mcus[mcu]) /\ part = "symbol"
        /\ UNCHANGED <<phase, image, workon, mcu, seen, huff_val>>
    BY <1>6 DEF WriteSymbol, Writing, CurrentMCU
  <2>2. \/ unit' = unit + 1 /\ part' = "symbol"
        \/ /\ image[workon].mcus[mcu][unit].bits # <<>>
           /\ unit' = unit /\ part' = "bits"
    BY <1>6, <2>1 DEF WriteSymbol, CurrentUnit, CurrentMCU
  <2> QED
    BY <1>1, <2>1, <2>2 DEF RecoderTyped
<1>7. CASE WriteBits
  <2>1. /\ unit' = unit + 1 /\ part' = "symbol"
        /\ UNCHANGED <<phase, image, workon, mcu, seen, huff_val>>
    BY <1>7 DEF WriteBits
  <2> QED
    BY <1>1, <2>1 DEF RecoderTyped
<1>8. CASE EndMCU
  <2>1. /\ unit > Len(image[workon].mcus[mcu]) /\ mcu <= Len(image[workon].mcus)
        /\ unit' = 1 /\ mcu' = mcu + 1
        /\ UNCHANGED <<phase, image, workon, part, huff_val>>
    BY <1>8 DEF EndMCU, Writing, CurrentMCU
  <2>2. part # "bits"
    <3>1. Len(image[workon].mcus[mcu]) \in Nat
      BY <1>1, <2>1, ImagesTyped
    <3> QED
      BY <1>1, <2>1, <3>1
  <2>3. seen' \in 0 .. 7
    <3>1. seen' = seen \/ seen' = (seen + 1) % 8
      BY <1>8 DEF EndMCU, Restart, NoRestart
    <3> QED
      BY <1>1, <3>1
  <2> QED
    BY <1>1, <2>1, <2>2, <2>3 DEF RecoderTyped
<1>9. CASE EndImage
  <2>1. /\ mcu > Len(image[workon].mcus) /\ phase' = "flushed"
        /\ UNCHANGED <<image, workon, mcu, unit, part, seen, huff_val>>
    BY <1>9 DEF EndImage, place
  <2>2. part # "bits"
    <3>1. Len(image[workon].mcus) \in Nat
      BY <1>1, ImagesTyped
    <3> QED
      BY <1>1, <2>1, <3>1
  <2> QED
    BY <1>1, <2>1, <2>2 DEF RecoderTyped
<1>10. CASE NextImage
  <2>1. /\ phase = "flushed" /\ phase' \in {"write", "done"}
        /\ mcu' = 1 /\ seen' = 0 /\ workon' \in Files
        /\ UNCHANGED <<image, unit, part, huff_val>>
    BY <1>1, <1>10, RecoderAssumption DEF NextImage, Files
  <2>2. part # "bits"
    BY <1>1, <2>1
  <2> QED
    BY <1>1, <2>1, <2>2 DEF RecoderTyped
<1>11. CASE UNCHANGED recoderVars
  BY <1>1, <1>11 DEF recoderVars, place, RecoderTyped
<1> QED
  BY <1>2, <1>3, <1>4, <1>5, <1>6, <1>7, <1>8, <1>9, <1>10, <1>11 DEF RecoderNext

\* What is counted stays counted, and a step that leaves the tables alone and
\* passes nothing new preserves Counted.
LEMMA CountedKept ==
  ASSUME RecoderTyped, Counted, phase # "count",
         phase' # "count", UNCHANGED <<image, huff_val>>,
         \/ phase = "tables" /\ phase' \in {"tables", "write"}
              /\ code' = [t \in Tables |-> [s \in Found(t) |-> NewCode(Rank(t, s))]]
         \/ phase # "tables" /\ UNCHANGED code
  PROVE  Counted'
<1>1. \A f \in Files : \A m \in DOMAIN image[f].mcus :
        \A i \in DOMAIN image[f].mcus[m] :
          huff_val[TableFor(f, m, i)][SymbolOf(f, m, i)] # 0
  BY DEF Counted, Passed
<1>2. \A f, m, i : (TableFor(f, m, i)' = TableFor(f, m, i)
                      /\ SymbolOf(f, m, i)' = SymbolOf(f, m, i))
  BY DEF TableFor, SymbolOf, TableOf
<1>3. code' = [t \in Tables |-> [s \in Found(t) |-> NewCode(Rank(t, s))]]
  BY DEF Counted, RecoderTyped
<1>4. \A t, s : Found(t)' = Found(t) /\ Rank(t, s)' = Rank(t, s)
  BY DEF Found, Rank
<1>5. code' = [t \in Tables |-> [s \in Found(t)' |-> NewCode(Rank(t, s)')]]
  BY <1>3, <1>4
<1> QED
  BY <1>1, <1>2, <1>5 DEF Counted, Passed

\* The first pass counts what it passes, and forgets nothing it counted.
LEMMA CountedGrows ==
  ASSUME RecoderTyped, Counted, phase = "count", phase' = "count", image' = image,
         CountMCU \/ CountBeyond \/ EndCount
  PROVE  Counted'
<1>1. /\ image \in [Files -> Images]
      /\ workon \in Files /\ mcu \in Nat \ {0}
      /\ huff_val \in [Tables -> [Symbols -> Nat]]
  BY DEF RecoderTyped
<1>2. SUFFICES ASSUME NEW f \in Files, NEW m \in DOMAIN image[f].mcus,
                      Passed(f, m)', NEW i \in DOMAIN image[f].mcus[m]
               PROVE  huff_val'[TableFor(f, m, i)][SymbolOf(f, m, i)] # 0
  BY DEF Counted, TableFor, SymbolOf, TableOf
<1>3. /\ image[f].mcus[m] \in Seq(Unit) /\ image[f].mcus[m][i] \in Unit
      /\ m \in Nat /\ m <= Len(image[f].mcus) /\ Len(image[f].mcus) \in Nat
  BY <1>1, ImagesTyped
<1>4. TableFor(f, m, i) \in Tables /\ SymbolOf(f, m, i) \in Symbols
  BY <1>3, TablesTyped DEF TableFor, SymbolOf
<1>5. Passed(f, m) => huff_val[TableFor(f, m, i)][SymbolOf(f, m, i)] # 0
  BY DEF Counted
<1>6. CASE CountMCU
  <2>1. /\ huff_val' = [t \in Tables |-> [s \in Symbols |->
             huff_val[t][s] + Cardinality(Units(image[workon].mcus[mcu], t, s))]]
        /\ mcu' = mcu + 1 /\ workon' = workon /\ mcu <= Len(image[workon].mcus)
    BY <1>6 DEF CountMCU
  <2> DEFINE n == Cardinality(Units(image[workon].mcus[mcu],
                                    TableFor(f, m, i), SymbolOf(f, m, i)))
             old == huff_val[TableFor(f, m, i)][SymbolOf(f, m, i)]
  <2>2. huff_val'[TableFor(f, m, i)][SymbolOf(f, m, i)] = old + n
    BY <1>4, <2>1
  <2>3. image[workon].mcus[mcu] \in Seq(Unit)
    BY <1>1, <2>1, ImagesTyped
  <2>4. n \in Nat /\ old \in Nat
    BY <1>1, <1>4, <2>3, UnitsCounted
  <2>5. Passed(f, m) \/ (f = workon /\ m = mcu)
    BY <1>1, <1>2, <1>3, <2>1 DEF Passed, Files
  <2>6. ASSUME f = workon, m = mcu
        PROVE  n # 0
    BY <1>3, <2>6, UnitsCounted DEF TableFor, SymbolOf
  <2> HIDE DEF n
  <2> QED
    BY <1>5, <2>2, <2>4, <2>5, <2>6
<1>7. CASE CountBeyond
  <2>1. /\ mcu' = mcu + 1 /\ workon' = workon /\ mcu = Len(image[workon].mcus) + 1
        /\ \E t \in Tables, s \in Symbols :
             huff_val' = [huff_val EXCEPT ![t][s] = @ + 1]
    BY <1>7 DEF CountBeyond
  <2>2. Passed(f, m)
    BY <1>1, <1>2, <1>3, <2>1 DEF Passed, Files
  <2>3. PICK t \in Tables, s \in Symbols : huff_val' = [huff_val EXCEPT ![t][s] = @ + 1]
    BY <2>1
  <2>4. \A u \in Tables, r \in Symbols : huff_val[u][r] # 0 => huff_val'[u][r] # 0
    BY <1>1, <2>3
  <2> QED
    BY <1>4, <1>5, <2>2, <2>4
<1>8. CASE EndCount
  <2>1. /\ mcu' = 1 /\ workon' = workon + 1 /\ mcu > Len(image[workon].mcus)
        /\ huff_val' = huff_val
    BY <1>8 DEF EndCount
  <2>2. Passed(f, m)
    BY <1>1, <1>2, <1>3, <2>1 DEF Passed, Files
  <2> QED
    BY <1>5, <2>1, <2>2
<1> QED
  BY <1>6, <1>7, <1>8

\* The first pass ends with all of it passed.
LEMMA CountedEnds ==
  ASSUME RecoderTyped, Counted, phase = "count", phase' = "tables", EndCount
  PROVE  Counted'
<1>1. /\ image \in [Files -> Images] /\ workon = JPEGFileNum
      /\ mcu > Len(image[workon].mcus) /\ mcu \in Nat
      /\ UNCHANGED <<image, huff_val>>
  <2>1. workon \in 1 .. JPEGFileNum /\ ~(workon < JPEGFileNum)
    BY DEF EndCount, RecoderTyped, Files
  <2> QED
    BY <2>1, RecoderAssumption DEF EndCount, RecoderTyped
<1>2. \A f \in Files : \A m \in DOMAIN image[f].mcus : Passed(f, m)
  <2> SUFFICES ASSUME NEW f \in Files, NEW m \in DOMAIN image[f].mcus
               PROVE  Passed(f, m)
    OBVIOUS
  <2>1. m \in 1 .. Len(image[f].mcus) /\ Len(image[f].mcus) \in Nat
    BY <1>1, ImagesTyped
  <2> QED
    BY <1>1, <2>1, RecoderAssumption DEF Passed, Files
<1>3. \A f, m, i : (TableFor(f, m, i)' = TableFor(f, m, i)
                      /\ SymbolOf(f, m, i)' = SymbolOf(f, m, i))
  BY <1>1 DEF TableFor, SymbolOf, TableOf
<1> QED
  BY <1>1, <1>2, <1>3 DEF Counted

LEMMA CountedStep ==
  RecoderTyped /\ Counted /\ [RecoderNext]_recoderVars => Counted'
<1> SUFFICES ASSUME RecoderTyped, Counted, [RecoderNext]_recoderVars
             PROVE  Counted'
  OBVIOUS
<1>1. CASE CountMCU
  <2>1. phase = "count" /\ phase' = "count" /\ image' = image
    BY <1>1 DEF CountMCU
  <2> QED
    BY <1>1, <2>1, CountedGrows
<1>2. CASE CountBeyond
  <2>1. phase = "count" /\ phase' = "count" /\ image' = image
    BY <1>2 DEF CountBeyond
  <2> QED
    BY <1>2, <2>1, CountedGrows
<1>3. CASE EndCount
  <2>1. phase = "count" /\ phase' \in {"count", "tables"} /\ image' = image
    BY <1>3 DEF EndCount
  <2> QED
    BY <1>3, <2>1, CountedGrows, CountedEnds
<1>4. CASE BuildTables
  <2>1. /\ phase = "tables" /\ phase' = "write"
        /\ UNCHANGED <<image, huff_val>>
        /\ code' = [t \in Tables |-> [s \in Found(t) |-> NewCode(Rank(t, s))]]
    BY <1>4 DEF BuildTables
  <2> QED
    BY <2>1, CountedKept
<1>5. CASE WriteSymbol \/ WriteBits \/ EndMCU \/ EndImage \/ NextImage
  <2>1. /\ phase \in {"write", "flushed"} /\ phase' \in {"write", "flushed", "done"}
        /\ UNCHANGED <<image, huff_val, code>>
    BY <1>5 DEF WriteSymbol, WriteBits, EndMCU, EndImage, NextImage, Writing
  <2> QED
    BY <2>1, CountedKept
<1>6. CASE UNCHANGED recoderVars
  <2>1. UNCHANGED <<phase, image, workon, mcu, huff_val, code>>
    BY <1>6 DEF recoderVars, place
  <2>2. \A f, m, i : (TableFor(f, m, i)' = TableFor(f, m, i)
                        /\ SymbolOf(f, m, i)' = SymbolOf(f, m, i))
    BY <2>1 DEF TableFor, SymbolOf, TableOf
  <2>3. \A t, s : Found(t)' = Found(t) /\ Rank(t, s)' = Rank(t, s)
    BY <2>1 DEF Found, Rank
  <2>4. \A f, m : Passed(f, m)' = Passed(f, m)
    BY <2>1 DEF Passed
  <2> QED
    BY <2>1, <2>2, <2>3, <2>4 DEF Counted
<1> QED
  BY <1>1, <1>2, <1>3, <1>4, <1>5, <1>6 DEF RecoderNext

-----------------------------------------------------------------------------
(* The codes of cal_new_huffman: their sizes and their values.             *)

LEMMA MaxBitsIs == MaxBits \in Nat \ {0} /\ Cardinality(Symbols) \in Nat
<1>1. Cardinality(Symbols) \in Nat
  BY RecoderAssumption, FS_CardinalityType
<1> QED
  BY <1>1, ByteBitsAssumption DEF MaxBits

\* Powers of two.
LEMMA Power2Is ==
  /\ Power2 \in [Nat -> Nat \ {0}]
  /\ Power2[0] = 1
  /\ \A n \in Nat : Power2[n + 1] = 2 * Power2[n]
<1> DEFINE step == [x \in Nat \X (Nat \ {0}) |-> 2 * x[2]]
<1>1. /\ step \in Steps(Nat \ {0})
      /\ \A n \in Nat, v \in Nat \ {0} : step[<<n, v>>] = 2 * v
  BY DEF Steps
<1> HIDE DEF step
<1>2. PICK g : Recurses(g, Nat \ {0}, 1, step)
  BY <1>1, Recursion
<1>3. ASSUME NEW n \in Nat
      PROVE  g[n] = IF n = 0 THEN 1 ELSE 2 * g[n - 1]
  <2>1. CASE n = 0
    BY <1>2, <2>1 DEF Recurses
  <2>2. CASE n # 0
    <3>1. n - 1 \in Nat /\ (n - 1) + 1 = n /\ g[n - 1] \in Nat \ {0}
      BY <1>2, <2>2 DEF Recurses
    <3> QED
      BY <1>1, <1>2, <2>2, <3>1 DEF Recurses
  <2> QED
    BY <2>1, <2>2
<1>4. g = [n \in Nat |-> IF n = 0 THEN 1 ELSE 2 * g[n - 1]]
  BY <1>2, <1>3 DEF Recurses
<1>5. Power2 = [n \in Nat |-> IF n = 0 THEN 1 ELSE 2 * Power2[n - 1]]
  BY <1>4 DEF Power2
<1>6. /\ Power2[0] = 1
      /\ \A n \in Nat : Power2[n + 1] = 2 * Power2[n]
  BY <1>5
<1> DEFINE T == {n \in Nat : Power2[n] \in Nat \ {0}}
<1>7. 0 \in T
  BY <1>6
<1>8. \A n \in Nat : n \in T => n + 1 \in T
  BY <1>6
<1> HIDE DEF T
<1>9. Nat \subseteq T
  BY <1>7, <1>8, SetInduction
<1> QED
  BY <1>5, <1>6, <1>9 DEF T

LEMMA Power2Sum ==
  \A a, b \in Nat : Power2[a + b] = Power2[a] * Power2[b]
<1> SUFFICES ASSUME NEW a \in Nat
             PROVE  \A b \in Nat : Power2[a + b] = Power2[a] * Power2[b]
  OBVIOUS
<1> DEFINE T == {b \in Nat : Power2[a + b] = Power2[a] * Power2[b]}
<1>1. 0 \in T
  BY Power2Is
<1>2. ASSUME NEW b \in Nat, b \in T
      PROVE  b + 1 \in T
  <2>1. Power2[a + (b + 1)] = 2 * Power2[a + b] /\ Power2[b + 1] = 2 * Power2[b]
    <3>1. a + (b + 1) = (a + b) + 1 /\ a + b \in Nat
      OBVIOUS
    <3> QED
      BY <3>1, Power2Is
  <2> DEFINE p == Power2[a]
             q == Power2[b]
  <2>2. p \in Nat /\ q \in Nat /\ Power2[a + b] = p * q
    BY <1>2, Power2Is
  <2> HIDE DEF p, q
  <2>3. 2 * (p * q) = p * (2 * q)
    BY <2>2
  <2> QED
    BY <2>1, <2>2, <2>3 DEF p, q
<1> HIDE DEF T
<1>3. Nat \subseteq T
  BY <1>1, <1>2, SetInduction
<1> QED
  BY <1>3 DEF T

\* How many codes are shorter than n bits.
LEMMA ShorterIs ==
  /\ Shorter \in [1 .. MaxBits + 1 -> Nat]
  /\ Shorter[1] = 0
  /\ \A n \in 1 .. MaxBits : Shorter[n + 1] = Shorter[n] + OneSizeMax[n]
<1>0. 0 \in Nat /\ MaxBits + 1 \in Nat /\ \A n \in 1 .. MaxBits : OneSizeMax[n] \in Nat
  BY MaxBitsIs, RecoderAssumption
<1> DEFINE sizes == 1 .. MaxBits
           step == [x \in Nat \X Nat |-> IF x[1] \in sizes THEN x[2] + OneSizeMax[x[1]] ELSE 0]
<1>1. step \in Steps(Nat)
  BY <1>0 DEF Steps
<1>2. \A n \in 1 .. MaxBits, v \in Nat : step[<<n, v>>] = v + OneSizeMax[n]
  OBVIOUS
<1> HIDE DEF step
<1>3. PICK f : RecursesTo(f, MaxBits + 1, Nat, 0, step)
  BY <1>0, <1>1, RecursionTo
<1>4. \A k \in 1 .. MaxBits + 1 : f[k] \in Nat
  BY <1>3, Zenon DEF RecursesTo
<1>5. f = [k \in 1 .. MaxBits + 1 |-> IF k = 1 THEN 0 ELSE step[<<k - 1, f[k - 1]>>]]
  BY <1>3, Zenon DEF RecursesTo
<1>6. ASSUME NEW k \in 1 .. MaxBits + 1
      PROVE  f[k] = IF k = 1 THEN 0 ELSE f[k - 1] + OneSizeMax[k - 1]
  <2>1. k # 1 => k - 1 \in 1 .. MaxBits /\ k - 1 \in 1 .. MaxBits + 1 /\ f[k - 1] \in Nat
    BY <1>0, <1>4, MaxBitsIs
  <2>2. k # 1 => step[<<k - 1, f[k - 1]>>] = f[k - 1] + OneSizeMax[k - 1]
    BY <1>2, <2>1
  <2>3. f[k] = IF k = 1 THEN 0 ELSE step[<<k - 1, f[k - 1]>>]
    BY <1>5, Zenon
  <2> QED
    BY <2>2, <2>3
<1>7. f = [k \in 1 .. MaxBits + 1 |-> IF k = 1 THEN 0 ELSE f[k - 1] + OneSizeMax[k - 1]]
  BY <1>5, <1>6
<1>8. Shorter = [k \in 1 .. MaxBits + 1 |-> IF k = 1 THEN 0 ELSE Shorter[k - 1] + OneSizeMax[k - 1]]
  BY <1>7 DEF Shorter
<1>9. /\ Shorter[1] = 0
      /\ \A n \in 1 .. MaxBits : Shorter[n + 1] = Shorter[n] + OneSizeMax[n]
  BY <1>0, <1>8, MaxBitsIs
<1> DEFINE T == {n \in Nat : n + 1 \in 1 .. MaxBits + 1 => Shorter[n + 1] \in Nat}
<1>10. 0 \in T
  BY <1>9
<1>11. ASSUME NEW n \in Nat, n \in T
      PROVE  n + 1 \in T
  <2> SUFFICES ASSUME (n + 1) + 1 \in 1 .. MaxBits + 1
               PROVE  Shorter[(n + 1) + 1] \in Nat
    OBVIOUS
  <2>1. n + 1 \in 1 .. MaxBits /\ n + 1 \in 1 .. MaxBits + 1
    BY MaxBitsIs
  <2> QED
    BY <1>0, <1>9, <1>11, <2>1
<1> HIDE DEF T
<1>12. Nat \subseteq T
  BY <1>10, <1>11, SetInduction
<1>13. ASSUME NEW k \in 1 .. MaxBits + 1 PROVE Shorter[k] \in Nat
  <2>1. k - 1 \in Nat /\ (k - 1) + 1 = k
    BY <1>0
  <2> QED
    BY <1>12, <2>1 DEF T
<1> QED
  BY <1>8, <1>9, <1>13

\* huffcode as the lengths go by.
LEMMA FirstCodeIs ==
  /\ \A n \in 1 .. MaxBits : FirstCode(n) \in Nat
  /\ FirstCode(1) = 0
  /\ \A n \in 1 .. MaxBits - 1 : FirstCode(n + 1) = 2 * (FirstCode(n) + OneSizeMax[n])
<1>0. 0 \in Nat /\ MaxBits \in Nat \ {0} /\ \A n \in 1 .. MaxBits : OneSizeMax[n] \in Nat
  BY MaxBitsIs, RecoderAssumption
<1> DEFINE sizes == 1 .. MaxBits
           step == [x \in Nat \X Nat |->
                      IF x[1] \in sizes THEN 2 * (x[2] + OneSizeMax[x[1]]) ELSE 0]
           first == CHOOSE f : f = [k \in 1 .. MaxBits |->
                      IF k = 1 THEN 0 ELSE 2 * (f[k - 1] + OneSizeMax[k - 1])]
<1>1. step \in Steps(Nat)
  BY <1>0 DEF Steps
<1>2. \A n \in 1 .. MaxBits, v \in Nat : step[<<n, v>>] = 2 * (v + OneSizeMax[n])
  OBVIOUS
<1> HIDE DEF step
<1>3. PICK f : RecursesTo(f, MaxBits, Nat, 0, step)
  BY <1>0, <1>1, RecursionTo
<1>4. \A k \in 1 .. MaxBits : f[k] \in Nat
  BY <1>3, Zenon DEF RecursesTo
<1>5. f = [k \in 1 .. MaxBits |-> IF k = 1 THEN 0 ELSE step[<<k - 1, f[k - 1]>>]]
  BY <1>3, Zenon DEF RecursesTo
<1>6. ASSUME NEW k \in 1 .. MaxBits
      PROVE  f[k] = IF k = 1 THEN 0 ELSE 2 * (f[k - 1] + OneSizeMax[k - 1])
  <2>1. k # 1 => k - 1 \in 1 .. MaxBits /\ f[k - 1] \in Nat
    BY <1>0, <1>4
  <2>2. k # 1 => step[<<k - 1, f[k - 1]>>] = 2 * (f[k - 1] + OneSizeMax[k - 1])
    BY <1>2, <2>1
  <2>3. f[k] = IF k = 1 THEN 0 ELSE step[<<k - 1, f[k - 1]>>]
    BY <1>5, Zenon
  <2> QED
    BY <2>2, <2>3
<1>7. f = [k \in 1 .. MaxBits |-> IF k = 1 THEN 0 ELSE 2 * (f[k - 1] + OneSizeMax[k - 1])]
  BY <1>5, <1>6
<1>8. first = [k \in 1 .. MaxBits |-> IF k = 1 THEN 0 ELSE 2 * (first[k - 1] + OneSizeMax[k - 1])]
  BY <1>7
<1>9. \A n : FirstCode(n) = first[n]
  BY DEF FirstCode
<1> HIDE DEF first
<1>10. /\ first[1] = 0
       /\ \A n \in 1 .. MaxBits - 1 : first[n + 1] = 2 * (first[n] + OneSizeMax[n])
  BY <1>0, <1>8
<1> DEFINE T == {n \in Nat : n + 1 \in 1 .. MaxBits => first[n + 1] \in Nat}
<1>11. 0 \in T
  BY <1>10
<1>12. ASSUME NEW n \in Nat, n \in T
      PROVE  n + 1 \in T
  <2> SUFFICES ASSUME (n + 1) + 1 \in 1 .. MaxBits
               PROVE  first[(n + 1) + 1] \in Nat
    OBVIOUS
  <2>1. n + 1 \in 1 .. MaxBits /\ n + 1 \in 1 .. MaxBits - 1
    BY <1>0
  <2> QED
    BY <1>0, <1>10, <1>12, <2>1
<1> HIDE DEF T
<1>13. Nat \subseteq T
  BY <1>11, <1>12, SetInduction
<1>14. ASSUME NEW k \in 1 .. MaxBits PROVE first[k] \in Nat
  <2>1. k - 1 \in Nat /\ (k - 1) + 1 = k
    BY <1>0
  <2> QED
    BY <1>13, <2>1 DEF T
<1> QED
  BY <1>9, <1>10, <1>14

LEMMA ShorterGrows ==
  \A m, n \in 1 .. MaxBits + 1 : m <= n => Shorter[m] <= Shorter[n]
<1> SUFFICES ASSUME NEW m \in 1 .. MaxBits + 1
             PROVE  \A n \in 1 .. MaxBits + 1 : m <= n => Shorter[m] <= Shorter[n]
  OBVIOUS
<1> DEFINE T == {d \in Nat : m + d \in 1 .. MaxBits + 1 => Shorter[m] <= Shorter[m + d]}
<1>0. MaxBits \in Nat /\ \A n \in 1 .. MaxBits : OneSizeMax[n] \in Nat
  BY MaxBitsIs, RecoderAssumption
<1>1. 0 \in T
  BY ShorterIs
<1>2. ASSUME NEW d \in Nat, d \in T
      PROVE  d + 1 \in T
  <2> SUFFICES ASSUME m + (d + 1) \in 1 .. MaxBits + 1
               PROVE  Shorter[m] <= Shorter[m + (d + 1)]
    OBVIOUS
  <2>1. m + d \in 1 .. MaxBits /\ m + d \in 1 .. MaxBits + 1 /\ m + (d + 1) = (m + d) + 1
    BY <1>0
  <2>2. Shorter[(m + d) + 1] = Shorter[m + d] + OneSizeMax[m + d]
    BY <2>1, ShorterIs
  <2>3. /\ Shorter[m] \in Nat /\ Shorter[m + d] \in Nat /\ OneSizeMax[m + d] \in Nat
        /\ Shorter[m] <= Shorter[m + d]
    BY <1>0, <1>2, <2>1, ShorterIs
  <2> QED
    BY <2>1, <2>2, <2>3
<1> HIDE DEF T
<1>3. Nat \subseteq T
  BY <1>1, <1>2, SetInduction
<1>4. ASSUME NEW n \in 1 .. MaxBits + 1, m <= n
      PROVE  Shorter[m] <= Shorter[n]
  <2>1. n - m \in Nat /\ m + (n - m) = n
    BY <1>0, <1>4
  <2> QED
    BY <1>3, <2>1 DEF T
<1> QED
  BY <1>4

\* The ranks of the codes of n bits.
Ranks(n) == Shorter[n] + 1 .. Shorter[n + 1]

\* Every symbol has a code, and no symbol a shorter one than a symbol before it.
LEMMA CodeSizeIs ==
  /\ \A r \in 1 .. Cardinality(Symbols) :
       CodeSize(r) \in 1 .. MaxBits /\ r \in Ranks(CodeSize(r))
  /\ \A m, n \in 1 .. MaxBits, r, s \in Nat :
       r \in Ranks(m) /\ s \in Ranks(n) /\ r <= s => m <= n
<1>0. MaxBits \in Nat \ {0} /\ Cardinality(Symbols) \in Nat
  BY MaxBitsIs
<1>1. ASSUME NEW r \in 1 .. Cardinality(Symbols)
      PROVE  CodeSize(r) \in 1 .. MaxBits /\ r \in Ranks(CodeSize(r))
  <2> DEFINE T == {n \in Nat : n \in 1 .. MaxBits /\ r <= Shorter[n + 1]}
  <2>1. PICK n \in 1 .. MaxBits : Cardinality(Symbols) \in Shorter[n] + 1 .. Shorter[n + 1]
    BY CodesAssumption
  <2>2. n \in T
    <3>1. n + 1 \in 1 .. MaxBits + 1 /\ n \in Nat
      BY <1>0
    <3>2. Shorter[n + 1] \in Nat
      BY <3>1, ShorterIs
    <3> QED
      BY <1>0, <2>1, <3>1, <3>2
  <2>3. T # {} /\ T \in SUBSET Nat
    BY <2>2
  <2> HIDE DEF T
  <2>4. PICK k \in T : \A m \in T : k <= m
    BY <2>3, Least, Zenon
  <2>5. k \in 1 .. MaxBits /\ r <= Shorter[k + 1]
    BY <2>4 DEF T
  <2>6. Shorter[k] + 1 <= r
    <3>1. CASE k = 1
      BY <3>1, ShorterIs
    <3>2. CASE k # 1
      <4>1. k - 1 \in 1 .. MaxBits /\ (k - 1) + 1 = k /\ k - 1 \in Nat /\ ~(k <= k - 1)
        BY <1>0, <2>5, <3>2
      <4>2. ~(k - 1 \in T)
        BY <2>4, <4>1
      <4>3. ~(r <= Shorter[k])
        BY <4>1, <4>2 DEF T
      <4>4. Shorter[k] \in Nat
        BY <1>0, <2>5, ShorterIs
      <4> QED
        BY <4>3, <4>4
    <3> QED
      BY <3>1, <3>2
  <2>7. r \in Shorter[k] + 1 .. Shorter[k + 1]
    <3>1. k + 1 \in 1 .. MaxBits + 1 /\ k \in 1 .. MaxBits + 1
      BY <1>0, <2>5
    <3>2. Shorter[k] \in Nat /\ Shorter[k + 1] \in Nat
      BY <3>1, ShorterIs
    <3> QED
      BY <2>5, <2>6, <3>2
  <2> QED
    BY <2>5, <2>7 DEF CodeSize, Ranks
<1>2. ASSUME NEW m \in 1 .. MaxBits, NEW n \in 1 .. MaxBits, NEW r \in Nat, NEW s \in Nat,
             r \in Ranks(m), s \in Ranks(n), r <= s
      PROVE  m <= n
  <2> SUFFICES ASSUME n + 1 <= m PROVE FALSE
    BY <1>0
  <2>1. {m, n + 1, n, m + 1} \subseteq 1 .. MaxBits + 1
    BY <1>0
  <2>2. Shorter[n + 1] <= Shorter[m] /\ \A k \in {m, n + 1, n, m + 1} : Shorter[k] \in Nat
    BY <2>1, ShorterGrows, ShorterIs
  <2> QED
    BY <1>2, <2>2 DEF Ranks
<1> QED
  BY <1>1, <1>2

\* From the codes of m bits to those of n, every code counts for 2 to the n - m.
LEMMA FirstCodeGrows ==
  ASSUME NEW m \in 1 .. MaxBits, NEW n \in 1 .. MaxBits, m < n,
         NEW x \in Nat, x <= FirstCode(m) + OneSizeMax[m]
  PROVE  Power2[n - m] * x <= FirstCode(n)
<1>0. MaxBits \in Nat \ {0} /\ \A k \in 1 .. MaxBits : OneSizeMax[k] \in Nat
  BY MaxBitsIs, RecoderAssumption
<1> DEFINE T == {d \in Nat : m + (d + 1) \in 1 .. MaxBits =>
                               Power2[d + 1] * x <= FirstCode(m + (d + 1))}
<1>1. 0 \in T
  <2> SUFFICES ASSUME m + (0 + 1) \in 1 .. MaxBits
               PROVE  Power2[0 + 1] * x <= FirstCode(m + (0 + 1))
    OBVIOUS
  <2>1. m \in 1 .. MaxBits - 1 /\ m + (0 + 1) = m + 1
    BY <1>0
  <2>2. Power2[0 + 1] = 2
    BY Power2Is
  <2>3. FirstCode(m + 1) = 2 * (FirstCode(m) + OneSizeMax[m])
    BY <2>1, FirstCodeIs
  <2>4. FirstCode(m) \in Nat /\ OneSizeMax[m] \in Nat
    BY <1>0, FirstCodeIs
  <2> QED
    BY <2>1, <2>2, <2>3, <2>4
<1>2. ASSUME NEW d \in Nat, d \in T
      PROVE  d + 1 \in T
  <2> SUFFICES ASSUME m + ((d + 1) + 1) \in 1 .. MaxBits
               PROVE  Power2[(d + 1) + 1] * x <= FirstCode(m + ((d + 1) + 1))
    OBVIOUS
  <2>1. /\ m + (d + 1) \in 1 .. MaxBits /\ m + (d + 1) \in 1 .. MaxBits - 1
        /\ m + ((d + 1) + 1) = (m + (d + 1)) + 1 /\ d + 1 \in Nat
    BY <1>0
  <2> DEFINE f == FirstCode(m + (d + 1))
             o == OneSizeMax[m + (d + 1)]
             p == Power2[d + 1]
  <2>2. /\ f \in Nat /\ o \in Nat /\ p \in Nat /\ p * x <= f
        /\ FirstCode((m + (d + 1)) + 1) = 2 * (f + o) /\ Power2[(d + 1) + 1] = 2 * p
    BY <1>0, <1>2, <2>1, FirstCodeIs, Power2Is
  <2> HIDE DEF f, o, p
  <2>3. (2 * p) * x <= 2 * (f + o)
    BY <2>2
  <2> QED
    BY <2>1, <2>2, <2>3
<1> HIDE DEF T
<1>3. Nat \subseteq T
  BY <1>1, <1>2, SetInduction
<1>4. (n - m) - 1 \in T /\ ((n - m) - 1) + 1 = n - m /\ m + (n - m) = n
  BY <1>0, <1>3
<1> QED
  BY <1>4 DEF T

\* The code of the r-th symbol as a number, if it has n bits.
Huffcode(r, n) == FirstCode(n) + r - Shorter[n] - 1

\* A code is more than what any code before it begins with.
LEMMA HuffcodeBehind ==
  ASSUME NEW m \in 1 .. MaxBits, NEW n \in 1 .. MaxBits, NEW r \in Nat, NEW s \in Nat,
         r \in Ranks(m), s \in Ranks(n), r < s
  PROVE  /\ Huffcode(r, m) \in Nat /\ Huffcode(s, n) \in Nat /\ m <= n
         /\ Power2[n - m] * (Huffcode(r, m) + 1) <= Huffcode(s, n)
<1>1. MaxBits \in Nat \ {0} /\ m <= n
  BY MaxBitsIs, CodeSizeIs
<1>2. /\ Shorter[m] \in Nat /\ Shorter[n] \in Nat
      /\ OneSizeMax[m] \in Nat /\ OneSizeMax[n] \in Nat
      /\ FirstCode(m) \in Nat /\ FirstCode(n) \in Nat
      /\ Shorter[m + 1] = Shorter[m] + OneSizeMax[m]
      /\ Shorter[n + 1] = Shorter[n] + OneSizeMax[n]
  BY <1>1, FirstCodeIs, ShorterIs, RecoderAssumption
<1>3. /\ Huffcode(r, m) \in Nat /\ Huffcode(s, n) \in Nat
      /\ Huffcode(r, m) + 1 <= FirstCode(m) + OneSizeMax[m]
      /\ FirstCode(n) <= Huffcode(s, n)
  BY <1>2 DEF Ranks, Huffcode
<1>4. Power2[n - m] * (Huffcode(r, m) + 1) <= Huffcode(s, n)
  <2>1. CASE m = n
    <3>1. Power2[n - m] = 1
      BY <2>1, Power2Is
    <3> QED
      BY <1>2, <1>3, <2>1, <3>1 DEF Huffcode
  <2>2. CASE m < n
    <3> DEFINE x == Huffcode(r, m) + 1
    <3>1. x \in Nat /\ x <= FirstCode(m) + OneSizeMax[m]
      BY <1>3
    <3> HIDE DEF x
    <3>2. Power2[n - m] * x <= FirstCode(n)
      BY <2>2, <3>1, FirstCodeGrows
    <3>3. Power2[n - m] * x \in Nat
      <4>1. n - m \in Nat
        BY <1>1
      <4>2. Power2[n - m] \in Nat
        BY <4>1, Power2Is
      <4> QED
        BY <3>1, <4>2
    <3> QED
      BY <1>2, <1>3, <3>2, <3>3 DEF x
  <2> QED
    BY <1>1, <2>1, <2>2
<1> QED
  BY <1>1, <1>3, <1>4

\* A code is less than the ones of its length.
LEMMA HuffcodeFits ==
  ASSUME NEW m \in 1 .. MaxBits, NEW r \in 1 .. Cardinality(Symbols), r \in Ranks(m)
  PROVE  Huffcode(r, m) \in Nat /\ Huffcode(r, m) + 1 < Power2[m]
<1>0. MaxBits \in Nat \ {0} /\ Cardinality(Symbols) \in Nat
  BY MaxBitsIs
<1> DEFINE s == Cardinality(Symbols)
<1>1. PICK n \in 1 .. MaxBits :
        /\ s \in Shorter[n] + 1 .. Shorter[n + 1]
        /\ FirstCode(n) + s - Shorter[n] < Power2[n]
  BY CodesAssumption
<1>2. /\ FirstCode(n) \in Nat /\ Shorter[n] \in Nat /\ Power2[n] \in Nat
      /\ FirstCode(m) \in Nat /\ Shorter[m] \in Nat /\ Shorter[m + 1] \in Nat
  <2>1. n \in Nat /\ {n, m, m + 1} \subseteq 1 .. MaxBits + 1
    BY <1>0
  <2> QED
    BY <2>1, FirstCodeIs, ShorterIs, Power2Is
<1>3. s \in Ranks(n) /\ Huffcode(s, n) \in Nat /\ Huffcode(s, n) + 1 < Power2[n]
  BY <1>0, <1>1, <1>2 DEF Ranks, Huffcode
<1>4. CASE r = s
  <2>1. m = n
    <3>1. m <= n /\ n <= m
      BY <1>0, <1>3, <1>4, CodeSizeIs
    <3> QED
      BY <3>1
  <2> QED
    BY <1>3, <1>4, <2>1
<1>5. CASE r < s
  <2> DEFINE x == Huffcode(r, m)
             y == Huffcode(s, n)
             p == Power2[n - m]
             q == Power2[m]
  <2>1. x \in Nat /\ y \in Nat /\ m <= n /\ p * (x + 1) <= y
    BY <1>0, <1>3, <1>5, HuffcodeBehind
  <2>2. n - m \in Nat /\ m \in Nat /\ (n - m) + m = n
    BY <1>0, <2>1
  <2>3. p \in Nat \ {0} /\ q \in Nat /\ Power2[n] = p * q
    BY <2>2, Power2Is, Power2Sum
  <2>4. y + 1 < p * q
    BY <1>3, <2>3
  <2> HIDE DEF x, y, p, q
  <2>5. x + 1 < q
    <3>1. SUFFICES ASSUME q <= x + 1 PROVE FALSE
      BY <2>1, <2>3
    <3>2. p * q <= p * (x + 1) /\ p * q \in Nat /\ p * (x + 1) \in Nat
      BY <2>1, <2>3, <3>1
    <3> QED
      BY <2>1, <2>4, <3>2
  <2> QED
    BY <2>1, <2>5 DEF x, q
<1> QED
  BY <1>0, <1>4, <1>5

-----------------------------------------------------------------------------
(* Binary digits.                                                          *)

\* The quotient by a power of two, and by the next one.
LEMMA Halves ==
  ASSUME NEW v \in Nat
  PROVE  /\ \A i \in Nat : v \div Power2[i] \in Nat
         /\ v \div Power2[0] = v
         /\ \A i \in Nat : v < Power2[i] => v \div Power2[i] = 0
         /\ \A i \in Nat : v \div Power2[i] =
                             2 * (v \div Power2[i + 1]) + ((v \div Power2[i]) % 2)
<1>1. ASSUME NEW p \in Nat \ {0}
      PROVE  /\ v \div p \in Nat /\ p * (v \div p) <= v /\ v < p * (v \div p) + p
             /\ v < p => v \div p = 0
  <2>1. v = p * (v \div p) + (v % p) /\ v % p \in 0 .. p - 1 /\ v \div p \in Int
    OBVIOUS
  <2> DEFINE q == v \div p
  <2>2. q \in Int /\ p * q <= v /\ v < p * q + p
    BY <2>1
  <2> HIDE DEF q
  <2>3. q >= 0
    <3>1. SUFFICES ASSUME q <= -1 PROVE FALSE
      BY <2>2
    <3>2. p * q <= -p
      BY <2>2, <3>1
    <3> QED
      BY <2>2, <3>2
  <2>4. ASSUME v < p PROVE q = 0
    <3>1. SUFFICES ASSUME q >= 1 PROVE FALSE
      BY <2>2, <2>3
    <3>2. p * q >= p
      BY <2>2, <3>1
    <3> QED
      BY <2>2, <2>4, <3>2
  <2> QED
    BY <2>2, <2>3, <2>4 DEF q
<1>2. ASSUME NEW i \in Nat
      PROVE  v \div Power2[i] = 2 * (v \div Power2[i + 1]) + ((v \div Power2[i]) % 2)
  <2> DEFINE p == Power2[i]
             q == v \div p
             h == v \div (2 * p)
  <2>1. p \in Nat \ {0} /\ 2 * p \in Nat \ {0} /\ Power2[i + 1] = 2 * p
    BY Power2Is
  <2>2. q \in Nat /\ p * q <= v /\ v < p * q + p
    BY <1>1, <2>1
  <2>3. h \in Nat /\ (2 * p) * h <= v /\ v < (2 * p) * h + 2 * p
    BY <1>1, <2>1
  <2> HIDE DEF p, q, h
  <2>4. 2 * h <= q
    <3>1. SUFFICES ASSUME q + 1 <= 2 * h PROVE FALSE
      BY <2>2, <2>3
    <3>2. p * (q + 1) <= p * (2 * h)
      BY <2>1, <2>2, <2>3, <3>1
    <3>3. p * (q + 1) = p * q + p /\ p * (2 * h) = (2 * p) * h
      BY <2>1, <2>2, <2>3
    <3> QED
      BY <2>1, <2>2, <2>3, <3>2, <3>3
  <2>5. q <= 2 * h + 1
    <3>1. SUFFICES ASSUME 2 * h + 2 <= q PROVE FALSE
      BY <2>2, <2>3
    <3>2. p * (2 * h + 2) <= p * q
      BY <2>1, <2>2, <2>3, <3>1
    <3>3. p * (2 * h + 2) = (2 * p) * h + 2 * p
      BY <2>1, <2>3
    <3> QED
      BY <2>1, <2>2, <2>3, <3>2, <3>3
  <2>6. q = 2 * h + (q % 2)
    BY <2>2, <2>3, <2>4, <2>5
  <2> QED
    BY <2>1, <2>6 DEF p, q, h
<1>3. v \div Power2[0] = v
  BY Power2Is
<1>4. \A i \in Nat : Power2[i] \in Nat \ {0}
  BY Power2Is
<1> QED
  BY <1>1, <1>2, <1>3, <1>4

\* The digits of a number are bits.
LEMMA DigitsIs ==
  ASSUME NEW v \in Nat, NEW n \in Nat
  PROVE  /\ Digits(v, n) \in Seq(Bit) /\ Len(Digits(v, n)) = n
         /\ DOMAIN Digits(v, n) = 1 .. n
         /\ \A i \in 1 .. n : Digits(v, n)[i] = (v \div Power2[n - i]) % 2
<1>1. \A i \in 1 .. n : (v \div Power2[n - i]) % 2 \in Bit
  <2> SUFFICES ASSUME NEW i \in 1 .. n
               PROVE  (v \div Power2[n - i]) % 2 \in Bit
    OBVIOUS
  <2>1. n - i \in Nat
    OBVIOUS
  <2>2. v \div Power2[n - i] \in Nat
    BY <2>1, Halves
  <2> DEFINE q == v \div Power2[n - i]
  <2>3. q \in Nat
    BY <2>2
  <2> HIDE DEF q
  <2>4. q % 2 \in {0, 1}
    BY <2>3
  <2> QED
    BY <2>4 DEF Bit, q
<1>2. Digits(v, n) \in [1 .. n -> Bit]
  BY <1>1 DEF Digits
<1> QED
  BY <1>2 DEF Digits

\* Digits that agree with the first ones of w are the number w begins with.
LEMMA DigitsTell ==
  ASSUME NEW m \in Nat, NEW n \in Nat, m <= n,
         NEW v \in Nat, v < Power2[m], NEW w \in Nat, w < Power2[n],
         \A i \in 1 .. m : Digits(v, m)[i] = Digits(w, n)[i]
  PROVE  v = w \div Power2[n - m]
<1> DEFINE T == {k \in Nat : k <= m => v \div Power2[m - k] = w \div Power2[n - k]}
<1>1. 0 \in T
  <2>1. v \div Power2[m] = 0 /\ w \div Power2[n] = 0
    BY Halves
  <2>2. m - 0 = m /\ n - 0 = n
    OBVIOUS
  <2> QED
    BY <2>1, <2>2
<1>2. ASSUME NEW k \in Nat, k \in T
      PROVE  k + 1 \in T
  <2> SUFFICES ASSUME k + 1 <= m
               PROVE  v \div Power2[m - (k + 1)] = w \div Power2[n - (k + 1)]
    OBVIOUS
  <2>1. /\ m - (k + 1) \in Nat /\ (m - (k + 1)) + 1 = m - k
        /\ n - (k + 1) \in Nat /\ (n - (k + 1)) + 1 = n - k
        /\ k + 1 \in 1 .. m /\ k + 1 \in 1 .. n
    OBVIOUS
  <2>2. (v \div Power2[m - (k + 1)]) % 2 = (w \div Power2[n - (k + 1)]) % 2
    <3>1. Digits(v, m)[k + 1] = (v \div Power2[m - (k + 1)]) % 2
      BY <2>1, DigitsIs
    <3>2. Digits(w, n)[k + 1] = (w \div Power2[n - (k + 1)]) % 2
      BY <2>1, DigitsIs
    <3>3. Digits(v, m)[k + 1] = Digits(w, n)[k + 1]
      BY <2>1
    <3> QED
      BY <3>1, <3>2, <3>3, Zenon
  <2>3. v \div Power2[m - k] = w \div Power2[n - k]
    BY <1>2
  <2>4. v \div Power2[m - (k + 1)] = 2 * (v \div Power2[m - k]) + ((v \div Power2[m - (k + 1)]) % 2)
    BY <2>1, Halves
  <2>5. w \div Power2[n - (k + 1)] = 2 * (w \div Power2[n - k]) + ((w \div Power2[n - (k + 1)]) % 2)
    BY <2>1, Halves
  <2> QED
    BY <2>2, <2>3, <2>4, <2>5, Zenon
<1> HIDE DEF T
<1>3. Nat \subseteq T
  BY <1>1, <1>2, SetInduction
<1>4. v \div Power2[m - m] = w \div Power2[n - m]
  BY <1>3 DEF T
<1>5. m - m = 0 /\ v \div Power2[0] = v
  BY Halves
<1> QED
  BY <1>4, <1>5, Zenon

\* Only the greatest number of n bits has no digit 0.
LEMMA DigitsOnes ==
  ASSUME NEW n \in Nat, NEW v \in Nat, v + 1 < Power2[n]
  PROVE  \E i \in 1 .. n : Digits(v, n)[i] = 0
<1> SUFFICES ASSUME \A i \in 1 .. n : Digits(v, n)[i] # 0
             PROVE  FALSE
  OBVIOUS
<1>0. Power2[n] \in Nat /\ v < Power2[n]
  BY Power2Is
<1> DEFINE T == {k \in Nat : k <= n => (v \div Power2[n - k]) + 1 = Power2[k]}
<1>1. 0 \in T
  <2>1. n - 0 = n /\ v \div Power2[n] = 0 /\ Power2[0] = 1
    BY <1>0, Halves, Power2Is
  <2> QED
    BY <2>1
<1>2. ASSUME NEW k \in Nat, k \in T
      PROVE  k + 1 \in T
  <2> SUFFICES ASSUME k + 1 <= n
               PROVE  (v \div Power2[n - (k + 1)]) + 1 = Power2[k + 1]
    OBVIOUS
  <2>1. n - (k + 1) \in Nat /\ (n - (k + 1)) + 1 = n - k /\ k + 1 \in 1 .. n /\ n - k \in Nat
    OBVIOUS
  <2> DEFINE q == v \div Power2[n - (k + 1)]
             h == v \div Power2[n - k]
  <2>2. q \in Nat /\ h \in Nat /\ q = 2 * h + (q % 2)
    <3>1. q \in Nat /\ h \in Nat
      BY <2>1, Halves
    <3>2. q = 2 * (v \div Power2[(n - (k + 1)) + 1]) + (q % 2)
      BY <2>1, Halves
    <3> QED
      BY <2>1, <3>1, <3>2, Zenon
  <2>3. q % 2 # 0
    BY <2>1, DigitsIs
  <2>4. h + 1 = Power2[k]
    BY <1>2
  <2>5. Power2[k + 1] = 2 * Power2[k]
    BY Power2Is
  <2> HIDE DEF q, h
  <2>6. q + 1 = 2 * (h + 1)
    BY <2>2, <2>3
  <2> QED
    BY <2>4, <2>5, <2>6 DEF q
<1> HIDE DEF T
<1>3. Nat \subseteq T
  BY <1>1, <1>2, SetInduction
<1>4. (v \div Power2[n - n]) + 1 = Power2[n]
  BY <1>3 DEF T
<1>5. n - n = 0 /\ v \div Power2[0] = v
  BY Halves
<1>6. v + 1 = Power2[n]
  BY <1>4, <1>5, Zenon
<1> QED
  BY <1>0, <1>6

-----------------------------------------------------------------------------
(* The codes.                                                              *)

\* The r-th code has a size, a value in it, and a zero among its bits.
LEMMA NewCodeIs ==
  ASSUME NEW r \in 1 .. Cardinality(Symbols)
  PROVE  /\ CodeSize(r) \in 1 .. MaxBits /\ r \in Ranks(CodeSize(r))
         /\ Huffcode(r, CodeSize(r)) \in Nat
         /\ Huffcode(r, CodeSize(r)) + 1 < Power2[CodeSize(r)]
         /\ NewCode(r) = Digits(Huffcode(r, CodeSize(r)), CodeSize(r))
         /\ NewCode(r) \in Codes /\ Len(NewCode(r)) = CodeSize(r)
         /\ DOMAIN NewCode(r) = 1 .. CodeSize(r)
         /\ \E i \in DOMAIN NewCode(r) : NewCode(r)[i] = 0
<1> DEFINE n == CodeSize(r)
           v == Huffcode(r, n)
<1>1. n \in 1 .. MaxBits /\ r \in Ranks(n) /\ n \in Nat
  BY CodeSizeIs
<1>2. NewCode(r) = Digits(v, n)
  BY DEF NewCode, Huffcode
<1> HIDE DEF n
<1>3. v \in Nat /\ v + 1 < Power2[n]
  BY <1>1, HuffcodeFits
<1> HIDE DEF v
<1>4. /\ Digits(v, n) \in Seq(Bit) /\ Len(Digits(v, n)) = n
      /\ DOMAIN Digits(v, n) = 1 .. n
  BY <1>1, <1>3, DigitsIs
<1>5. \E i \in 1 .. n : Digits(v, n)[i] = 0
  BY <1>1, <1>3, DigitsOnes
<1>6. Digits(v, n) \in Codes
  BY <1>1, <1>4, MaxBitsIs DEF Codes, MaxBits
<1> QED
  BY <1>1, <1>2, <1>3, <1>4, <1>5, <1>6 DEF v, n

\* No code begins with one before it.
LEMMA NewCodesApart ==
  ASSUME NEW r \in 1 .. Cardinality(Symbols), NEW s \in 1 .. Cardinality(Symbols), r < s
  PROVE  ~IsPrefix(NewCode(r), NewCode(s)) /\ ~IsPrefix(NewCode(s), NewCode(r))
<1> DEFINE m == CodeSize(r)
           n == CodeSize(s)
           v == Huffcode(r, m)
           w == Huffcode(s, n)
<1>1. /\ m \in 1 .. MaxBits /\ r \in Ranks(m) /\ v \in Nat /\ v + 1 < Power2[m]
      /\ NewCode(r) = Digits(v, m)
      /\ NewCode(r) \in Codes /\ Len(NewCode(r)) = m
  BY NewCodeIs
<1>2. /\ n \in 1 .. MaxBits /\ s \in Ranks(n) /\ w \in Nat /\ w + 1 < Power2[n]
      /\ NewCode(s) = Digits(w, n)
      /\ NewCode(s) \in Codes /\ Len(NewCode(s)) = n
  BY NewCodeIs
<1>3. m <= n /\ Power2[n - m] * (v + 1) <= w
  BY <1>1, <1>2, HuffcodeBehind
<1> HIDE DEF m, n, v, w
<1>4. /\ m \in Nat /\ n \in Nat /\ n - m \in Nat
      /\ Power2[m] \in Nat /\ Power2[n] \in Nat
      /\ v < Power2[m] /\ w < Power2[n]
  <2>1. m \in Nat /\ n \in Nat /\ n - m \in Nat
    BY <1>1, <1>2, <1>3
  <2>2. Power2[m] \in Nat /\ Power2[n] \in Nat
    BY <2>1, Power2Is
  <2> QED
    BY <1>1, <1>2, <2>1, <2>2
<1>5. v # w \div Power2[n - m]
  <2> DEFINE p == Power2[n - m]
             q == w \div p
  <2>1. p \in Nat \ {0}
    BY <1>4, Power2Is
  <2> HIDE DEF p
  <2>2. w = p * q + (w % p) /\ w % p \in 0 .. p - 1 /\ q \in Int
    BY <1>2, <2>1
  <2> HIDE DEF q
  <2>3. p * (v + 1) <= w
    BY <1>3 DEF p
  <2>4. ASSUME v = q PROVE FALSE
    <3>1. p * (v + 1) = p * q + p
      BY <1>1, <2>1, <2>2, <2>4
    <3> QED
      BY <1>2, <2>1, <2>2, <2>3, <3>1
  <2> QED
    BY <2>4 DEF p, q
<1>6. ~(\A i \in 1 .. m : Digits(v, m)[i] = Digits(w, n)[i])
  BY <1>1, <1>2, <1>3, <1>4, <1>5, DigitsTell
<1> DEFINE c == NewCode(r)
           d == NewCode(s)
<1>7. /\ c \in Seq(Bit) /\ d \in Seq(Bit) /\ Len(c) = m /\ Len(d) = n
      /\ ~(\A i \in 1 .. m : c[i] = d[i])
  BY <1>1, <1>2, <1>6 DEF Codes
<1> HIDE DEF c, d
<1>8. ASSUME IsPrefix(c, d) PROVE FALSE
  <2>1. SubSeq(c, 1, m) = SubSeq(d, 1, m)
    BY <1>7, <1>8 DEF IsPrefix
  <2>2. \A i \in 1 .. m : SubSeq(c, 1, m)[i] = c[i] /\ SubSeq(d, 1, m)[i] = d[i]
    BY <1>3, <1>4, <1>7
  <2> QED
    BY <1>7, <2>1, <2>2
<1>9. ASSUME IsPrefix(d, c) PROVE FALSE
  <2>1. n = m
    BY <1>3, <1>4, <1>7, <1>9 DEF IsPrefix
  <2>2. SubSeq(d, 1, n) = SubSeq(c, 1, n)
    BY <1>7, <1>9 DEF IsPrefix
  <2> QED
    BY <1>7, <1>8, <2>1, <2>2 DEF IsPrefix
<1> QED
  BY <1>8, <1>9 DEF c, d

-----------------------------------------------------------------------------
(* Magnitudes.                                                             *)

\* v[i] is the number the first i bits of b stand for.
Numbers(v, b) ==
  /\ v[0] = 0
  /\ \A i \in 1 .. Len(b) : v[i - 1] \in Nat /\ v[i] \in Nat /\ v[i] = 2 * v[i - 1] + b[i]

\* What ValueOf computes on the way.
LEMMA ValueOfIs ==
  ASSUME NEW b \in Seq(Bit), b # <<>>
  PROVE  \E v : /\ Numbers(v, b)
                /\ ValueOf(b) = IF v[Len(b)] < Power2[Len(b) - 1]
                                THEN v[Len(b)] - Power2[Len(b)] + 1 ELSE v[Len(b)]
<1> DEFINE n == Len(b)
           places == 1 .. n
           step == [x \in Nat \X Nat |->
                      IF x[1] + 1 \in places THEN 2 * x[2] + b[x[1] + 1] ELSE 0]
           v == CHOOSE f : f = [i \in 0 .. n |-> IF i = 0 THEN 0 ELSE 2 * f[i - 1] + b[i]]
<1>0. n \in Nat \ {0} /\ 0 \in Nat /\ \A i \in 1 .. n : b[i] \in Nat
  BY DEF Bit
<1> HIDE DEF n
<1>1. step \in Steps(Nat)
  BY <1>0 DEF Steps
<1>2. \A i \in 1 .. n, x \in Nat : step[<<i - 1, x>>] = 2 * x + b[i]
  <2> SUFFICES ASSUME NEW i \in 1 .. n, NEW x \in Nat
               PROVE  step[<<i - 1, x>>] = 2 * x + b[i]
    OBVIOUS
  <2>1. i - 1 \in Nat /\ (i - 1) + 1 = i
    BY <1>0
  <2> QED
    BY <2>1
<1> HIDE DEF step
<1>3. PICK g : Recurses(g, Nat, 0, step)
  BY <1>0, <1>1, Recursion
<1> DEFINE f == [i \in 0 .. n |-> g[i]]
<1>4. ASSUME NEW i \in 0 .. n
      PROVE  f[i] = IF i = 0 THEN 0 ELSE 2 * f[i - 1] + b[i]
  <2>1. CASE i = 0
    BY <1>3, <2>1 DEF Recurses
  <2>2. CASE i # 0
    <3>1. i - 1 \in Nat /\ (i - 1) + 1 = i /\ i - 1 \in 0 .. n /\ i \in 1 .. n
      BY <1>0, <2>2
    <3>2. g[i - 1] \in Nat /\ g[i] = step[<<i - 1, g[i - 1]>>]
      BY <1>3, <3>1 DEF Recurses
    <3>3. g[i] = 2 * g[i - 1] + b[i]
      BY <1>2, <3>1, <3>2
    <3> QED
      BY <2>2, <3>1, <3>3
  <2> QED
    BY <2>1, <2>2
<1>5. f = [i \in 0 .. n |-> IF i = 0 THEN 0 ELSE 2 * f[i - 1] + b[i]]
  BY <1>4
<1> HIDE DEF f
<1>6. v = [i \in 0 .. n |-> IF i = 0 THEN 0 ELSE 2 * v[i - 1] + b[i]]
  BY <1>5
<1>7. ValueOf(b) = IF v[n] < Power2[n - 1] THEN v[n] - Power2[n] + 1 ELSE v[n]
  BY DEF ValueOf, n
<1> HIDE DEF v
<1>8. v[0] = 0 /\ \A i \in 1 .. n : v[i] = 2 * v[i - 1] + b[i]
  BY <1>0, <1>6
<1> DEFINE T == {i \in Nat : i \in 0 .. n => v[i] \in Nat}
<1>9. 0 \in T
  BY <1>8
<1>10. ASSUME NEW i \in Nat, i \in T
       PROVE  i + 1 \in T
  <2> SUFFICES ASSUME i + 1 \in 0 .. n
               PROVE  v[i + 1] \in Nat
    OBVIOUS
  <2>1. i + 1 \in 1 .. n /\ i \in 0 .. n /\ (i + 1) - 1 = i
    BY <1>0
  <2>2. v[i + 1] = 2 * v[(i + 1) - 1] + b[i + 1]
    BY <1>8, <2>1
  <2> QED
    BY <1>0, <1>10, <2>1, <2>2
<1> HIDE DEF T
<1>11. Nat \subseteq T
  BY <1>9, <1>10, SetInduction
<1>12. \A i \in 0 .. n : v[i] \in Nat
  BY <1>0, <1>11 DEF T
<1>13. Numbers(v, b)
  <2>1. \A i \in 1 .. n : i - 1 \in 0 .. n /\ i \in 0 .. n
    BY <1>0
  <2> QED
    BY <1>8, <1>12, <2>1 DEF Numbers, n
<1> QED
  BY <1>7, <1>13 DEF n

\* The number has as many digits as there are bits, unless the first one is 0.
LEMMA NumbersAre ==
  ASSUME NEW b \in Seq(Bit), b # <<>>, NEW v, Numbers(v, b)
  PROVE  /\ v[Len(b)] \in Nat
         /\ v[Len(b)] < Power2[Len(b)]
         /\ b[1] = 0 => v[Len(b)] < Power2[Len(b) - 1]
         /\ b[1] = 1 => Power2[Len(b) - 1] <= v[Len(b)]
<1> DEFINE n == Len(b)
<1>0. n \in Nat \ {0} /\ \A i \in 1 .. n : b[i] \in {0, 1}
  BY DEF Bit
<1>1. /\ v[0] = 0
      /\ \A i \in 1 .. n : v[i - 1] \in Nat /\ v[i] \in Nat /\ v[i] = 2 * v[i - 1] + b[i]
  BY DEF Numbers
<1> HIDE DEF n
<1> DEFINE T == {k \in Nat : k + 1 \in 1 .. n =>
                   /\ v[k + 1] < Power2[k + 1]
                   /\ b[1] = 0 => v[k + 1] < Power2[k]
                   /\ b[1] = 1 => Power2[k] <= v[k + 1]}
<1>2. 0 \in T
  <2>1. v[1] = b[1] /\ b[1] \in {0, 1}
    BY <1>0, <1>1
  <2>2. Power2[0 + 1] = 2 /\ Power2[0] = 1
    BY Power2Is
  <2> QED
    BY <2>1, <2>2
<1>3. ASSUME NEW k \in Nat, k \in T
      PROVE  k + 1 \in T
  <2> SUFFICES ASSUME (k + 1) + 1 \in 1 .. n
               PROVE  /\ v[(k + 1) + 1] < Power2[(k + 1) + 1]
                      /\ b[1] = 0 => v[(k + 1) + 1] < Power2[k + 1]
                      /\ b[1] = 1 => Power2[k + 1] <= v[(k + 1) + 1]
    OBVIOUS
  <2>1. k + 1 \in 1 .. n /\ ((k + 1) + 1) - 1 = k + 1
    BY <1>0
  <2>2. /\ v[k + 1] \in Nat /\ v[(k + 1) + 1] \in Nat /\ b[(k + 1) + 1] \in {0, 1}
        /\ v[(k + 1) + 1] = 2 * v[k + 1] + b[(k + 1) + 1]
    BY <1>0, <1>1, <2>1
  <2>3. /\ Power2[(k + 1) + 1] = 2 * Power2[k + 1] /\ Power2[k + 1] = 2 * Power2[k]
        /\ Power2[k] \in Nat /\ Power2[k + 1] \in Nat /\ Power2[(k + 1) + 1] \in Nat
    <3>1. k + 1 \in Nat /\ (k + 1) + 1 \in Nat
      OBVIOUS
    <3> QED
      BY <3>1, Power2Is
  <2>4. /\ v[k + 1] < Power2[k + 1]
        /\ b[1] = 0 => v[k + 1] < Power2[k]
        /\ b[1] = 1 => Power2[k] <= v[k + 1]
    BY <1>3, <2>1
  <2> DEFINE x == v[k + 1]
             y == v[(k + 1) + 1]
             d == b[(k + 1) + 1]
             o == Power2[k]
             p == Power2[k + 1]
             q == Power2[(k + 1) + 1]
  <2>5. /\ x \in Nat /\ y \in Nat /\ d \in {0, 1} /\ y = 2 * x + d
        /\ q = 2 * p /\ p = 2 * o /\ o \in Nat /\ p \in Nat /\ q \in Nat
        /\ x < p /\ (b[1] = 0 => x < o) /\ (b[1] = 1 => o <= x)
    BY <2>2, <2>3, <2>4
  <2> HIDE DEF x, y, d, o, p, q
  <2>6. y < q /\ (b[1] = 0 => y < p) /\ (b[1] = 1 => p <= y)
    BY <2>5
  <2> QED
    BY <2>6 DEF y, p, q
<1> HIDE DEF T
<1>4. Nat \subseteq T
  BY <1>2, <1>3, SetInduction
<1>5. n - 1 \in T /\ (n - 1) + 1 = n /\ n \in 1 .. n
  BY <1>0, <1>4
<1>6. v[n] \in Nat
  BY <1>1, <1>5
<1> QED
  BY <1>5, <1>6 DEF T, n

\* The digits of a number are the bits it is made of.
LEMMA DigitsOfNumber ==
  ASSUME NEW b \in Seq(Bit), b # <<>>, NEW v, Numbers(v, b)
  PROVE  Digits(v[Len(b)], Len(b)) = b
<1> DEFINE n == Len(b)
           w == v[n]
<1>0. n \in Nat \ {0} /\ b = [i \in 1 .. n |-> b[i]] /\ \A i \in 1 .. n : b[i] \in {0, 1}
  BY DEF Bit
<1>1. /\ v[0] = 0
      /\ \A i \in 1 .. n : v[i - 1] \in Nat /\ v[i] \in Nat /\ v[i] = 2 * v[i - 1] + b[i]
  BY DEF Numbers
<1>2. w \in Nat
  BY NumbersAre
<1> HIDE DEF n
<1>11. w = v[n]
  OBVIOUS
<1> HIDE DEF w
<1> DEFINE T == {k \in Nat : k <= n => w \div Power2[k] = v[n - k]}
<1>3. 0 \in T
  <2>1. w \div Power2[0] = w
    BY <1>2, Halves
  <2>2. n - 0 = n
    BY <1>0
  <2> QED
    BY <1>11, <2>1, <2>2
<1>4. ASSUME NEW k \in Nat, k \in T
      PROVE  k + 1 \in T
  <2> SUFFICES ASSUME k + 1 <= n
               PROVE  w \div Power2[k + 1] = v[n - (k + 1)]
    OBVIOUS
  <2> DEFINE q == w \div Power2[k]
             h == w \div Power2[k + 1]
  <2>1. n - k \in 1 .. n /\ (n - k) - 1 = n - (k + 1)
    BY <1>0
  <2>2. v[n - (k + 1)] \in Nat /\ v[n - k] = 2 * v[n - (k + 1)] + b[n - k] /\ b[n - k] \in {0, 1}
    BY <1>0, <1>1, <2>1
  <2>3. q = v[n - k]
    <3>1. k <= n
      BY <1>0
    <3> QED
      BY <1>4, <3>1, Zenon
  <2>4. q \in Nat /\ h \in Nat /\ q = 2 * h + (q % 2)
    <3>1. k + 1 \in Nat
      OBVIOUS
    <3>2. q \in Nat /\ h \in Nat
      BY <1>2, <3>1, Halves
    <3>3. q = 2 * (w \div Power2[k + 1]) + (q % 2)
      BY <1>2, Halves
    <3> QED
      BY <3>2, <3>3
  <2> HIDE DEF q, h
  <2>5. q % 2 \in {0, 1}
    BY <2>4
  <2>6. h = v[n - (k + 1)]
    BY <2>2, <2>3, <2>4, <2>5
  <2> QED
    BY <2>6 DEF h
<1> HIDE DEF T
<1>5. Nat \subseteq T
  BY <1>3, <1>4, SetInduction
<1>6. ASSUME NEW i \in 1 .. n
      PROVE  (w \div Power2[n - i]) % 2 = b[i]
  <2>1. n - i \in Nat /\ n - i <= n /\ n - (n - i) = i
    BY <1>0
  <2>2. w \div Power2[n - i] = v[i]
    BY <1>5, <2>1 DEF T
  <2>3. v[i - 1] \in Nat /\ v[i] = 2 * v[i - 1] + b[i] /\ b[i] \in {0, 1}
    BY <1>0, <1>1
  <2>4. v[i] % 2 = b[i]
    BY <2>3
  <2> QED
    BY <2>2, <2>4
<1>7. Digits(w, n) = b
  BY <1>0, <1>6 DEF Digits
<1> QED
  BY <1>7 DEF w, n

\* A number has no more digits than it counts.
LEMMA BelowPower2 ==
  \A n \in Nat : n + 1 <= Power2[n]
<1> DEFINE T == {n \in Nat : n + 1 <= Power2[n]}
<1>1. 0 \in T
  BY Power2Is
<1>2. \A n \in Nat : n \in T => n + 1 \in T
  BY Power2Is
<1> HIDE DEF T
<1>3. Nat \subseteq T
  BY <1>1, <1>2, SetInduction
<1> QED
  BY <1>3 DEF T

LEMMA Power2Grows ==
  \A m, n \in Nat : m <= n => Power2[m] <= Power2[n]
<1> SUFFICES ASSUME NEW m \in Nat, NEW n \in Nat, m <= n
             PROVE  Power2[m] <= Power2[n]
  OBVIOUS
<1>1. n - m \in Nat /\ m + (n - m) = n
  OBVIOUS
<1> DEFINE p == Power2[m]
           q == Power2[n - m]
<1>2. p \in Nat \ {0} /\ q \in Nat \ {0} /\ Power2[n] = p * q
  BY <1>1, Power2Is, Power2Sum
<1> HIDE DEF p, q
<1>3. p <= p * q
  BY <1>2
<1> QED
  BY <1>2, <1>3 DEF p

\* A number of n digits has no other digits.
LEMMA BinaryIs ==
  ASSUME NEW n \in Nat \ {0}, NEW w \in Nat, Power2[n - 1] <= w, w < Power2[n]
  PROVE  Binary(w) = Digits(w, n)
<1>1. n - 1 \in Nat /\ Power2[n - 1] \in Nat \ {0} /\ (n - 1) + 1 <= Power2[n - 1]
  BY Power2Is, BelowPower2
<1>2. w # 0 /\ n \in 1 .. w
  BY <1>1
<1>3. ASSUME NEW k \in 1 .. w, Power2[k - 1] <= w, w < Power2[k]
      PROVE  k = n
  <2>1. k \in Nat /\ k - 1 \in Nat /\ Power2[k - 1] \in Nat /\ Power2[k] \in Nat /\ Power2[n] \in Nat
    BY <1>1, <1>2, Power2Is
  <2>2. k <= n - 1 => Power2[k] <= Power2[n - 1]
    BY <1>1, <2>1, Power2Grows
  <2>3. n <= k - 1 => Power2[n] <= Power2[k - 1]
    BY <2>1, Power2Grows
  <2> QED
    BY <1>1, <1>3, <2>1, <2>2, <2>3
<1>4. (CHOOSE k \in 1 .. w : Power2[k - 1] <= w /\ w < Power2[k]) = n
  BY <1>2, <1>3
<1> QED
  BY <1>2, <1>4, Zenon DEF Binary

\* From a magnitude to the number it stands for (src/main.cpp, 1816) and back: tobin
\* and itoa (1660) give the bits of the magnitude, leading zeros included.
THEOREM MagnitudeKept ==
  ASSUME NEW b \in Seq(Bit), b # <<>>
  PROVE  Tobin(ValueOf(b)) = b
<1> DEFINE n == Len(b)
<1>0. n \in Nat \ {0} /\ b = [i \in 1 .. n |-> b[i]] /\ \A i \in 1 .. n : b[i] \in {0, 1}
  BY DEF Bit
<1>1. PICK v : /\ Numbers(v, b)
               /\ ValueOf(b) = IF v[n] < Power2[n - 1] THEN v[n] - Power2[n] + 1 ELSE v[n]
  BY ValueOfIs
<1>2. /\ v[n] \in Nat /\ v[n] < Power2[n]
      /\ b[1] = 0 => v[n] < Power2[n - 1]
      /\ b[1] = 1 => Power2[n - 1] <= v[n]
  BY <1>1, NumbersAre
<1>3. /\ n - 1 \in Nat /\ Power2[n - 1] \in Nat \ {0} /\ Power2[n] \in Nat
      /\ Power2[n] = 2 * Power2[n - 1]
  <2>1. n - 1 \in Nat /\ n \in Nat /\ (n - 1) + 1 = n
    BY <1>0
  <2> QED
    BY <2>1, Power2Is
<1>4. Digits(v[n], n) = b
  BY <1>1, DigitsOfNumber
<1>5. CASE b[1] = 1
  <2>1. ValueOf(b) = v[n] /\ ~(v[n] < 0)
    BY <1>1, <1>2, <1>3, <1>5
  <2>2. Binary(v[n]) = Digits(v[n], n)
    BY <1>0, <1>2, <1>5, BinaryIs
  <2> QED
    BY <1>4, <2>1, <2>2 DEF Tobin
<1>6. CASE b[1] = 0
  <2> DEFINE c == [i \in 1 .. n |-> 1 - b[i]]
             w == [i \in 0 .. n |-> (Power2[i] - 1) - v[i]]
  <2>1. \A i \in 1 .. n : 1 - b[i] \in Bit
    BY <1>0 DEF Bit
  <2>2. c \in [1 .. n -> Bit]
    BY <2>1
  <2>3. c \in Seq(Bit) /\ Len(c) = n /\ c # <<>> /\ c[1] = 1
    BY <1>0, <1>6, <2>2
  <2>4. Numbers(w, c)
    <3>1. w[0] = 0
      <4>1. v[0] = 0 /\ Power2[0] = 1
        BY <1>1, Power2Is DEF Numbers
      <4>2. w[0] = (Power2[0] - 1) - v[0]
        BY <1>0
      <4> HIDE DEF w
      <4> QED
        BY <4>1, <4>2
    <3>2. \A i \in 1 .. n : v[i - 1] \in Nat /\ v[i] \in Nat /\ v[i] = 2 * v[i - 1] + b[i]
      BY <1>1 DEF Numbers
    <3> DEFINE T == {k \in Nat : k \in 0 .. n => w[k] \in Nat}
    <3>3. 0 \in T
      BY <3>1
    <3>4. ASSUME NEW k \in 1 .. n
          PROVE  w[k] \in Int /\ w[k - 1] \in Int /\ w[k] = 2 * w[k - 1] + c[k]
      <4>1. k - 1 \in Nat /\ k \in Nat /\ (k - 1) + 1 = k /\ k - 1 \in 0 .. n /\ k \in 0 .. n
        BY <1>0
      <4>2. Power2[k - 1] \in Nat /\ Power2[k] = 2 * Power2[k - 1]
        BY <4>1, Power2Is
      <4>3. /\ w[k] = (Power2[k] - 1) - v[k] /\ w[k - 1] = (Power2[k - 1] - 1) - v[k - 1]
            /\ c[k] = 1 - b[k]
        BY <4>1
      <4>4. v[k - 1] \in Nat /\ v[k] \in Nat /\ v[k] = 2 * v[k - 1] + b[k] /\ b[k] \in {0, 1}
        BY <1>0, <3>2
      <4> HIDE DEF w, c
      <4> DEFINE x == v[k - 1]
                 y == v[k]
                 o == Power2[k - 1]
                 q == Power2[k]
                 d == b[k]
      <4>5. /\ x \in Nat /\ y \in Nat /\ d \in {0, 1} /\ o \in Nat
            /\ y = 2 * x + d /\ q = 2 * o
            /\ w[k] = (q - 1) - y /\ w[k - 1] = (o - 1) - x /\ c[k] = 1 - d
        BY <4>2, <4>3, <4>4
      <4> HIDE DEF x, y, o, q, d
      <4> QED
        BY <4>5
    <3>5. ASSUME NEW k \in Nat, k \in T
          PROVE  k + 1 \in T
      <4> SUFFICES ASSUME k + 1 \in 0 .. n PROVE w[k + 1] \in Nat
        OBVIOUS
      <4>1. k + 1 \in 1 .. n /\ k \in 0 .. n /\ (k + 1) - 1 = k
        BY <1>0
      <4>2. w[k] \in Nat /\ c[k + 1] \in {0, 1}
        BY <1>0, <1>3, <3>5, <4>1
      <4>3. w[k + 1] = 2 * w[k] + c[k + 1]
        BY <3>4, <4>1
      <4> HIDE DEF w, c
      <4> QED
        BY <4>2, <4>3
    <3> HIDE DEF w, c, T
    <3>6. Nat \subseteq T
      BY <3>3, <3>5, SetInduction
    <3>7. \A k \in 0 .. n : w[k] \in Nat
      BY <1>0, <3>6 DEF T
    <3>8. \A k \in 1 .. n : k - 1 \in 0 .. n /\ k \in 0 .. n
      BY <1>0
    <3> QED
      BY <2>3, <3>1, <3>4, <3>7, <3>8 DEF Numbers
  <2>5. w[n] = (Power2[n] - 1) - v[n]
    BY <1>0
  <2> HIDE DEF w
  <2>6. Power2[n - 1] <= w[n] /\ w[n] < Power2[n] /\ w[n] \in Nat
    BY <2>3, <2>4, NumbersAre
  <2>7. Digits(w[n], n) = c
    BY <2>3, <2>4, DigitsOfNumber
  <2>8. Binary(w[n]) = c
    BY <1>0, <2>6, <2>7, BinaryIs
  <2>9. ValueOf(b) = v[n] - Power2[n] + 1
    BY <1>1, <1>2, <1>6
  <2>10. ValueOf(b) < 0 /\ -ValueOf(b) = w[n]
    BY <1>2, <1>3, <2>5, <2>6, <2>9
  <2>11. Tobin(ValueOf(b)) = [i \in DOMAIN c |-> 1 - c[i]]
    BY <2>8, <2>10, Zenon DEF Tobin
  <2>12. [i \in DOMAIN c |-> 1 - c[i]] = b
    <3>1. DOMAIN c = 1 .. n /\ \A i \in 1 .. n : 1 - c[i] = b[i]
      BY <1>0
    <3> HIDE DEF c
    <3> QED
      BY <1>0, <3>1
  <2> QED
    BY <2>11, <2>12
<1> QED
  <2>1. b[1] \in {0, 1}
    BY <1>0
  <2> QED
    BY <1>5, <1>6, <2>1

\* BubbleSort gives no two symbols of a table one place.
LEMMA RanksApart ==
  ASSUME huff_val \in [Tables -> [Symbols -> Nat]],
         NEW t \in Tables, NEW r \in Found(t), NEW s \in Found(t), r # s
  PROVE  Rank(t, r) # Rank(t, s)
<1> DEFINE before(x) == {y \in Found(t) :
             \/ huff_val[t][y] > huff_val[t][x]
             \/ huff_val[t][y] = huff_val[t][x] /\ y < x}
<1>0. \A x \in Found(t) : x \in Symbols /\ x \in Nat /\ huff_val[t][x] \in Nat
  BY RecoderAssumption DEF Found
<1>1. IsFiniteSet(Found(t))
  BY RecoderAssumption, FS_Subset DEF Found
<1>2. ASSUME NEW x \in Found(t), NEW y \in Found(t), x \in before(y)
      PROVE  Rank(t, x) < Rank(t, y)
  <2>1. before(x) \subseteq before(y)
    <3> SUFFICES ASSUME NEW z \in before(x)
                 PROVE  z \in before(y)
      OBVIOUS
    <3> DEFINE h == huff_val[t]
    <3>1. /\ x \in Nat /\ y \in Nat /\ z \in Nat
          /\ h[x] \in Nat /\ h[y] \in Nat /\ h[z] \in Nat
          /\ h[x] > h[y] \/ (h[x] = h[y] /\ x < y)
          /\ h[z] > h[x] \/ (h[z] = h[x] /\ z < x)
      BY <1>0, <1>2
    <3>2. z \in Found(t)
      OBVIOUS
    <3> HIDE DEF h
    <3>3. h[z] > h[y] \/ (h[z] = h[y] /\ z < y)
      BY <3>1
    <3> QED
      BY <3>2, <3>3 DEF h
  <2>2. ~(x \in before(x))
    <3>1. x \in Nat /\ huff_val[t][x] \in Nat
      BY <1>0
    <3> QED
      BY <3>1
  <2>3. before(y) \subseteq Found(t)
    OBVIOUS
  <2>4. Rank(t, x) = 1 + Cardinality(before(x)) /\ Rank(t, y) = 1 + Cardinality(before(y))
    BY DEF Rank
  <2> HIDE DEF before
  <2>5. IsFiniteSet(before(y))
    BY <1>1, <2>3, FS_Subset
  <2>6. before(x) \subseteq before(y) /\ before(x) # before(y)
    BY <1>2, <2>1, <2>2
  <2>7. /\ Cardinality(before(x)) \in Nat /\ Cardinality(before(y)) \in Nat
        /\ Cardinality(before(x)) < Cardinality(before(y))
    BY <2>5, <2>6, FS_Subset, FS_CardinalityType
  <2> QED
    BY <2>4, <2>7
<1>3. ASSUME NEW x \in Found(t)
      PROVE  Rank(t, x) \in Nat
  BY <1>0, RankInRange
<1>4. r \in before(s) \/ s \in before(r)
  <2> DEFINE h == huff_val[t]
  <2>1. r \in Nat /\ s \in Nat /\ h[r] \in Nat /\ h[s] \in Nat
    BY <1>0
  <2> HIDE DEF h
  <2>2. \/ h[r] > h[s] \/ (h[r] = h[s] /\ r < s)
        \/ h[s] > h[r] \/ (h[s] = h[r] /\ s < r)
    BY <2>1
  <2> QED
    BY <2>2 DEF h
<1> HIDE DEF before
<1>5. Rank(t, r) \in Nat /\ Rank(t, s) \in Nat
  BY <1>3
<1>6. Rank(t, r) < Rank(t, s) \/ Rank(t, s) < Rank(t, r)
  BY <1>2, <1>4
<1> QED
  BY <1>5, <1>6

-----------------------------------------------------------------------------
(* The recoder drives the bit writer.                                      *)

\* What the recoder writes is a code of the tables ...
LEMMA SymbolCoded ==
  ASSUME RecoderTyped, Counted, WriteSymbol
  PROVE  \E c \in Codes : WriteStream(c)
<1> DEFINE t == TableOf(CurrentUnit)
           s == CurrentUnit.symbol
<1>1. /\ phase = "write" /\ s \in DOMAIN code[t] /\ WriteStream(code[t][s])
      /\ mcu <= Len(image[workon].mcus) /\ unit <= Len(image[workon].mcus[mcu])
  BY DEF WriteSymbol, Writing, CurrentMCU
<1>2. CurrentUnit \in Unit
  <2>1. image[workon] \in Images /\ mcu \in Nat \ {0} /\ unit \in Nat \ {0}
    BY DEF RecoderTyped
  <2>2. mcu \in DOMAIN image[workon].mcus
    BY <1>1, <2>1, ImagesTyped
  <2>3. unit \in DOMAIN image[workon].mcus[mcu]
    BY <1>1, <2>1, <2>2, ImagesTyped
  <2> QED
    BY <2>1, <2>2, <2>3, ImagesTyped DEF CurrentUnit, CurrentMCU
<1>3. t \in Tables
  BY <1>2, TablesTyped
<1> HIDE DEF t, s
<1>4. code = [u \in Tables |-> [r \in Found(u) |-> NewCode(Rank(u, r))]]
  BY <1>1 DEF Counted
<1>5. s \in Found(t) /\ code[t][s] = NewCode(Rank(t, s))
  BY <1>1, <1>3, <1>4
<1>6. Rank(t, s) \in 1 .. Cardinality(Symbols)
  BY <1>3, <1>5, RankInRange DEF Found, RecoderTyped
<1>7. NewCode(Rank(t, s)) \in Codes
  BY <1>6, NewCodeIs
<1> QED
  BY <1>1, <1>5, <1>7

\* ... or a magnitude.
LEMMA MagnitudeCoded ==
  ASSUME RecoderTyped, WriteBits
  PROVE  \E c \in Codes : WriteStream(c)
<1>1. /\ image[workon] \in Images /\ mcu \in Nat \ {0} /\ unit \in Nat \ {0}
      /\ mcu <= Len(image[workon].mcus) /\ unit <= Len(image[workon].mcus[mcu])
      /\ image[workon].mcus[mcu][unit].bits # <<>>
      /\ WriteStream(Tobin(ValueOf(image[workon].mcus[mcu][unit].bits)))
  BY DEF WriteBits, RecoderTyped, CurrentUnit, CurrentMCU
<1>2. mcu \in DOMAIN image[workon].mcus
  BY <1>1, ImagesTyped
<1>3. unit \in DOMAIN image[workon].mcus[mcu]
  BY <1>1, <1>2, ImagesTyped
<1> DEFINE b == image[workon].mcus[mcu][unit].bits
<1>4. image[workon].mcus[mcu][unit] \in Unit
  BY <1>1, <1>2, <1>3, ImagesTyped
<1>5. b \in Seq(Bit)
  BY <1>4 DEF Unit
<1>6. Len(b) <= MaxBits
  BY <1>1, <1>2, <1>3, MagnitudesAssumption
<1>7. b \in Codes
  BY <1>5, <1>6 DEF Codes, MaxBits
<1> HIDE DEF b
<1>8. b # <<>> /\ WriteStream(Tobin(ValueOf(b)))
  BY <1>1 DEF b
<1>9. Tobin(ValueOf(b)) = b
  BY <1>5, <1>8, MagnitudeKept
<1>10. WriteStream(b)
  BY <1>8, <1>9
<1> QED
  BY <1>7, <1>10

\* Every step of the recoder is one of the bit writer, or leaves it alone.
LEMMA RecoderDrivesWriter ==
  RecoderTyped /\ Counted /\ [RecoderNext]_recoderVars => [WriterNext]_writerVars
<1> SUFFICES ASSUME RecoderTyped, Counted, [RecoderNext]_recoderVars
             PROVE  WriterNext \/ UNCHANGED writerVars
  OBVIOUS
<1>1. CASE CountMCU \/ CountBeyond \/ EndCount \/ BuildTables
  BY <1>1 DEF CountMCU, CountBeyond, EndCount, BuildTables, writerVars
<1>2. CASE WriteSymbol
  BY <1>2, SymbolCoded DEF WriterNext
<1>3. CASE WriteBits
  BY <1>3, MagnitudeCoded DEF WriterNext
<1>4. CASE EndMCU
  <2>1. WriteRst(seen) \/ UNCHANGED writerVars
    BY <1>4 DEF EndMCU, Restart, NoRestart, writerVars
  <2>2. seen \in 0 .. 7
    BY DEF RecoderTyped
  <2> QED
    BY <2>1, <2>2 DEF WriterNext
<1>5. CASE EndImage \/ NextImage
  BY <1>5 DEF EndImage, NextImage, WriterNext
<1>6. CASE UNCHANGED recoderVars
  BY <1>6 DEF recoderVars, writerVars
<1> QED
  BY <1>1, <1>2, <1>3, <1>4, <1>5, <1>6 DEF RecoderNext

RecoderInv == RecoderTyped /\ Counted /\ Written

LEMMA RecoderInvariant == RecoderSpec => []RecoderInv
<1>1. RecoderInit => RecoderInv
  BY RecoderStart, WriterStart DEF RecoderInit, RecoderInv
<1>2. RecoderInv /\ [RecoderNext]_recoderVars => RecoderInv'
  <2> SUFFICES ASSUME RecoderInv, [RecoderNext]_recoderVars
               PROVE  RecoderInv'
    OBVIOUS
  <2>1. RecoderTyped /\ Counted /\ Written
    BY DEF RecoderInv
  <2>2. RecoderTyped' /\ Counted'
    BY <2>1, TypedStep, CountedStep
  <2>3. Written'
    BY <2>1, RecoderDrivesWriter, WriterStep
  <2> QED
    BY <2>2, <2>3 DEF RecoderInv
<1> QED
  BY <1>1, <1>2, PTL DEF RecoderSpec

-----------------------------------------------------------------------------
(* The theorems.                                                           *)

\* Find_New_code (src/main.cpp, 1724) never gives up: whatever images there are,
\* and whatever the first pass counts beyond their ends, the second pass meets
\* only symbols with a code.
THEOREM SymbolsFound == RecoderSpec => []CodesFound
<1>1. RecoderInv => CodesFound
  <2> SUFFICES ASSUME RecoderInv, phase = "write",
                      NEW f \in 1 .. JPEGFileNum, NEW m \in DOMAIN image[f].mcus,
                      NEW i \in DOMAIN image[f].mcus[m]
               PROVE  SymbolOf(f, m, i) \in DOMAIN code[TableFor(f, m, i)]
    BY DEF CodesFound, SymbolOf, TableFor
  <2>1. image[f] \in Images
    BY DEF RecoderInv, RecoderTyped, Files
  <2>2. image[f].mcus[m][i] \in Unit
    BY <2>1, ImagesTyped
  <2>3. TableFor(f, m, i) \in Tables /\ SymbolOf(f, m, i) \in Symbols
    BY <2>2, TablesTyped DEF TableFor, SymbolOf
  <2>4. huff_val[TableFor(f, m, i)][SymbolOf(f, m, i)] # 0
    BY DEF RecoderInv, Counted, Passed, Files
  <2>5. SymbolOf(f, m, i) \in Found(TableFor(f, m, i))
    BY <2>3, <2>4 DEF Found
  <2>6. code = [t \in Tables |-> [s \in Found(t) |-> NewCode(Rank(t, s))]]
    BY DEF RecoderInv, Counted
  <2> QED
    BY <2>3, <2>5, <2>6
<1> QED
  BY <1>1, RecoderInvariant, PTL

\* cal_new_huffman (src/main.cpp, 1337) hands out codes a decoder can tell apart:
\* no code of a table begins with another one of it, and none is all ones, however
\* often each symbol was met.
THEOREM CodesApart == RecoderSpec => []PrefixFree
<1>1. RecoderInv => PrefixFree
  <2> SUFFICES ASSUME RecoderInv, phase = "write", NEW t \in Tables,
                      NEW s \in DOMAIN code[t]
               PROVE  /\ \E i \in DOMAIN code[t][s] : code[t][s][i] = 0
                      /\ \A r \in DOMAIN code[t] \ {s} : ~IsPrefix(code[t][r], code[t][s])
    BY DEF PrefixFree
  <2>1. huff_val \in [Tables -> [Symbols -> Nat]]
    BY DEF RecoderInv, RecoderTyped
  <2>2. code = [u \in Tables |-> [x \in Found(u) |-> NewCode(Rank(u, x))]]
    BY DEF RecoderInv, Counted
  <2>3. /\ DOMAIN code[t] = Found(t)
        /\ \A x \in Found(t) : code[t][x] = NewCode(Rank(t, x))
    BY <2>2
  <2>4. \A x \in Found(t) : Rank(t, x) \in 1 .. Cardinality(Symbols)
    BY <2>1, RankInRange DEF Found
  <2>5. \E i \in DOMAIN code[t][s] : code[t][s][i] = 0
    <3>1. /\ code[t][s] = NewCode(Rank(t, s))
          /\ Rank(t, s) \in 1 .. Cardinality(Symbols)
      BY <2>3, <2>4
    <3>2. \E i \in DOMAIN NewCode(Rank(t, s)) : NewCode(Rank(t, s))[i] = 0
      BY <3>1, NewCodeIs
    <3> QED
      BY <3>1, <3>2
  <2>6. ASSUME NEW r \in DOMAIN code[t] \ {s}
        PROVE  ~IsPrefix(code[t][r], code[t][s])
    <3> DEFINE x == Rank(t, r)
               y == Rank(t, s)
    <3>1. /\ code[t][r] = NewCode(x) /\ code[t][s] = NewCode(y)
          /\ x \in 1 .. Cardinality(Symbols) /\ y \in 1 .. Cardinality(Symbols)
      BY <2>3, <2>4
    <3>2. x # y
      BY <2>1, <2>3, RanksApart
    <3> HIDE DEF x, y
    <3>3. x < y \/ y < x
      BY <3>1, <3>2, MaxBitsIs
    <3>4. ~IsPrefix(NewCode(x), NewCode(y))
      BY <3>1, <3>3, NewCodesApart
    <3> QED
      BY <3>1, <3>4
  <2> QED
    BY <2>5, <2>6
<1> QED
  BY <1>1, RecoderInvariant, PTL

\* No bit of a code or a magnitude is lost on the way to any recoded file.
THEOREM RecoderKeepsBits == RecoderSpec => []AllBitsKept
<1>1. RecoderInv => AllBitsKept
  BY DEF RecoderInv, Written, AllBitsKept
<1> QED
  BY <1>1, RecoderInvariant, PTL

\* In every recoded file, only the last byte before a restart marker can be a
\* byte of ones that is not stuffed.
THEOREM RecoderStuffs == RecoderSpec => []StuffedElsewhere
<1>1. RecoderInv => StuffedElsewhere
  BY DEF RecoderInv, Written, StuffedElsewhere
<1> QED
  BY <1>1, RecoderInvariant, PTL

\* The recoder implements the bit writer.
THEOREM RecoderIsWriter == RecoderSpec => WriterSpec
<1>1. RecoderInit => WriterInit
  BY DEF RecoderInit
<1>2. RecoderInv /\ [RecoderNext]_recoderVars => [WriterNext]_writerVars
  BY RecoderDrivesWriter DEF RecoderInv
<1> QED
  BY <1>1, <1>2, RecoderInvariant, PTL DEF RecoderSpec, WriterSpec

\* Between the steps of the recoder its files are read back, which changes nothing
\* of it: what is proved of the recoder holds of the runs that read back, too.
THEOREM RereadIsRecoder == RereadSpec => RecoderSpec
<1>1. RereadInit => RecoderInit
  BY DEF RereadInit
<1>2. [RereadNext]_<<recoderVars, decoderVars>> => [RecoderNext]_recoderVars
  <2> SUFFICES ASSUME RereadNext  PROVE  RecoderNext \/ UNCHANGED recoderVars
    BY DEF decoderVars
  <2>1. CASE RecoderNext /\ phase # "flushed" /\ UNCHANGED decoderVars
    BY <2>1
  <2>2. CASE OpenRecoded
    BY <2>2 DEF OpenRecoded
  <2>3. CASE ReadCoefficient
    BY <2>3 DEF ReadCoefficient
  <2>4. CASE NextUnit
    BY <2>4 DEF NextUnit
  <2>5. CASE NextMCU
    BY <2>5 DEF NextMCU
  <2>6. CASE NextImage /\ CloseRecoded
    BY <2>6 DEF RecoderNext
  <2> QED
    BY <2>1, <2>2, <2>3, <2>4, <2>5, <2>6 DEF RereadNext
<1> QED
  BY <1>1, <1>2, PTL DEF RereadSpec, RecoderSpec

-----------------------------------------------------------------------------
(* The tables read back: what build_huffman_table makes of a DHT segment. *)

\* The ranks of the symbols of a table are the numbers up to how many there are.
LEMMA RanksAre ==
  ASSUME huff_val \in [Tables -> [Symbols -> Nat]], NEW t \in Tables
  PROVE  /\ IsFiniteSet(Found(t)) /\ Cardinality(Found(t)) \in Nat
         /\ Cardinality(Found(t)) <= Cardinality(Symbols)
         /\ \A s \in Found(t) : Rank(t, s) \in 1 .. Cardinality(Found(t))
         /\ \A r \in 1 .. Cardinality(Found(t)) : \E s \in Found(t) : Rank(t, s) = r
<1> DEFINE K == Cardinality(Found(t))
<1>1. IsFiniteSet(Found(t)) /\ K \in Nat /\ K <= Cardinality(Symbols)
  BY RecoderAssumption, FS_Subset, FS_CardinalityType DEF Found
<1>2. ASSUME NEW s \in Found(t)
      PROVE  Rank(t, s) \in 1 .. K
  <2> DEFINE before == {r \in Found(t) :
               \/ huff_val[t][r] > huff_val[t][s]
               \/ huff_val[t][r] = huff_val[t][s] /\ r < s}
  <2>1. ~(huff_val[t][s] > huff_val[t][s]) /\ ~(s < s)
    <3>1. huff_val[t][s] \in Nat /\ s \in Nat
      BY RecoderAssumption DEF Found
    <3> QED
      BY <3>1
  <2>2. before \subseteq Found(t) \ {s}
    BY <2>1
  <2>3. Rank(t, s) = 1 + Cardinality(before)
    BY DEF Rank
  <2> HIDE DEF before
  <2>4. /\ IsFiniteSet(Found(t) \ {s})
        /\ Cardinality(Found(t) \ {s}) = K - 1
    BY <1>1, FS_RemoveElement
  <2>5. Cardinality(before) <= K - 1 /\ Cardinality(before) \in Nat
    BY <2>2, <2>4, FS_Subset, FS_CardinalityType
  <2> QED
    BY <1>1, <2>3, <2>5
<1> DEFINE f == [s \in Found(t) |-> Rank(t, s)]
<1>3. f \in Injection(Found(t), 1 .. K)
  <2>1. f \in [Found(t) -> 1 .. K]
    BY <1>2
  <2>2. \A r, s \in Found(t) : f[r] = f[s] => r = s
    BY RanksApart
  <2> HIDE DEF f
  <2> QED
    BY <2>1, <2>2, Fun_IsInj
<1>4. IsFiniteSet(1 .. K) /\ Cardinality(1 .. K) = K
  BY <1>1, FS_Interval
<1>5. f \in Surjection(Found(t), 1 .. K)
  <2> HIDE DEF f
  <2> QED
    BY <1>3, <1>4, FS_Injection
<1>6. \A r \in 1 .. K : \E s \in Found(t) : Rank(t, s) = r
  <2>1. \A r \in 1 .. K : \E s \in Found(t) : f[s] = r
    <3> HIDE DEF f
    <3> QED
      BY <1>5, Zenon DEF Surjection
  <2> QED
    BY <2>1
<1> QED
  BY <1>1, <1>2, <1>6

-----------------------------------------------------------------------------
(* The tables read back.                                                   *)

\* How many of K symbols have codes of up to m bits.
UpTo(K, m) == IF K <= Shorter[m + 1] THEN K ELSE Shorter[m + 1]

LEMMA UpToIs ==
  ASSUME NEW K \in 0 .. Cardinality(Symbols)
  PROVE  /\ \A m \in 0 .. MaxBits : UpTo(K, m) \in 0 .. K
         /\ UpTo(K, 0) = 0 /\ UpTo(K, MaxBits) = K
         /\ \A n \in 1 .. MaxBits :
              /\ UpTo(K, n - 1) <= UpTo(K, n)
              /\ \A r \in 1 .. K : r \in UpTo(K, n - 1) + 1 .. UpTo(K, n) <=> r \in Ranks(n)
<1>0. MaxBits \in Nat \ {0} /\ Cardinality(Symbols) \in Nat /\ K \in Nat
  BY MaxBitsIs
<1>1. \A m \in 0 .. MaxBits : m + 1 \in 1 .. MaxBits + 1 /\ Shorter[m + 1] \in Nat
  BY <1>0, ShorterIs
<1>2. \A m \in 0 .. MaxBits : UpTo(K, m) \in 0 .. K
  BY <1>0, <1>1 DEF UpTo
<1>3. UpTo(K, 0) = 0
  <2>1. Shorter[0 + 1] = 0
    BY ShorterIs
  <2> QED
    BY <1>0, <2>1 DEF UpTo
<1>4. UpTo(K, MaxBits) = K
  <2>1. PICK n \in 1 .. MaxBits : Cardinality(Symbols) \in Shorter[n] + 1 .. Shorter[n + 1]
    BY CodesAssumption
  <2>2. n + 1 \in 1 .. MaxBits + 1 /\ MaxBits + 1 \in 1 .. MaxBits + 1 /\ n + 1 <= MaxBits + 1
    BY <1>0
  <2>3. Shorter[n + 1] <= Shorter[MaxBits + 1] /\ Shorter[n + 1] \in Nat /\ Shorter[MaxBits + 1] \in Nat
    BY <2>2, ShorterGrows, ShorterIs
  <2> QED
    BY <1>0, <2>1, <2>3 DEF UpTo
<1>5. ASSUME NEW n \in 1 .. MaxBits
      PROVE  /\ UpTo(K, n - 1) <= UpTo(K, n)
             /\ \A r \in 1 .. K : r \in UpTo(K, n - 1) + 1 .. UpTo(K, n) <=> r \in Ranks(n)
  <2>1. n \in 1 .. MaxBits + 1 /\ n + 1 \in 1 .. MaxBits + 1 /\ n <= n + 1 /\ (n - 1) + 1 = n
    BY <1>0
  <2>2. Shorter[n] \in Nat /\ Shorter[n + 1] \in Nat /\ Shorter[n] <= Shorter[n + 1]
    BY <2>1, ShorterGrows, ShorterIs
  <2>3. UpTo(K, n - 1) = IF K <= Shorter[n] THEN K ELSE Shorter[n]
    BY <2>1, Zenon DEF UpTo
  <2>4. UpTo(K, n) = IF K <= Shorter[n + 1] THEN K ELSE Shorter[n + 1]
    BY Zenon DEF UpTo
  <2> QED
    BY <1>0, <2>2, <2>3, <2>4 DEF Ranks
<1> QED
  BY <1>2, <1>3, <1>4, <1>5

\* Write_Huffman_Table counts the codes of each length.
LEMMA LengthsCounted ==
  ASSUME huff_val \in [Tables -> [Symbols -> Nat]], NEW t \in Tables,
         code = [u \in Tables |-> [s \in Found(u) |-> NewCode(Rank(u, s))]],
         NEW n \in 1 .. MaxBits
  PROVE  LET K == Cardinality(Found(t))
         IN  Dht(t).bits[n] = UpTo(K, n) - UpTo(K, n - 1)
<1> DEFINE K == Cardinality(Found(t))
           A == {s \in DOMAIN code[t] : Len(code[t][s]) = n}
           I == UpTo(K, n - 1) + 1 .. UpTo(K, n)
           f == [s \in A |-> Rank(t, s)]
<1>0. MaxBits \in Nat \ {0} /\ Cardinality(Symbols) \in Nat
  BY MaxBitsIs
<1>1. /\ IsFiniteSet(Found(t)) /\ K \in 0 .. Cardinality(Symbols) /\ K \in Nat
      /\ \A s \in Found(t) : Rank(t, s) \in 1 .. K
      /\ \A r \in 1 .. K : \E s \in Found(t) : Rank(t, s) = r
  BY <1>0, RanksAre
<1>2. \A s \in Found(t) : Rank(t, s) \in 1 .. Cardinality(Symbols)
  BY <1>0, <1>1
<1>3. /\ UpTo(K, n - 1) \in 0 .. K /\ UpTo(K, n) \in 0 .. K
      /\ UpTo(K, n - 1) <= UpTo(K, n)
      /\ \A r \in 1 .. K : r \in I <=> r \in Ranks(n)
  <2>1. n - 1 \in 0 .. MaxBits /\ n \in 0 .. MaxBits
    BY <1>0
  <2> HIDE DEF K
  <2> QED
    BY <1>1, <2>1, UpToIs
<1>4. ASSUME NEW s \in Found(t)
      PROVE  s \in A <=> Rank(t, s) \in I
  <2> DEFINE r == Rank(t, s)
  <2>1. r \in 1 .. Cardinality(Symbols) /\ r \in 1 .. K /\ code[t][s] = NewCode(r)
    BY <1>1, <1>2
  <2>2. DOMAIN code[t] = Found(t)
    OBVIOUS
  <2> HIDE DEF r, K
  <2>3. Len(code[t][s]) = CodeSize(r) /\ CodeSize(r) \in 1 .. MaxBits /\ r \in Ranks(CodeSize(r))
    BY <2>1, NewCodeIs
  <2>4. r \in Ranks(n) <=> CodeSize(r) = n
    <3>1. ASSUME r \in Ranks(n)
          PROVE  CodeSize(r) = n
      <4>1. r \in Nat /\ r <= r
        BY <1>0, <2>1
      <4>2. CodeSize(r) <= n /\ n <= CodeSize(r)
        BY <2>3, <3>1, <4>1, CodeSizeIs
      <4> QED
        BY <1>0, <2>3, <4>2
    <3> QED
      BY <2>3, <3>1
  <2>5. s \in A <=> CodeSize(r) = n
    BY <2>2, <2>3
  <2> QED
    BY <1>3, <2>1, <2>4, <2>5 DEF r
<1>5. A \subseteq Found(t) /\ \A r \in I : r \in 1 .. K
  BY <1>1, <1>3
<1>6. f \in Injection(A, I)
  <2>1. f \in [A -> I]
    BY <1>4, <1>5
  <2>2. \A r, s \in A : f[r] = f[s] => r = s
    BY <1>5, RanksApart
  <2> HIDE DEF f, A, I
  <2> QED
    BY <2>1, <2>2, Fun_IsInj
<1>7. f \in Surjection(A, I)
  <2>1. f \in [A -> I]
    BY <1>4, <1>5
  <2>2. \A r \in I : \E s \in A : f[s] = r
    <3> SUFFICES ASSUME NEW r \in I
                 PROVE  \E s \in A : f[s] = r
      OBVIOUS
    <3>1. PICK s \in Found(t) : Rank(t, s) = r
      BY <1>1, <1>5
    <3>2. s \in A
      BY <1>4, <3>1
    <3> QED
      BY <3>1, <3>2
  <2> HIDE DEF f, A, I
  <2> QED
    BY <2>1, <2>2, Fun_IsSurj
<1>8. IsFiniteSet(A)
  BY <1>1, <1>5, FS_Subset
<1>9. Cardinality(I) = Cardinality(A)
  <2>1. IsFiniteSet(I)
    BY <1>1, <1>3, FS_Interval
  <2> HIDE DEF f, A, I
  <2> QED
    BY <1>6, <1>7, <2>1, FS_Injection
<1>10. Cardinality(I) = UpTo(K, n) - UpTo(K, n - 1)
  <2> DEFINE a == UpTo(K, n - 1) + 1
             b == UpTo(K, n)
  <2>1. a \in Int /\ b \in Int /\ a <= b + 1
    BY <1>1, <1>3
  <2>2. Cardinality(a .. b) = IF a > b THEN 0 ELSE b - a + 1
    <3> HIDE DEF a, b
    <3> QED
      BY <2>1, FS_Interval
  <2> DEFINE x == UpTo(K, n - 1)
  <2>3. x \in Int /\ x <= b /\ a = x + 1
    BY <1>1, <1>3
  <2> HIDE DEF a, b, x
  <2>4. (IF a > b THEN 0 ELSE b - a + 1) = b - x
    BY <2>1, <2>3
  <2> QED
    BY <2>2, <2>4 DEF a, b, x
<1>11. Dht(t).bits[n] = Cardinality(A)
  BY DEF Dht
<1> QED
  BY <1>9, <1>10, <1>11

\* build_huffman_table: huffsize holds, place by place, the sizes of the codes.
LEMMA SizesAre ==
  ASSUME NEW K \in 0 .. Cardinality(Symbols), NEW bits,
         \A n \in 1 .. MaxBits : bits[n] = UpTo(K, n) - UpTo(K, n - 1)
  PROVE  LET size == FlattenSeq([n \in 1 .. MaxBits |-> [k \in 1 .. bits[n] |-> n]])
         IN  /\ size \in Seq(Nat) /\ Len(size) = K
             /\ \A r \in 1 .. K : size[r] \in 1 .. MaxBits /\ r \in Ranks(size[r])
<1> DEFINE block(n) == [k \in 1 .. bits[n] |-> n]
           pre(m) == [n \in 1 .. m |-> block(n)]
           F(m) == FlattenSeq(pre(m))
<1>0. MaxBits \in Nat \ {0} /\ Cardinality(Symbols) \in Nat /\ K \in Nat
  BY MaxBitsIs
<1>1. ASSUME NEW n \in 1 .. MaxBits
      PROVE  /\ UpTo(K, n) \in 0 .. K /\ UpTo(K, n - 1) \in 0 .. K
             /\ bits[n] \in Nat /\ UpTo(K, n) = UpTo(K, n - 1) + bits[n]
             /\ block(n) \in Seq(Nat) /\ Len(block(n)) = bits[n]
             /\ \A k \in 1 .. bits[n] : block(n)[k] = n
  <2>1. n - 1 \in 0 .. MaxBits /\ n \in 0 .. MaxBits /\ n \in Nat
    BY <1>0
  <2>2. UpTo(K, n) \in 0 .. K /\ UpTo(K, n - 1) \in 0 .. K /\ UpTo(K, n - 1) <= UpTo(K, n)
    BY <2>1, UpToIs
  <2>3. bits[n] \in Nat /\ UpTo(K, n) = UpTo(K, n - 1) + bits[n]
    BY <1>0, <2>2
  <2>4. block(n) \in [1 .. bits[n] -> Nat]
    BY <2>1
  <2> QED
    BY <2>2, <2>3, <2>4
<1> HIDE DEF block
<1>2. ASSUME NEW m \in 0 .. MaxBits
      PROVE  pre(m) \in Seq(Seq(Nat)) /\ Len(pre(m)) = m
  <2>1. \A n \in 1 .. m : block(n) \in Seq(Nat)
    BY <1>0, <1>1
  <2>2. pre(m) \in [1 .. m -> Seq(Nat)] /\ m \in Nat
    BY <1>0, <2>1
  <2> HIDE DEF pre
  <2> QED
    BY <2>2
<1>3. pre(0) = <<>>
  BY DEF pre
<1>4. ASSUME NEW m \in Nat, m + 1 \in 1 .. MaxBits
      PROVE  pre(m + 1) = Append(pre(m), block(m + 1))
  <2>1. m \in 0 .. MaxBits /\ m + 1 \in 0 .. MaxBits
    BY <1>0, <1>4
  <2>2. /\ pre(m) \in Seq(Seq(Nat)) /\ Len(pre(m)) = m
        /\ pre(m + 1) \in Seq(Seq(Nat)) /\ Len(pre(m + 1)) = m + 1
        /\ block(m + 1) \in Seq(Nat)
    BY <1>1, <1>2, <1>4, <2>1
  <2>3. /\ Append(pre(m), block(m + 1)) \in Seq(Seq(Nat))
        /\ Len(Append(pre(m), block(m + 1))) = m + 1
        /\ Append(pre(m), block(m + 1))[m + 1] = block(m + 1)
        /\ \A n \in 1 .. m : Append(pre(m), block(m + 1))[n] = pre(m)[n]
    <3> HIDE DEF pre
    <3> QED
      BY <2>2, AppendProperties
  <2>4. \A n \in 1 .. m + 1 : pre(m + 1)[n] = Append(pre(m), block(m + 1))[n]
    <3>1. \A n \in 1 .. m + 1 : pre(m + 1)[n] = block(n)
      OBVIOUS
    <3>2. \A n \in 1 .. m : pre(m)[n] = block(n)
      OBVIOUS
    <3> HIDE DEF pre
    <3>3. \A n \in 1 .. m + 1 : n = m + 1 \/ n \in 1 .. m
      BY <1>4
    <3> QED
      BY <2>3, <3>1, <3>2, <3>3
  <2> HIDE DEF pre
  <2> DEFINE p == pre(m + 1)
             q == Append(pre(m), block(m + 1))
  <2>5. p \in Seq(Seq(Nat)) /\ q \in Seq(Seq(Nat)) /\ Len(p) = Len(q)
        /\ \A n \in 1 .. Len(p) : p[n] = q[n]
    BY <2>2, <2>3, <2>4
  <2> HIDE DEF p, q
  <2>6. p = q
    BY <2>5, SeqEqual
  <2> QED
    BY <2>6 DEF p, q
<1> HIDE DEF pre
<1> DEFINE T == {m \in Nat : m <= MaxBits =>
             /\ F(m) \in Seq(Nat) /\ Len(F(m)) = UpTo(K, m)
             /\ \A r \in 1 .. UpTo(K, m) : F(m)[r] \in 1 .. MaxBits /\ r \in Ranks(F(m)[r])}
<1>5. 0 \in T
  <2>1. FlattenSeq(<<>>) = <<>>
    BY DEF FlattenSeq
  <2>2. F(0) = <<>>
    BY <1>3, <2>1
  <2>3. UpTo(K, 0) = 0
    BY UpToIs
  <2>4. F(0) \in Seq(Nat) /\ Len(F(0)) = UpTo(K, 0)
    <3>1. <<>> \in Seq(Nat) /\ Len(<<>>) = 0
      OBVIOUS
    <3> HIDE DEF F
    <3> QED
      BY <2>2, <2>3, <3>1, Zenon
  <2>5. \A r \in 1 .. UpTo(K, 0) : FALSE
    BY <2>3
  <2> HIDE DEF F
  <2> QED
    BY <2>4, <2>5, Zenon
<1>6. ASSUME NEW m \in Nat, m \in T
      PROVE  m + 1 \in T
  <2> SUFFICES ASSUME m + 1 <= MaxBits
               PROVE  /\ F(m + 1) \in Seq(Nat) /\ Len(F(m + 1)) = UpTo(K, m + 1)
                      /\ \A r \in 1 .. UpTo(K, m + 1) :
                           F(m + 1)[r] \in 1 .. MaxBits /\ r \in Ranks(F(m + 1)[r])
    OBVIOUS
  <2>1. m + 1 \in 1 .. MaxBits /\ m \in 0 .. MaxBits /\ (m + 1) - 1 = m
    BY <1>0
  <2> DEFINE c == block(m + 1)
  <2>2. F(m + 1) = F(m) \o c
    <3>1. pre(m) \in Seq(Seq(Nat)) /\ c \in Seq(Nat)
      BY <1>1, <1>2, <2>1
    <3>2. FlattenSeq(Append(pre(m), c)) = FlattenSeq(pre(m)) \o c
      <4> HIDE DEF c
      <4> QED
        BY <3>1, FlattenAppend
    <3> QED
      BY <1>4, <2>1, <3>2
  <2>3. /\ UpTo(K, m + 1) \in 0 .. K /\ UpTo(K, m) \in 0 .. K
        /\ UpTo(K, m + 1) = UpTo(K, m) + Len(c)
        /\ c \in Seq(Nat) /\ Len(c) \in Nat /\ \A k \in 1 .. Len(c) : c[k] = m + 1
    BY <1>1, <2>1
  <2>4. /\ F(m) \in Seq(Nat) /\ Len(F(m)) = UpTo(K, m)
        /\ \A r \in 1 .. UpTo(K, m) : F(m)[r] \in 1 .. MaxBits /\ r \in Ranks(F(m)[r])
    BY <1>6, <2>1
  <2> DEFINE a == F(m)
             b == F(m + 1)
             u == UpTo(K, m)
             w == UpTo(K, m + 1)
  <2>5. /\ a \in Seq(Nat) /\ Len(a) = u /\ c \in Seq(Nat) /\ Len(c) \in Nat /\ b = a \o c
        /\ u \in 0 .. K /\ w \in 0 .. K /\ w = u + Len(c)
    BY <2>2, <2>3, <2>4
  <2> HIDE DEF a, b, c, F, u, w
  <2>6. b \in Seq(Nat) /\ Len(b) = w
    BY <2>5, ConcatProperties
  <2>7. ASSUME NEW r \in 1 .. w
        PROVE  b[r] \in 1 .. MaxBits /\ r \in Ranks(b[r])
    <3>1. CASE r <= u
      <4>1. r \in 1 .. u /\ b[r] = a[r]
        BY <1>0, <2>5, <3>1, ConcatProperties
      <4> QED
        BY <2>4, <4>1 DEF a, u
    <3>2. CASE ~(r <= u)
      <4>1. r - u \in 1 .. Len(c) /\ b[r] = c[r - u]
        BY <1>0, <2>5, <3>2, ConcatProperties
      <4>2. b[r] = m + 1
        BY <2>3, <4>1
      <4>3. r \in u + 1 .. w /\ r \in 1 .. K
        BY <1>0, <2>5, <3>2
      <4>4. r \in UpTo(K, (m + 1) - 1) + 1 .. UpTo(K, m + 1)
        BY <2>1, <4>3 DEF u, w
      <4>5. r \in Ranks(m + 1)
        BY <2>1, <4>3, <4>4, UpToIs
      <4> QED
        BY <2>1, <4>2, <4>5
    <3> QED
      BY <3>1, <3>2
  <2> QED
    BY <2>6, <2>7 DEF b, w
<1> HIDE DEF T
<1>7. Nat \subseteq T
  BY <1>5, <1>6, SetInduction
<1>8. /\ F(MaxBits) \in Seq(Nat) /\ Len(F(MaxBits)) = UpTo(K, MaxBits)
      /\ \A r \in 1 .. UpTo(K, MaxBits) :
           F(MaxBits)[r] \in 1 .. MaxBits /\ r \in Ranks(F(MaxBits)[r])
  <2>1. MaxBits \in T /\ MaxBits <= MaxBits
    BY <1>0, <1>7
  <2> QED
    BY <2>1 DEF T
<1>9. UpTo(K, MaxBits) = K
  BY UpToIs
<1>10. F(MaxBits) = FlattenSeq([n \in 1 .. MaxBits |-> [k \in 1 .. bits[n] |-> n]])
  BY DEF F, pre, block
<1> HIDE DEF F
<1> QED
  BY <1>8, <1>9, <1>10

\* Where lengths without codes are passed, huffcode is only doubled.
LEMMA FirstCodeNext ==
  ASSUME NEW m \in 1 .. MaxBits, NEW n \in 1 .. MaxBits, m < n, Shorter[m + 1] = Shorter[n]
  PROVE  FirstCode(n) = Power2[n - m] * (FirstCode(m) + OneSizeMax[m])
<1>0. MaxBits \in Nat \ {0} /\ \A k \in 1 .. MaxBits : OneSizeMax[k] \in Nat
  BY MaxBitsIs, RecoderAssumption
<1> DEFINE x == FirstCode(m) + OneSizeMax[m]
           T == {d \in Nat : m + (d + 1) \in 1 .. n =>
                               FirstCode(m + (d + 1)) = Power2[d + 1] * x}
<1>1. x \in Nat
  BY <1>0, FirstCodeIs
<1>2. 0 \in T
  <2> SUFFICES ASSUME m + (0 + 1) \in 1 .. n
               PROVE  FirstCode(m + (0 + 1)) = Power2[0 + 1] * x
    OBVIOUS
  <2>1. m \in 1 .. MaxBits - 1 /\ m + (0 + 1) = m + 1
    BY <1>0
  <2>2. Power2[0 + 1] = 2
    BY Power2Is
  <2>3. FirstCode(m + 1) = 2 * x
    BY <2>1, FirstCodeIs
  <2> QED
    BY <2>1, <2>2, <2>3
<1> HIDE DEF x
<1>3. ASSUME NEW d \in Nat, d \in T
      PROVE  d + 1 \in T
  <2> SUFFICES ASSUME m + ((d + 1) + 1) \in 1 .. n
               PROVE  FirstCode(m + ((d + 1) + 1)) = Power2[(d + 1) + 1] * x
    OBVIOUS
  <2> DEFINE k == m + (d + 1)
  <2>1. /\ k \in 1 .. n /\ k \in 1 .. MaxBits - 1 /\ k \in 1 .. MaxBits
        /\ m + ((d + 1) + 1) = k + 1 /\ d + 1 \in Nat
        /\ {m + 1, k, k + 1, n} \subseteq 1 .. MaxBits + 1
        /\ m + 1 <= k /\ k + 1 <= n
    BY <1>0
  <2>2. OneSizeMax[k] = 0
    <3>1. /\ Shorter[m + 1] <= Shorter[k] /\ Shorter[k + 1] <= Shorter[n]
          /\ Shorter[m + 1] \in Nat /\ Shorter[k] \in Nat /\ Shorter[k + 1] \in Nat
          /\ Shorter[n] \in Nat
      <4> HIDE DEF k
      <4> QED
        BY <2>1, ShorterGrows, ShorterIs
    <3>2. Shorter[k + 1] = Shorter[k] + OneSizeMax[k] /\ OneSizeMax[k] \in Nat
      BY <1>0, <2>1, ShorterIs
    <3> HIDE DEF k
    <3> QED
      BY <3>1, <3>2
  <2>3. FirstCode(k) = Power2[d + 1] * x
    BY <1>3, <2>1
  <2>4. FirstCode(k + 1) = 2 * (FirstCode(k) + OneSizeMax[k]) /\ FirstCode(k) \in Nat
    <3> HIDE DEF k
    <3> QED
      BY <2>1, FirstCodeIs
  <2> DEFINE p == Power2[d + 1]
  <2>5. p \in Nat /\ Power2[(d + 1) + 1] = 2 * p
    BY <2>1, Power2Is
  <2> HIDE DEF p
  <2>6. FirstCode(k + 1) = 2 * (p * x)
    BY <2>2, <2>3, <2>4 DEF p
  <2>7. 2 * (p * x) = (2 * p) * x
    BY <1>1, <2>5
  <2> QED
    BY <2>1, <2>5, <2>6, <2>7
<1> HIDE DEF T
<1>4. Nat \subseteq T
  BY <1>2, <1>3, SetInduction
<1>5. (n - m) - 1 \in T /\ ((n - m) - 1) + 1 = n - m /\ m + (n - m) = n /\ n \in 1 .. n
  BY <1>0, <1>4
<1> QED
  BY <1>5 DEF T, x

\* The code behind one of m bits, if it has n bits.
LEMMA HuffcodeNext ==
  /\ 1 \in Ranks(1) /\ Huffcode(1, 1) = 0
  /\ \A m, n \in 1 .. MaxBits, r \in Nat : r \in Ranks(m) /\ r + 1 \in Ranks(n) =>
       m <= n /\ Huffcode(r + 1, n) = (Huffcode(r, m) + 1) * Power2[n - m]
<1>0. MaxBits \in Nat \ {0} /\ \A k \in 1 .. MaxBits : OneSizeMax[k] \in Nat
  BY MaxBitsIs, RecoderAssumption
<1>1. 1 \in Ranks(1) /\ Huffcode(1, 1) = 0
  <2>1. Shorter[1] = 0 /\ Shorter[1 + 1] = Shorter[1] + OneSizeMax[1] /\ OneSizeMax[1] = 1
    BY <1>0, ShorterIs, RecoderAssumption
  <2> QED
    BY <2>1, FirstCodeIs DEF Ranks, Huffcode
<1>2. ASSUME NEW m \in 1 .. MaxBits, NEW n \in 1 .. MaxBits, NEW r \in Nat,
             r \in Ranks(m), r + 1 \in Ranks(n)
      PROVE  m <= n /\ Huffcode(r + 1, n) = (Huffcode(r, m) + 1) * Power2[n - m]
  <2>1. m <= n
    <3>1. r <= r + 1 /\ r + 1 \in Nat
      OBVIOUS
    <3> QED
      BY <1>2, <3>1, CodeSizeIs
  <2>2. /\ Shorter[m] \in Nat /\ Shorter[n] \in Nat /\ Shorter[m + 1] \in Nat
        /\ OneSizeMax[m] \in Nat /\ Shorter[m + 1] = Shorter[m] + OneSizeMax[m]
        /\ FirstCode(m) \in Nat /\ FirstCode(n) \in Nat
    <3>1. {m, n, m + 1} \subseteq 1 .. MaxBits + 1
      BY <1>0
    <3> QED
      BY <1>0, <3>1, FirstCodeIs, ShorterIs
  <2>3. Huffcode(r, m) + 1 = FirstCode(m) + r - Shorter[m]
    BY <2>2 DEF Huffcode
  <2>4. Huffcode(r + 1, n) = FirstCode(n) + r - Shorter[n]
    BY <2>2 DEF Huffcode
  <2>5. CASE m = n
    <3>1. Power2[n - m] = 1
      BY <1>0, <2>5, Power2Is
    <3> QED
      BY <2>1, <2>2, <2>3, <2>4, <2>5, <3>1
  <2>6. CASE m < n
    <3>1. Shorter[m + 1] <= Shorter[n]
      <4>1. m + 1 <= n /\ m + 1 \in 1 .. MaxBits + 1 /\ n \in 1 .. MaxBits + 1
        BY <1>0, <2>6
      <4> QED
        BY <4>1, ShorterGrows
    <3>2. Shorter[m + 1] = Shorter[n] /\ r = Shorter[n]
      BY <1>2, <2>2, <3>1 DEF Ranks
    <3>3. FirstCode(n) = Power2[n - m] * (FirstCode(m) + OneSizeMax[m])
      BY <2>6, <3>2, FirstCodeNext
    <3> DEFINE x == FirstCode(m) + OneSizeMax[m]
               p == Power2[n - m]
    <3>4. x \in Nat /\ Huffcode(r, m) + 1 = x /\ Huffcode(r + 1, n) = FirstCode(n)
      BY <2>2, <2>3, <2>4, <3>2
    <3>5. p \in Nat
      <4>1. n - m \in Nat
        BY <1>0, <2>1
      <4> QED
        BY <4>1, Power2Is
    <3>6. p * x = x * p
      <4> HIDE DEF x, p
      <4> QED
        BY <3>4, <3>5
    <3> QED
      BY <2>1, <3>3, <3>4, <3>6
  <2> QED
    BY <1>0, <2>1, <2>5, <2>6
<1> QED
  BY <1>1, <1>2

\* build_huffman_table: huffcode holds, place by place, the values of the codes.
LEMMA HuffcodesAre ==
  ASSUME NEW size \in Seq(Nat),
         \A r \in 1 .. Len(size) : size[r] \in 1 .. MaxBits /\ r \in Ranks(size[r])
  PROVE  LET huffcode[i \in 1 .. Len(size)] ==
               IF i = 1 THEN 0 ELSE (huffcode[i - 1] + 1) * Power2[size[i] - size[i - 1]]
         IN  \A r \in 1 .. Len(size) : huffcode[r] = Huffcode(r, size[r])
<1> DEFINE K == Len(size)
           places == 1 .. K
           step == [x \in Nat \X Int |->
                      IF x[1] \in places /\ x[1] + 1 \in places
                      THEN (x[2] + 1) * Power2[size[x[1] + 1] - size[x[1]]] ELSE 0]
           huffcode == CHOOSE f : f = [i \in 1 .. K |->
             IF i = 1 THEN 0 ELSE (f[i - 1] + 1) * Power2[size[i] - size[i - 1]]]
<1>0. K \in Nat /\ 0 \in Int /\ MaxBits \in Nat \ {0}
  BY MaxBitsIs
<1>1. \A r \in 1 .. K : size[r] \in 1 .. MaxBits /\ r \in Ranks(size[r])
  OBVIOUS
<1> HIDE DEF K
<1>2. ASSUME NEW r \in Nat, r \in 1 .. K, r + 1 \in 1 .. K
      PROVE  /\ size[r] \in 1 .. MaxBits /\ size[r + 1] \in 1 .. MaxBits
             /\ size[r] <= size[r + 1] /\ Power2[size[r + 1] - size[r]] \in Nat
             /\ Huffcode(r + 1, size[r + 1])
                  = (Huffcode(r, size[r]) + 1) * Power2[size[r + 1] - size[r]]
  <2> DEFINE m == size[r]
             n == size[r + 1]
  <2>1. m \in 1 .. MaxBits /\ n \in 1 .. MaxBits /\ r \in Ranks(m) /\ r + 1 \in Ranks(n)
    BY <1>1, <1>2
  <2> HIDE DEF m, n
  <2>2. m <= n /\ Huffcode(r + 1, n) = (Huffcode(r, m) + 1) * Power2[n - m]
    BY <2>1, HuffcodeNext
  <2>3. n - m \in Nat
    BY <1>0, <2>1, <2>2
  <2>4. Power2[n - m] \in Nat
    BY <2>3, Power2Is
  <2> QED
    BY <2>1, <2>2, <2>4 DEF m, n
<1>3. step \in Steps(Int)
  <2> SUFFICES ASSUME NEW x \in Nat \X Int, x[1] \in places, x[1] + 1 \in places
               PROVE  (x[2] + 1) * Power2[size[x[1] + 1] - size[x[1]]] \in Int
    BY <1>0 DEF Steps
  <2>1. x[1] \in Nat /\ x[2] \in Int
    OBVIOUS
  <2>2. Power2[size[x[1] + 1] - size[x[1]]] \in Nat
    BY <1>2, <2>1
  <2> QED
    BY <2>1, <2>2
<1>4. \A r \in Nat, v \in Int : r \in 1 .. K /\ r + 1 \in 1 .. K =>
        step[<<r, v>>] = (v + 1) * Power2[size[r + 1] - size[r]]
  OBVIOUS
<1> HIDE DEF step
<1>5. PICK f : RecursesTo(f, K, Int, 0, step)
  BY <1>0, <1>3, RecursionTo
<1>6. \A i \in 1 .. K : f[i] \in Int
  BY <1>5, Zenon DEF RecursesTo
<1>7. f = [i \in 1 .. K |-> IF i = 1 THEN 0 ELSE step[<<i - 1, f[i - 1]>>]]
  BY <1>5, Zenon DEF RecursesTo
<1>8. ASSUME NEW i \in 1 .. K
      PROVE  f[i] = IF i = 1 THEN 0 ELSE (f[i - 1] + 1) * Power2[size[i] - size[i - 1]]
  <2>1. f[i] = IF i = 1 THEN 0 ELSE step[<<i - 1, f[i - 1]>>]
    BY <1>7, Zenon
  <2>2. ASSUME i # 1
        PROVE  step[<<i - 1, f[i - 1]>>] = (f[i - 1] + 1) * Power2[size[i] - size[i - 1]]
    <3>1. i - 1 \in Nat /\ i - 1 \in 1 .. K /\ (i - 1) + 1 = i
      BY <1>0, <2>2
    <3>2. f[i - 1] \in Int
      BY <1>6, <3>1
    <3>3. step[<<i - 1, f[i - 1]>>] = (f[i - 1] + 1) * Power2[size[(i - 1) + 1] - size[i - 1]]
      BY <1>4, <3>1, <3>2
    <3> QED
      BY <3>1, <3>3, Zenon
  <2> QED
    BY <2>1, <2>2
<1>9. f = [i \in 1 .. K |->
             IF i = 1 THEN 0 ELSE (f[i - 1] + 1) * Power2[size[i] - size[i - 1]]]
  <2>1. f = [i \in 1 .. K |-> f[i]]
    BY <1>7, Zenon
  <2> QED
    BY <1>8, <2>1, Zenon
<1>10. huffcode = [i \in 1 .. K |->
             IF i = 1 THEN 0 ELSE (huffcode[i - 1] + 1) * Power2[size[i] - size[i - 1]]]
  BY <1>9
<1> HIDE DEF huffcode
<1>11. \A i \in 1 .. K : huffcode[i] =
          IF i = 1 THEN 0 ELSE (huffcode[i - 1] + 1) * Power2[size[i] - size[i - 1]]
  BY <1>10, Zenon
<1> DEFINE T == {r \in Nat : r \in 1 .. K => huffcode[r] = Huffcode(r, size[r])}
<1>12. 0 \in T
  OBVIOUS
<1>13. ASSUME NEW r \in Nat, r \in T
       PROVE  r + 1 \in T
  <2> SUFFICES ASSUME r + 1 \in 1 .. K
               PROVE  huffcode[r + 1] = Huffcode(r + 1, size[r + 1])
    OBVIOUS
  <2>1. CASE r = 0
    <3>1. r + 1 = 1 /\ 1 \in 1 .. K /\ 1 \in Nat
      BY <2>1
    <3>2. size[1] \in 1 .. MaxBits /\ 1 \in Ranks(size[1]) /\ huffcode[1] = 0
      BY <1>1, <1>11, <3>1
    <3>3. 1 \in Ranks(1) /\ Huffcode(1, 1) = 0 /\ 1 \in 1 .. MaxBits
      BY <1>0, HuffcodeNext
    <3>4. size[1] = 1
      <4>1. 1 <= 1
        OBVIOUS
      <4>2. size[1] <= 1 /\ 1 <= size[1]
        BY <3>1, <3>2, <3>3, <4>1, CodeSizeIs
      <4> QED
        BY <1>0, <3>2, <4>2
    <3> QED
      BY <3>1, <3>2, <3>3, <3>4, Zenon
  <2>2. CASE r # 0
    <3>1. r \in 1 .. K /\ r + 1 # 1 /\ (r + 1) - 1 = r
      BY <1>0, <2>2
    <3>2. huffcode[r] = Huffcode(r, size[r])
      BY <1>13, <3>1
    <3>3. huffcode[r + 1] =
            IF r + 1 = 1 THEN 0
            ELSE (huffcode[(r + 1) - 1] + 1) * Power2[size[r + 1] - size[(r + 1) - 1]]
      BY <1>11, Zenon
    <3>4. huffcode[r + 1] = (huffcode[r] + 1) * Power2[size[r + 1] - size[r]]
      BY <3>1, <3>3, Zenon
    <3>5. Huffcode(r + 1, size[r + 1])
            = (Huffcode(r, size[r]) + 1) * Power2[size[r + 1] - size[r]]
      BY <1>2, <3>1
    <3> QED
      BY <3>2, <3>4, <3>5, Zenon
  <2> QED
    BY <2>1, <2>2
<1> HIDE DEF T
<1>14. Nat \subseteq T
  BY <1>12, <1>13, SetInduction
<1>15. \A r \in 1 .. K : huffcode[r] = Huffcode(r, size[r])
  BY <1>0, <1>14 DEF T
<1> QED
  BY <1>15 DEF huffcode, K

\* The table made of the DHT segment is the one that was written with.
LEMMA CodebookIs ==
  ASSUME huff_val \in [Tables -> [Symbols -> Nat]], NEW t \in Tables,
         code = [u \in Tables |-> [s \in Found(u) |-> NewCode(Rank(u, s))]]
  PROVE  Codebook(Dht(t)) = code[t]
<1> DEFINE K == Cardinality(Found(t))
           bits == Dht(t).bits
           vals == Dht(t).vals
           size == FlattenSeq([n \in 1 .. MaxBits |-> [k \in 1 .. bits[n] |-> n]])
           huffcode[i \in 1 .. Len(size)] ==
             IF i = 1 THEN 0 ELSE (huffcode[i - 1] + 1) * Power2[size[i] - size[i - 1]]
           place_(s) == CHOOSE i \in DOMAIN vals : vals[i] = s
<1>0. MaxBits \in Nat \ {0} /\ Cardinality(Symbols) \in Nat
  BY MaxBitsIs
<1>1. /\ K \in Nat /\ K \in 0 .. Cardinality(Symbols)
      /\ \A s \in Found(t) : Rank(t, s) \in 1 .. K
      /\ \A r \in 1 .. K : \E s \in Found(t) : Rank(t, s) = r
  BY <1>0, RanksAre
<1>2. vals = [r \in 1 .. K |-> CHOOSE s \in Found(t) : Rank(t, s) = r]
  BY DEF Dht
<1>3. \A n \in 1 .. MaxBits : bits[n] = UpTo(K, n) - UpTo(K, n - 1)
  BY LengthsCounted
<1>4. Codebook(Dht(t)) = [s \in {vals[i] : i \in DOMAIN vals} |->
                            Digits(huffcode[place_(s)], size[place_(s)])]
  BY DEF Codebook
<1> HIDE DEF K, bits, vals
<1>5. /\ size \in Seq(Nat) /\ Len(size) = K
      /\ \A r \in 1 .. K : size[r] \in 1 .. MaxBits /\ r \in Ranks(size[r])
  BY <1>1, <1>3, SizesAre
<1> HIDE DEF size
<1>6. \A r \in 1 .. K : huffcode[r] = Huffcode(r, size[r])
  BY <1>5, HuffcodesAre
<1> HIDE DEF huffcode
<1>7. \A r \in 1 .. K : vals[r] \in Found(t) /\ Rank(t, vals[r]) = r
  BY <1>1, <1>2
<1>8. DOMAIN vals = 1 .. K
  BY <1>2
<1>9. ASSUME NEW s \in Found(t)
      PROVE  place_(s) = Rank(t, s) /\ vals[Rank(t, s)] = s
  <2> DEFINE r == Rank(t, s)
  <2>1. r \in 1 .. K
    BY <1>1
  <2>2. vals[r] = s
    BY <1>7, <2>1, RanksApart
  <2>3. \A i \in DOMAIN vals : vals[i] = s => i = r
    BY <1>7, <1>8
  <2> QED
    BY <1>8, <2>1, <2>2, <2>3
<1>10. {vals[i] : i \in DOMAIN vals} = Found(t)
  BY <1>1, <1>7, <1>8, <1>9
<1>11. ASSUME NEW s \in Found(t)
       PROVE  Digits(huffcode[place_(s)], size[place_(s)]) = NewCode(Rank(t, s))
  <2> DEFINE r == Rank(t, s)
  <2>1. place_(s) = r /\ r \in 1 .. K /\ r \in 1 .. Cardinality(Symbols) /\ r \in Nat
    BY <1>0, <1>1, <1>9
  <2> HIDE DEF r, place_
  <2>2. huffcode[r] = Huffcode(r, size[r]) /\ size[r] \in 1 .. MaxBits /\ r \in Ranks(size[r])
    BY <1>5, <1>6, <2>1
  <2>3. /\ CodeSize(r) \in 1 .. MaxBits /\ r \in Ranks(CodeSize(r))
        /\ NewCode(r) = Digits(Huffcode(r, CodeSize(r)), CodeSize(r))
    BY <2>1, NewCodeIs
  <2>4. size[r] = CodeSize(r)
    <3>1. r <= r
      BY <2>1
    <3>2. size[r] <= CodeSize(r) /\ CodeSize(r) <= size[r]
      BY <2>1, <2>2, <2>3, <3>1, CodeSizeIs
    <3> DEFINE x == size[r]
               y == CodeSize(r)
    <3>3. x \in Int /\ y \in Int /\ x <= y /\ y <= x
      BY <2>2, <2>3, <3>2
    <3> HIDE DEF x, y
    <3>4. x = y
      BY <3>3
    <3> QED
      BY <3>4 DEF x, y
  <2>5. Digits(huffcode[r], size[r]) = NewCode(r)
    BY <2>2, <2>3, <2>4
  <2> QED
    BY <2>1, <2>5 DEF r
<1> HIDE DEF place_
<1>12. code[t] = [s \in Found(t) |-> NewCode(Rank(t, s))]
  OBVIOUS
<1>13. Codebook(Dht(t)) = [s \in Found(t) |-> Digits(huffcode[place_(s)], size[place_(s)])]
  BY <1>4, <1>10, Zenon
<1> QED
  BY <1>11, <1>12, <1>13, Zenon

\* While a file is read back, the tables are those it was written with.
Rebuilt == reading # "no" => phase = "flushed" /\ tables = code

LEMMA RebuiltInvariant == RereadSpec => []Rebuilt
<1>1. RereadInit => Rebuilt
  BY DEF RereadInit, DecoderInit, Rebuilt
<1>2. RecoderInv /\ Rebuilt /\ [RereadNext]_<<recoderVars, decoderVars>> => Rebuilt'
  <2> SUFFICES ASSUME RecoderInv, Rebuilt, [RereadNext]_<<recoderVars, decoderVars>>
               PROVE  Rebuilt'
    OBVIOUS
  <2>1. CASE RecoderNext /\ phase # "flushed" /\ UNCHANGED decoderVars
    BY <2>1 DEF Rebuilt, decoderVars
  <2>2. CASE OpenRecoded
    <3>1. /\ phase = "flushed" /\ phase' = phase /\ code' = code
          /\ tables' = [t \in Tables |-> Codebook(Dht(t))]
      BY <2>2 DEF OpenRecoded, recoderVars
    <3>2. /\ huff_val \in [Tables -> [Symbols -> Nat]]
          /\ code = [u \in Tables |-> [s \in Found(u) |-> NewCode(Rank(u, s))]]
      BY <3>1 DEF RecoderInv, RecoderTyped, Counted
    <3>3. \A t \in Tables : Codebook(Dht(t)) = code[t]
      BY <3>2, CodebookIs
    <3>4. code = [t \in Tables |-> code[t]]
      BY <3>2
    <3>5. tables' = code
      BY <3>1, <3>3, <3>4, Zenon
    <3> QED
      BY <3>1, <3>5 DEF Rebuilt
  <2>3. CASE ReadCoefficient
    BY <2>3 DEF ReadCoefficient, Rebuilt, recoderVars
  <2>4. CASE NextUnit
    BY <2>4 DEF NextUnit, Rebuilt, recoderVars
  <2>5. CASE NextMCU
    <3>1. /\ UNCHANGED <<tables, phase, code>>
          /\ reading # "no"
      BY <2>5 DEF NextMCU, recoderVars
    <3> QED
      BY <3>1 DEF Rebuilt
  <2>6. CASE NextImage /\ CloseRecoded
    BY <2>6 DEF CloseRecoded, Rebuilt
  <2>7. CASE UNCHANGED <<recoderVars, decoderVars>>
    BY <2>7 DEF Rebuilt, recoderVars, decoderVars
  <2> QED
    BY <2>1, <2>2, <2>3, <2>4, <2>5, <2>6, <2>7 DEF RereadNext
<1> QED
  BY <1>1, <1>2, RereadIsRecoder, RecoderInvariant, PTL DEF RereadSpec

\* build_huffman_table (src/main.cpp, 118) makes of the DHT segment, which has only
\* the number of codes of each length and the symbols in their order, the codes
\* that cal_new_huffman (1337) gave to the symbols, whatever lengths have no codes.
THEOREM TablesAreRebuilt == RereadSpec => []TablesRebuilt
<1>1. Rebuilt => TablesRebuilt
  BY DEF Rebuilt, TablesRebuilt
<1> QED
  BY <1>1, RebuiltInvariant, PTL

=============================================================================
