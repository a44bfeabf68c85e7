------------------------------ MODULE BitWriter ------------------------------
(***************************************************************************)
(* How the recoder (src/main.cpp) packs Huffman codes and magnitudes into  *)
(* bytes.  Up to a byte of bits waits in WriteNewData_Stream; what does    *)
(* not fit fills it up, and a full byte of ones is followed by a byte of   *)
(* zeros, so that it is not taken for the first byte of a marker.          *)
(*                                                                         *)
(* The code has bytes of 8 bits and codes of at most 16; here a byte has   *)
(* ByteBits bits and a code at most two bytes.                             *)
(***************************************************************************)
EXTENDS Naturals, Sequences

CONSTANT ByteBits

ASSUME ByteBitsAssumption == ByteBits \in Nat \ {0}

Bit  == {0, 1}
Byte == [1 .. ByteBits -> Bit]

Ones  == [i \in 1 .. ByteBits |-> 1]
Zeros == [i \in 1 .. ByteBits |-> 0]

\* what is written to a file: a byte, or the two bytes of a restart marker
Data(byte) == [data |-> byte]
Rst(n)     == [rst |-> n]

Codes == {code \in Seq(Bit) : Len(code) <= 2 * ByteBits}

VARIABLES
  pending,  \* the last WriteNewData_Stream_Bits bits of WriteNewData_Stream
  file,     \* what was written to the body of the current file
  coded,    \* history: all bits to write since the last marker
  sent      \* history: the bits of the bytes written since the last marker

writerVars == <<pending, file, coded, sent>>

WriterInit == pending = <<>> /\ file = <<>> /\ coded = <<>> /\ sent = <<>>

\* Faulty variant: a byte of ones is written as it is.
EmitUnstuffed(byte) == <<Data(byte)>>

Emit(byte) ==
  IF byte = Ones THEN <<Data(byte), Data(Zeros)>> ELSE <<Data(byte)>>

Pad(bits) == [i \in 1 .. ByteBits |-> IF i <= Len(bits) THEN bits[i] ELSE 1]

-----------------------------------------------------------------------------

Free         == ByteBits - Len(pending)
Filled(code) == pending \o SubSeq(code, 1, Free)
Left(code)   == SubSeq(code, Free + 1, Len(code))
Second(code) == SubSeq(Left(code), 1, ByteBits)
Rest(code)   == SubSeq(Left(code), ByteBits + 1, Len(Left(code)))

Fits(code) ==
  /\ Len(code) <= Free
  /\ pending' = pending \o code
  /\ UNCHANGED <<file, sent>>

\* Faulty variant: what is left after a byte was filled never fills another.
FillsNoSecond(code) ==
  /\ Len(code) > Free
  /\ file' = file \o Emit(Filled(code))
  /\ sent' = sent \o Filled(code)
  /\ pending' = IF Len(Left(code)) <= ByteBits THEN Left(code) ELSE Rest(code)

FillsOne(code) ==
  /\ Len(code) > Free
  /\ Len(Left(code)) < ByteBits
  /\ file' = file \o Emit(Filled(code))
  /\ sent' = sent \o Filled(code)
  /\ pending' = Left(code)

FillsTwo(code) ==
  /\ Len(code) > Free
  /\ Len(Left(code)) >= ByteBits
  /\ file' = file \o Emit(Filled(code)) \o Emit(Second(code))
  /\ sent' = sent \o Filled(code) \o Second(code)
  /\ pending' = Rest(code)

\* Write_Stream_To_File
WriteStream(code) ==
  /\ coded' = coded \o code
  /\ Fits(code) \/ FillsOne(code) \/ FillsTwo(code)

\* Write_RST: the last bits are padded with ones and written as they are.
WriteRst(n) ==
  /\ file' = file \o (IF pending = <<>> THEN <<Rst(n)>>
                      ELSE <<Data(Pad(pending)), Rst(n)>>)
  /\ pending' = <<>> /\ coded' = <<>> /\ sent' = <<>>

\* The end of an image: the last bits are padded, and stuffed.
Flush ==
  /\ file' = file \o (IF pending = <<>> THEN <<>> ELSE Emit(Pad(pending)))
  /\ pending' = <<>> /\ coded' = <<>> /\ sent' = <<>>

\* The next image starts a file of its own.  The tables are written through the
\* same WriteNewData_Stream: Write_One_Huffman_Table clears it behind each byte.
NewFile == file' = <<>> /\ pending' = <<>> /\ coded' = <<>> /\ sent' = <<>>

WriterNext ==
  \/ \E code \in Codes : WriteStream(code)
  \/ \E n \in 0 .. 7 : WriteRst(n)
  \/ Flush
  \/ NewFile

WriterSpec == WriterInit /\ [][WriterNext]_writerVars

-----------------------------------------------------------------------------
(* Properties                                                              *)

\* Write_Stream_To_File loses, doubles and reorders no bit: what was written as
\* bytes and what waits is what was to be written, and at most a byte waits.
AllBitsKept == sent \o pending = coded /\ Len(pending) <= ByteBits

\* the i-th byte of a body has its byte of zeros, or a marker, behind it
Stuffing(body, i) == i < Len(body) /\ body[i + 1] = Data(Zeros)
MarkerBehind(body, i) ==
  i < Len(body) /\ \E n \in 0 .. 7 : body[i + 1] = Rst(n)

\* "To tell it from a marker, a byte 0xFF of the compressed data is followed by a
\* byte 0x00", says the comment in WriteNewData_process_Huffman_data_unit
\* (src/main.cpp, 1812).
Stuffed == \A i \in 1 .. Len(file) : file[i] = Data(Ones) => Stuffing(file, i)

\* Every byte of ones is stuffed but, possibly, the last one before a restart
\* marker: no other place of a body can be taken for a marker.
UnstuffedAtMarkers(body) ==
  \A i \in 1 .. Len(body) :
    body[i] = Data(Ones) => Stuffing(body, i) \/ MarkerBehind(body, i)

StuffedElsewhere == UnstuffedAtMarkers(file)
=============================================================================
