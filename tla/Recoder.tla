------------------------------- MODULE Recoder -------------------------------
(***************************************************************************)
(* The JPEG recoder, src/main.cpp: main reads every image of a directory   *)
(* and counts the symbols it meets, builds four Huffman tables for the     *)
(* whole directory, and reads every image again to write it with them.     *)
(*                                                                         *)
(* An image is the sequence of its MCUs, an MCU that of the symbols of its *)
(* three components in the order they are coded, each with the magnitude   *)
(* bits that follow it.  Both passes run the same decoder on the same      *)
(* bytes and get the same symbols; the decoder is in module RecodedFile.   *)
(***************************************************************************)
EXTENDS BitWriter, Integers, FiniteSets, SequencesExt

CONSTANTS
  JPEGFileNum,  \* the number of files
  Images,       \* what a file may hold
  Symbols,      \* the symbols: 16 * zeros + size of the magnitude
  OneSizeMax    \* one_size_max: the number of codes of each length

MaxBits == 2 * ByteBits

\* With one code of one bit, "0", no other code has a leading zero; what
\* cal_new_huffman does to put one there is left out.
ASSUME RecoderAssumption ==
  /\ JPEGFileNum \in Nat \ {0}
  /\ Symbols \subseteq Nat /\ IsFiniteSet(Symbols)
  /\ OneSizeMax \in [1 .. MaxBits -> Nat] /\ OneSizeMax[1] = 1

\* a symbol of an MCU: of the DC or an AC coefficient of a component
Unit == [component : 0 .. 2, class : {"DC", "AC"}, symbol : Symbols, bits : Seq(Bit)]

\* interval: restart_interval; aligned: the width is a multiple of 8
ASSUME ImagesAssumption ==
  \A i \in Images : /\ i.mcus \in Seq(Seq(Unit))
                    /\ i.interval \in Nat /\ i.aligned \in BOOLEAN

VARIABLES
  phase,     \* "count", "tables", "write", "flushed" or "done"
  image,     \* the files of the directory
  workon,    \* workon, then WriteNewData_workon, from 1
  mcu,       \* the MCU of the current image, from 1
  unit,      \* the symbol of it, from 1
  part,      \* "symbol", or "bits": its magnitude comes next
  toGo,      \* restarts_to_go
  seen,      \* last_rst_marker_seen
  huff_val,  \* how often each symbol was met
  code       \* huff_val_useful: the codes of the symbols

place == <<workon, mcu, unit, part, toGo, seen>>
recoderVars == <<phase, image, place, huff_val, code, writerVars>>

Tables == {"DC", "AC"} \X {0, 1}

\* The first component has tables of its own, the others share theirs.
TableOf(u) == <<u.class, IF u.component = 0 THEN 0 ELSE 1>>

RestartsToGo(i) == IF i.interval > 0 THEN i.interval ELSE -1

RecoderInit ==
  /\ phase = "count"
  /\ image \in [1 .. JPEGFileNum -> Images]
  /\ workon = 1 /\ mcu = 1 /\ unit = 1 /\ part = "symbol" /\ toGo = 0 /\ seen = 0
  /\ huff_val = [t \in Tables |-> [s \in Symbols |-> 0]]
  /\ code = [t \in Tables |-> <<>>]
  /\ WriterInit

-----------------------------------------------------------------------------
(* The first pass.                                                         *)

\* Faulty variant: the case of the third component is missing.
UnitsWithoutCr(m, t, s) ==
  {i \in DOMAIN m : TableOf(m[i]) = t /\ m[i].symbol = s /\ m[i].component # 2}

Units(m, t, s) == {i \in DOMAIN m : TableOf(m[i]) = t /\ m[i].symbol = s}

\* One turn of the loops of tinyjpeg_decode.
CountMCU ==
  /\ phase = "count"
  /\ mcu <= Len(image[workon].mcus)
  /\ huff_val' = [t \in Tables |-> [s \in Symbols |->
       huff_val[t][s] + Cardinality(Units(image[workon].mcus[mcu], t, s))]]
  /\ mcu' = mcu + 1
  /\ UNCHANGED <<phase, image, workon, unit, part, toGo, seen, code, writerVars>>

\* The loop runs to width + 1: if the width is a multiple of 8 it decodes an MCU
\* too many in every row, and takes the bytes behind the image for symbols.  At
\* most one of these is counted here.
CountBeyond ==
  /\ phase = "count"
  /\ mcu = Len(image[workon].mcus) + 1
  /\ image[workon].aligned
  /\ \E t \in Tables, s \in Symbols :
       huff_val' = [huff_val EXCEPT ![t][s] = @ + 1]
  /\ mcu' = mcu + 1
  /\ UNCHANGED <<phase, image, workon, unit, part, toGo, seen, code, writerVars>>

\* The loops end, or the bytes of the image: tinyjpeg_decode returns.
EndCount ==
  /\ phase = "count"
  /\ mcu > Len(image[workon].mcus)
  /\ IF workon < JPEGFileNum THEN workon' = workon + 1 /\ phase' = phase
     ELSE workon' = 1 /\ phase' = "tables"
  /\ mcu' = 1
  /\ UNCHANGED <<image, unit, part, toGo, seen, huff_val, code, writerVars>>

-----------------------------------------------------------------------------
(* The tables.                                                             *)

\* build_huff_val_useful
Found(t) == {s \in Symbols : huff_val[t][s] # 0}

\* BubbleSort: the more frequent first; it leaves equals in their order.
Rank(t, s) ==
  1 + Cardinality({r \in Found(t) :
        \/ huff_val[t][r] > huff_val[t][s]
        \/ huff_val[t][r] = huff_val[t][s] /\ r < s})

\* 2 to the n
Power2[n \in Nat] == IF n = 0 THEN 1 ELSE 2 * Power2[n - 1]

\* the n binary digits of v
Digits(v, n) == [i \in 1 .. n |-> (v \div Power2[n - i]) % 2]

\* the number of codes shorter than n bits
Shorter[n \in 1 .. MaxBits + 1] ==
  IF n = 1 THEN 0 ELSE Shorter[n - 1] + OneSizeMax[n - 1]

\* Faulty variant: huffcode is not incremented where the size changes.
FirstCodeOverlaps(n) ==
  LET first[k \in 1 .. MaxBits] ==
        IF k = 1 THEN 0
        ELSE 2 * (first[k - 1] + (IF OneSizeMax[k - 1] = 0 THEN 0
                                  ELSE OneSizeMax[k - 1] - 1))
  IN  first[n]

\* huffcode when cal_new_huffman comes to the codes of n bits
FirstCode(n) ==
  LET first[k \in 1 .. MaxBits] ==
        IF k = 1 THEN 0 ELSE 2 * (first[k - 1] + OneSizeMax[k - 1])
  IN  first[n]

\* the size of the code of the r-th symbol
CodeSize(r) == CHOOSE n \in 1 .. MaxBits : r \in Shorter[n] + 1 .. Shorter[n + 1]

\* cal_new_huffman: the code of the r-th symbol
NewCode(r) ==
  LET n == CodeSize(r) IN Digits(FirstCode(n) + r - Shorter[n] - 1, n)

\* one_size_max has codes for all symbols (the process ends with "You have to check
\* the one_size_max" if one is longer than 16 bits), and the last one, of n bits, is
\* less than n ones: with 256 symbols it is 65514, of 16 bits.
ASSUME CodesAssumption ==
  \E n \in 1 .. MaxBits :
    /\ Cardinality(Symbols) \in Shorter[n] + 1 .. Shorter[n + 1]
    /\ FirstCode(n) + Cardinality(Symbols) - Shorter[n] < Power2[n]

BuildTables ==
  /\ phase = "tables"
  /\ code' = [t \in Tables |-> [s \in Found(t) |-> NewCode(Rank(t, s))]]
  /\ toGo' = RestartsToGo(image[workon])
  /\ phase' = "write"
  /\ UNCHANGED <<image, workon, mcu, unit, part, seen, huff_val, writerVars>>

-----------------------------------------------------------------------------
(* The second pass.                                                        *)

CurrentMCU  == image[workon].mcus[mcu]
CurrentUnit == CurrentMCU[unit]

Writing ==
  phase = "write" /\ mcu <= Len(image[workon].mcus)

\* the number a magnitude stands for
ValueOf(bits) ==
  LET n == Len(bits)
      v[i \in 0 .. n] == IF i = 0 THEN 0 ELSE 2 * v[i - 1] + bits[i]
  IN  IF v[n] < Power2[n - 1] THEN v[n] - Power2[n] + 1 ELSE v[n]

\* the binary digits of a number, with no leading zero
Binary(v) ==
  IF v = 0 THEN <<0>>
  ELSE Digits(v, CHOOSE n \in 1 .. v : Power2[n - 1] <= v /\ v < Power2[n])

\* tobin and itoa: the digits of a negative number are complemented.
Tobin(v) ==
  IF v < 0 THEN [i \in DOMAIN Binary(-v) |-> 1 - Binary(-v)[i]] ELSE Binary(v)

\* A magnitude has no more bits than two bytes.
ASSUME MagnitudesAssumption ==
  \A i \in Images : \A m \in DOMAIN i.mcus : \A n \in DOMAIN i.mcus[m] :
    LET u == i.mcus[m][n]
    IN  Len(u.bits) = u.symbol % 16 /\ Len(u.bits) <= MaxBits

\* The symbol is looked up by Find_New_code, which ends the process if it has no
\* code (here the model stops), and its code is written.
WriteSymbol ==
  /\ Writing /\ unit <= Len(CurrentMCU) /\ part = "symbol"
  /\ CurrentUnit.symbol \in DOMAIN code[TableOf(CurrentUnit)]
  /\ WriteStream(code[TableOf(CurrentUnit)][CurrentUnit.symbol])
  /\ IF CurrentUnit.bits = <<>> THEN unit' = unit + 1 /\ part' = part
     ELSE unit' = unit /\ part' = "bits"
  /\ UNCHANGED <<phase, image, workon, mcu, toGo, seen, huff_val, code>>

WriteBits ==
  /\ Writing /\ unit <= Len(CurrentMCU) /\ part = "bits"
  /\ WriteStream(Tobin(ValueOf(CurrentUnit.bits)))
  /\ unit' = unit + 1
  /\ part' = "symbol"
  /\ UNCHANGED <<phase, image, workon, mcu, toGo, seen, huff_val, code>>

\* A restart is due and the image has its marker: Write_RST.  Behind the last MCU
\* it has none, and Write_RST returns at the end marker.
Restart ==
  /\ toGo = 1
  /\ toGo' = RestartsToGo(image[workon])
  /\ IF mcu < Len(image[workon].mcus)
     THEN WriteRst(seen) /\ seen' = (seen + 1) % 8
     ELSE UNCHANGED <<seen, writerVars>>

NoRestart ==
  /\ toGo # 1
  /\ toGo' = IF toGo > 0 THEN toGo - 1 ELSE toGo
  /\ UNCHANGED <<seen, writerVars>>

EndMCU ==
  /\ Writing /\ unit > Len(CurrentMCU)
  /\ Restart \/ NoRestart
  /\ mcu' = mcu + 1
  /\ unit' = 1
  /\ UNCHANGED <<phase, image, workon, part, huff_val, code>>

EndImage ==
  /\ phase = "write"
  /\ mcu > Len(image[workon].mcus)
  /\ Flush
  /\ phase' = "flushed"
  /\ UNCHANGED <<image, place, huff_val, code>>

NextImage ==
  /\ phase = "flushed"
  /\ NewFile
  /\ mcu' = 1 /\ seen' = 0
  /\ IF workon < JPEGFileNum
     THEN /\ workon' = workon + 1
          /\ toGo' = RestartsToGo(image[workon + 1])
          /\ phase' = "write"
     ELSE phase' = "done" /\ UNCHANGED <<workon, toGo>>
  /\ UNCHANGED <<image, unit, part, huff_val, code>>

RecoderNext ==
  \/ CountMCU \/ CountBeyond \/ EndCount
  \/ BuildTables
  \/ WriteSymbol \/ WriteBits \/ EndMCU \/ EndImage \/ NextImage

RecoderSpec == RecoderInit /\ [][RecoderNext]_recoderVars

-----------------------------------------------------------------------------
(* Properties                                                              *)

\* Find_New_code never gives up (src/main.cpp, 1724): the first pass has counted
\* every symbol the second one meets, in all images, whatever else it counted.
CodesFound ==
  phase = "write" =>
    \A f \in 1 .. JPEGFileNum : \A m \in DOMAIN image[f].mcus :
      \A i \in DOMAIN image[f].mcus[m] :
        LET u == image[f].mcus[m][i] IN u.symbol \in DOMAIN code[TableOf(u)]
=============================================================================
