----------------------------- MODULE RecodedFile -----------------------------
(***************************************************************************)
(* What the recoder wrote, read back by its own decoder, as the next run   *)
(* over the directory does: build_huffman_table rebuilds the codes of the  *)
(* DHT segment, get_next_huffman_code reads ahead of the code it looks for,*)
(* process_Huffman_data_unit counts coefficients, and at a restart what    *)
(* was read ahead is given back before the marker is searched.             *)
(***************************************************************************)
EXTENDS Recoder

CONSTANTS
  LookBits,   \* HUFFMAN_HASH_NBITS: the longest codes of the look-up table
  SlowPlaces  \* the places of slowtable for the longer ones of each length

\* slowtable is never checked ("TODO: NEED TO CHECK FOR AN OVERFLOW OF THE TABLE"):
\* here it has a place for each code of a length.
ASSUME DecoderAssumption ==
  /\ LookBits \in ByteBits + 1 .. MaxBits /\ SlowPlaces \in Nat
  /\ \A n \in LookBits + 1 .. MaxBits :
       \/ OneSizeMax[n] <= SlowPlaces
       \/ Cardinality(Symbols) - Shorter[n] <= SlowPlaces

VARIABLES
  reading,    \* "no", "unit", "done" or "lost"
  tables,     \* HTDC and HTAC: the codes
  raw,        \* the scan: its bytes, from stream_begin to stream_end
  stream,     \* the place of the next one
  reservoir,  \* the nbits_in_reservoir bits read ahead
  component,  \* the data unit that is decoded
  j,          \* the next coefficient of it, 0 for DC
  turns,      \* history: the MCUs decoded
  goesTo,     \* restarts_to_go of the decoder
  expects,    \* last_rst_marker_seen of the decoder
  got         \* history: the symbols and magnitudes decoded

decoderVars == <<reading, tables, raw, stream, reservoir, component, j, turns,
                 goesTo, expects, got>>

-----------------------------------------------------------------------------
(* The tables.                                                             *)

\* Write_Huffman_Table: the number of codes of each length, and their symbols.
Dht(t) ==
  [bits |-> [n \in 1 .. MaxBits |->
              Cardinality({s \in DOMAIN code[t] : Len(code[t][s]) = n})],
   vals |-> [r \in 1 .. Cardinality(Found(t)) |->
              CHOOSE s \in Found(t) : Rank(t, s) = r]]

\* Faulty variant: the code is shifted once where lengths without codes are passed.
CodebookShiftsOnce(dht) ==
  LET size == FlattenSeq([n \in 1 .. MaxBits |-> [k \in 1 .. dht.bits[n] |-> n]])
      huffcode[i \in 1 .. Len(size)] ==
        IF i = 1 THEN 0
        ELSE (huffcode[i - 1] + 1) * (IF size[i] = size[i - 1] THEN 1 ELSE 2)
      place_(s) == CHOOSE i \in DOMAIN dht.vals : dht.vals[i] = s
  IN  [s \in {dht.vals[i] : i \in DOMAIN dht.vals} |->
        Digits(huffcode[place_(s)], size[place_(s)])]

\* build_huffman_table: the codes of a table of a file
Codebook(dht) ==
  LET size == FlattenSeq([n \in 1 .. MaxBits |-> [k \in 1 .. dht.bits[n] |-> n]])
      huffcode[i \in 1 .. Len(size)] ==
        IF i = 1 THEN 0
        ELSE (huffcode[i - 1] + 1) * Power2[size[i] - size[i - 1]]
      place_(s) == CHOOSE i \in DOMAIN dht.vals : dht.vals[i] = s
  IN  [s \in {dht.vals[i] : i \in DOMAIN dht.vals} |->
        Digits(huffcode[place_(s)], size[place_(s)])]

-----------------------------------------------------------------------------
(* The bytes of a scan, and the bits the decoder makes of them.             *)

End == [end |-> TRUE]

IsMarker(byte) == "data" \notin DOMAIN byte

\* A marker is two bytes, the first one of ones.
Bytes(body) ==
  FlattenSeq([i \in DOMAIN body |->
                IF IsMarker(body[i]) THEN <<Data(Ones), body[i]>> ELSE <<body[i]>>])
    \o <<Data(Ones), End>>

\* The second byte of a marker, taken for data, is neither all ones nor zeros.
BitsOf(byte) ==
  IF IsMarker(byte) THEN [i \in 1 .. ByteBits |-> IF i = 1 THEN 1 ELSE 0]
  ELSE byte.data

\* Bytes are read until there are n bits or no bytes (longjmp); a byte of zeros
\* behind one of ones is skipped.
Refill(r, n) ==
  LET stuffed(i) == /\ raw[i] = Data(Ones)
                    /\ i < Len(raw) /\ raw[i + 1] = Data(Zeros)
      fill[k \in 0 .. n] ==
        IF k = 0 THEN r
        ELSE LET f == fill[k - 1]
             IN  IF Len(f.bits) >= n \/ f.at > Len(raw) THEN f
                 ELSE [at |-> f.at + (IF stuffed(f.at) THEN 2 ELSE 1),
                       bits |-> f.bits \o BitsOf(raw[f.at])]
  IN  fill[n]

\* n bits are taken off the reservoir; there may be too few (longjmp).
Taken(r, n, value) ==
  [value |-> value, bits |-> SubSeq(r.bits, 1, n), lost |-> Len(r.bits) < n,
   rest |-> [r EXCEPT !.bits = SubSeq(r.bits, n + 1, Len(r.bits))]]

\* the symbols of n bits the reservoir begins with, at most one
Matches(book, r, n) ==
  {s \in DOMAIN book : Len(book[s]) = n /\ IsPrefix(book[s], r.bits)}

\* get_next_huffman_code: LookBits bits are read ahead, whatever the length of the
\* code; then more of them one by one.  No code found is symbol 0.
NextCode(r, book) ==
  LET look(n)  == Refill(r, IF n < LookBits THEN LookBits ELSE n)
      fits     == {n \in 1 .. MaxBits : Matches(book, look(n), n) # {}}
      n        == CHOOSE n \in fits : \A k \in fits : n <= k
  IN  IF Len(look(1).bits) < LookBits THEN Taken(look(1), LookBits, 0)
      ELSE IF fits = {} THEN Taken(look(MaxBits), 0, 0)
      ELSE Taken(look(n), n, CHOOSE s \in Matches(book, look(n), n) : TRUE)

-----------------------------------------------------------------------------
(* The decoder.                                                            *)

DecoderInit ==
  /\ reading = "no" /\ tables = <<>> /\ raw = <<>> /\ stream = 1 /\ reservoir = <<>>
  /\ component = 0 /\ j = 0 /\ turns = 0 /\ goesTo = 0 /\ expects = 0 /\ got = <<>>

\* A later run has parsed the header of the file that was written.
OpenRecoded ==
  /\ phase = "flushed" /\ reading = "no"
  /\ reading' = "unit"
  /\ tables' = [t \in Tables |-> Codebook(Dht(t))]
  /\ raw' = Bytes(file)
  /\ goesTo' = RestartsToGo(image[workon])
  /\ UNCHANGED <<stream, reservoir, component, j, turns, expects, got, recoderVars>>

\* the coefficient behind that of a symbol: 64, and the unit ends, at the symbol 0
\* and where the zeros go beyond it
Behind(k, symbol) ==
  LET next == k + symbol \div 16
  IN  IF k = 0 THEN 1
      ELSE IF symbol = 0 THEN 64
      ELSE IF symbol % 16 = 0 THEN IF symbol = 240 THEN k + 16 ELSE k
      ELSE IF next >= 64 THEN 64
      ELSE next + 1

\* a magnitude follows
HasMagnitude(k, symbol) ==
  symbol % 16 # 0 /\ (k = 0 \/ k + symbol \div 16 < 64)

\* where the symbols of an MCU stand: the data unit, and the coefficient of it
Places(m) ==
  LET at[n \in 1 .. Len(m) + 1] ==
        IF n = 1 THEN [component |-> 0, j |-> 0]
        ELSE LET next == Behind(at[n - 1].j, m[n - 1].symbol)
             IN  IF next < 64 THEN [at[n - 1] EXCEPT !.j = next]
                 ELSE [component |-> at[n - 1].component + 1, j |-> 0]
  IN  at

\* An image is what this decoder read of the original: at least one MCU, of three whole
\* data units in which no zeros go beyond the last coefficient.
ASSUME UnitsAssumption ==
  \A i \in Images :
    /\ i.mcus # <<>>
    /\ \A m \in DOMAIN i.mcus :
         LET at == Places(i.mcus[m])
         IN  /\ at[Len(i.mcus[m]) + 1] = [component |-> 3, j |-> 0]
             /\ \A n \in DOMAIN i.mcus[m] :
                  LET u == i.mcus[m][n]
                  IN  /\ u.component = at[n].component
                      /\ u.class = IF at[n].j = 0 THEN "DC" ELSE "AC"
                      /\ u.bits # <<>> => HasMagnitude(at[n].j, u.symbol)

\* One turn of process_Huffman_data_unit: a symbol, and the bits behind it.
ReadCoefficient ==
  /\ reading = "unit" /\ j < 64
  /\ LET class == IF j = 0 THEN "DC" ELSE "AC"
         table == <<class, IF component = 0 THEN 0 ELSE 1>>
         c     == NextCode([at |-> stream, bits |-> reservoir], tables[table])
         n     == IF HasMagnitude(j, c.value) THEN c.value % 16 ELSE 0
         m     == Taken(Refill(c.rest, n), n, c.value)
     IN  /\ stream' = m.rest.at /\ reservoir' = m.rest.bits
         /\ reading' = IF c.lost \/ m.lost THEN "lost" ELSE reading
         /\ j' = Behind(j, c.value)
         /\ got' = Append(got, [component |-> component, class |-> class,
                                symbol |-> c.value, bits |-> m.bits])
  /\ UNCHANGED <<tables, raw, component, turns, goesTo, expects, recoderVars>>

\* decode_MCU_1x1_3planes
NextUnit ==
  /\ reading = "unit" /\ j >= 64 /\ component < 2
  /\ component' = component + 1
  /\ j' = 0
  /\ UNCHANGED <<reading, tables, raw, stream, reservoir, turns, goesTo, expects, got,
                 recoderVars>>

\* Faulty variant: the bytes that were read ahead are not given back.
NotGivenBack == stream

\* priv->stream -= nbits_in_reservoir / 8
GivenBack == stream - Len(reservoir) \div ByteBits

\* find_next_rst_marker: from this byte on, the next marker that is the expected one
\* or the end, where it stays.
FindMarker(from) ==
  LET marks == {i \in from .. Len(raw) - 1 :
                  raw[i] = Data(Ones) /\ raw[i + 1] \in {Rst(expects), End}}
      mark  == CHOOSE i \in marks : \A k \in marks : i <= k
  IN  IF marks = {} THEN reading' = "lost" /\ UNCHANGED <<stream, expects>>
      ELSE /\ reading' = IF turns' = Len(image[workon].mcus) THEN "done" ELSE reading
           /\ IF raw[mark + 1] = End THEN stream' = from /\ UNCHANGED expects
              ELSE stream' = mark + 2 /\ expects' = (expects + 1) % 8

\* The rest of a turn of the loops of tinyjpeg_decode, with resync.
NextMCU ==
  /\ reading = "unit" /\ j >= 64 /\ component = 2
  /\ component' = 0 /\ j' = 0
  /\ turns' = turns + 1
  /\ IF goesTo = 1
     THEN /\ reservoir' = <<>> /\ goesTo' = RestartsToGo(image[workon])
          /\ FindMarker(GivenBack)
     ELSE /\ goesTo' = IF goesTo > 0 THEN goesTo - 1 ELSE goesTo
          /\ reading' = IF turns' = Len(image[workon].mcus) THEN "done" ELSE reading
          /\ UNCHANGED <<stream, reservoir, expects>>
  /\ UNCHANGED <<tables, raw, got, recoderVars>>

CloseRecoded ==
  /\ reading \in {"done", "lost"}
  /\ reading' = "no" /\ tables' = <<>> /\ raw' = <<>> /\ stream' = 1
  /\ reservoir' = <<>> /\ turns' = 0 /\ goesTo' = 0 /\ expects' = 0 /\ got' = <<>>
  /\ component' = 0 /\ j' = 0

\* A file is read back before the model goes on to the next one.
RereadNext ==
  \/ RecoderNext /\ phase # "flushed" /\ UNCHANGED decoderVars
  \/ OpenRecoded \/ ReadCoefficient \/ NextUnit \/ NextMCU
  \/ NextImage /\ CloseRecoded

RereadInit == RecoderInit /\ DecoderInit

RereadSpec == RereadInit /\ [][RereadNext]_<<recoderVars, decoderVars>>

-----------------------------------------------------------------------------
(* Properties                                                              *)

\* The decoder of this program gets from a file it wrote, symbol by symbol, the
\* image the file was made from: it never runs out of bytes, though it reads ahead
\* beyond restart markers and the end, and it meets every marker in turn.
Delivered ==
  /\ reading # "lost"
  /\ reading # "no" => IsPrefix(got, FlattenSeq(image[workon].mcus))
  /\ reading = "done" =>
       /\ got = FlattenSeq(image[workon].mcus)
       /\ \A i \in stream .. Len(raw) : raw[i] \notin {Rst(n) : n \in 0 .. 7}

\* From the number of codes of each length and the order of the symbols, which is all
\* Write_Huffman_Table keeps, build_huffman_table makes the codes of cal_new_huffman
\* again: both count over lengths without codes in the same way.
TablesRebuilt == reading # "no" => tables = code

\* cal_new_huffman hands out codes a decoder can tell apart: no code is another
\* one's beginning, and none is all ones, so padding is not taken for a code.
PrefixFree ==
  phase = "write" =>
    \A t \in Tables : \A s \in DOMAIN code[t] :
      /\ \E i \in DOMAIN code[t][s] : code[t][s][i] = 0
      /\ \A r \in DOMAIN code[t] \ {s} : ~IsPrefix(code[t][r], code[t][s])
=============================================================================
