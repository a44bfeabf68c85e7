--------------------------- MODULE Directory_proofs ---------------------------
(***************************************************************************)
(* What the recoder promises of a directory, for any pictures, layouts of  *)
(* headers, number of runs and crashes in them: the tables of a run serve  *)
(* every file it comes to; and where the codes fit the length of a DHT     *)
(* segment, the program reads its own files and repairs, run by run, what  *)
(* a crash left.                                                           *)
(***************************************************************************)
EXTENDS Directory, FiniteSetTheorems, SequenceTheorems, TLAPS

ScanItem ==
  [marker : {"scan"}, picture : Names \cup {Noise}, met : SUBSET Codes,
   marked : BOOLEAN, whole : BOOLEAN]

DhtItem ==
  [marker : {"DHT"}, codes : SUBSET Codes, announced : Nat, bytes : Nat]

\* f is a file whose first DHT segment is at d and whose only scan is at p
Laid(f, d, p) ==
  /\ f \in Seq(Item)
  /\ d \in 1 .. Len(f) /\ f[d].marker = "DHT"
  /\ \A i \in 1 .. d - 1 : f[i].marker # "DHT"
  /\ p \in Len(f) - 1 .. Len(f) /\ d < p /\ f[p].marker = "scan"
  /\ \A i \in 1 .. p - 1 : f[i].marker \notin {"scan", "EOI"}
  /\ p < Len(f) => f[Len(f)] = EOI
  /\ \E i \in 1 .. p - 1 : f[i].marker = "SOS"

\* a file of the directory: it has such a layout, or nothing at all
Shaped(f) == f = <<>> \/ \E d, p \in DOMAIN f : Laid(f, d, p)

\* a file that holds all of one of the pictures
Good(f, pictures) ==
  \E d, p \in DOMAIN f :
    /\ Laid(f, d, p) /\ p < Len(f)
    /\ \E i \in 1 .. Len(f) : f[i].marker = "SOF"
    /\ \A i \in 1 .. Len(f) : f[i].marker \in {"SOF", "DRI"} => i < d
    /\ \A i \in 1 .. Len(f) : f[i].marker = "SOF" =>
         f[i].first = 0 /\ ~f[i].subsampled
    /\ \A i \in 1 .. Len(f) : f[i].marker = "SOS" => f[i].first = 0
    /\ \A i \in 1 .. Len(f) : f[i].marker = "DHT" => f[i].announced = f[i].bytes
    /\ f[p].whole
    /\ f[p].picture \in pictures
    /\ Coherent(f)

-----------------------------------------------------------------------------
(* Lemmas about files.                                                     *)

LEMMA ItemsByMarker ==
  ASSUME NEW g \in Item
  PROVE  /\ g.marker = "scan" => g \in ScanItem
         /\ g.marker = "DHT" => g \in DhtItem
         /\ g.marker = "EOI" => g = EOI
         /\ ScanItem \subseteq Item /\ DhtItem \subseteq Item /\ EOI \in Item
BY DEF Item, ScanItem, DhtItem, EOI

\* In a file with a layout Of finds the scan.
LEMMA TheScan ==
  ASSUME NEW f, NEW d, NEW p, Laid(f, d, p)
  PROVE  /\ Has(f, "scan") /\ Of(f, "scan") = f[p] /\ f[p] \in ScanItem
         /\ Has(f, "SOS") /\ Has(f, "DHT")
<1>1. f \in Seq(Item) /\ p \in 1 .. Len(f) /\ d \in 1 .. Len(f) /\ f[p].marker = "scan"
  BY DEF Laid
<1>2. \A i \in DOMAIN f : f[i].marker = "scan" => i = p
  BY <1>1 DEF Laid, EOI
<1>3. (CHOOSE i \in DOMAIN f : f[i].marker = "scan") = p
  BY <1>1, <1>2
<1>4. f[p] \in ScanItem
  BY <1>1, ItemsByMarker
<1>5. Has(f, "SOS")
  BY <1>1 DEF Laid, Has
<1>6. Has(f, "DHT")
  BY <1>1 DEF Laid, Has
<1>7. Has(f, "scan")
  BY <1>1 DEF Has
<1>8. Of(f, "scan") = f[p]
  BY <1>3 DEF Of
<1> QED
  BY <1>4, <1>5, <1>6, <1>7, <1>8

LEMMA TheHead ==
  ASSUME NEW f, NEW d, NEW p, Laid(f, d, p)
  PROVE  CopiedHead(f) = SubSeq(f, 1, d - 1)
<1>1. \A i \in DOMAIN f :
        f[i].marker = "DHT" /\ (\A j \in 1 .. i - 1 : f[j].marker # "DHT") => i = d
  BY DEF Laid
<1>2. d \in DOMAIN f /\ f[d].marker = "DHT" /\ \A j \in 1 .. d - 1 : f[j].marker # "DHT"
  BY DEF Laid
<1>3. (CHOOSE i \in DOMAIN f :
         f[i].marker = "DHT" /\ \A j \in 1 .. i - 1 : f[j].marker # "DHT") = d
  BY <1>1, <1>2
<1> QED
  BY <1>3 DEF CopiedHead

LEMMA DhtTyped ==
  ASSUME found \subseteq Codes
  PROVE  /\ DhtSegment \in DhtItem /\ DhtSegment.codes = found
         /\ DhtSegment.marker = "DHT"
         /\ HeadBytes + Cardinality(Codes) < ByteValues =>
              DhtSegment.announced = DhtSegment.bytes
<1>1. IsFiniteSet(found) /\ Cardinality(found) \in Nat
      /\ Cardinality(found) <= Cardinality(Codes) /\ Cardinality(Codes) \in Nat
  BY BytesAssumption, FS_Subset, FS_CardinalityType
<1> DEFINE n == HeadBytes + Cardinality(found)
<1>2. n \in Nat /\ n % ByteValues \in Nat
  BY <1>1, BytesAssumption
<1>3. HeadBytes + Cardinality(Codes) < ByteValues => n % ByteValues = n
  BY <1>1, <1>2, BytesAssumption
<1> HIDE DEF n
<1>4. DhtSegment = [marker |-> "DHT", codes |-> found, announced |-> n % ByteValues,
                    bytes |-> n]
  BY DEF DhtSegment, n
<1> QED
  BY <1>2, <1>3, <1>4 DEF DhtItem

\* What write_head_data, Write_Huffman_Table and Write_New_Body make of a file
LEMMA NewFile ==
  ASSUME NEW f, NEW d, NEW p, Laid(f, d, p), NEW s \in ScanItem, found \subseteq Codes,
         NEW g, g = Recoded(f, s)
  PROVE  /\ g \in Seq(Item) /\ Len(g) = d + 3
         /\ \A i \in 1 .. d - 1 : g[i] = f[i]
         /\ g[d] = DhtSegment /\ g[d + 1] = ScanSegment
         /\ g[d + 2] = [s EXCEPT !.marked = Has(f, "DRI")] /\ g[d + 3] = EOI
<1> DEFINE h == SubSeq(f, 1, d - 1)
           t == [s EXCEPT !.marked = Has(f, "DRI")]
           e == <<DhtSegment, ScanSegment, t, EOI>>
<1>1. f \in Seq(Item) /\ d \in 1 .. Len(f)
  BY DEF Laid
<1>2. h \in Seq(Item) /\ Len(h) = d - 1 /\ \A i \in 1 .. d - 1 : h[i] = f[i]
  BY <1>1
<1>3. t \in ScanItem
  BY DEF ScanItem, Has
<1>4. t \in Item /\ DhtSegment \in Item /\ ScanSegment \in Item /\ EOI \in Item
  BY <1>3, DhtTyped, ItemsByMarker DEF ScanSegment, Item, EOI, ScanItem, DhtItem
<1>5. g = h \o e
  BY TheHead DEF Recoded
<1> HIDE DEF h, t
<1>6. e \in Seq(Item) /\ Len(e) = 4 /\ e[1] = DhtSegment /\ e[2] = ScanSegment
      /\ e[3] = t /\ e[4] = EOI
  BY <1>4
<1> HIDE DEF e
<1>7. /\ g \in Seq(Item) /\ Len(g) = d + 3
      /\ \A i \in 1 .. d - 1 : g[i] = h[i]
      /\ \A i \in d .. d + 3 : g[i] = e[i - d + 1]
  <2>1. g \in Seq(Item) /\ Len(g) = Len(h) + Len(e)
    BY <1>2, <1>5, <1>6, ConcatProperties
  <2>2. \A i \in 1 .. Len(h) + Len(e) :
          g[i] = IF i <= Len(h) THEN h[i] ELSE e[i - Len(h)]
    BY <1>2, <1>5, <1>6, ConcatProperties
  <2>3. \A i \in d .. d + 3 : i \in 1 .. Len(h) + Len(e) /\ ~(i <= Len(h))
                            /\ i - Len(h) = i - d + 1
    BY <1>1, <1>2, <1>6
  <2>4. \A i \in 1 .. d - 1 : i \in 1 .. Len(h) + Len(e) /\ i <= Len(h)
    BY <1>1, <1>2, <1>6
  <2>5. Len(h) + Len(e) = d + 3
    BY <1>1, <1>2, <1>6
  <2> QED
    BY <2>1, <2>2, <2>3, <2>4, <2>5
<1>8. g[d] = e[1] /\ g[d + 1] = e[2] /\ g[d + 2] = e[3] /\ g[d + 3] = e[4]
  <2>1. d \in d .. d + 3 /\ d + 1 \in d .. d + 3 /\ d + 2 \in d .. d + 3
        /\ d + 3 \in d .. d + 3
    BY <1>1
  <2>2. d - d + 1 = 1 /\ (d + 1) - d + 1 = 2 /\ (d + 2) - d + 1 = 3 /\ (d + 3) - d + 1 = 4
    BY <1>1
  <2> QED
    BY <1>7, <2>1, <2>2
<1> QED
  BY <1>2, <1>6, <1>7, <1>8 DEF t

LEMMA NewFileLaid ==
  ASSUME NEW f, NEW d, NEW p, Laid(f, d, p), NEW s \in ScanItem, found \subseteq Codes,
         NEW g, g = Recoded(f, s)
  PROVE  Laid(g, d, d + 2)
<1>1. /\ g \in Seq(Item) /\ Len(g) = d + 3
      /\ \A i \in 1 .. d - 1 : g[i] = f[i]
      /\ g[d] = DhtSegment /\ g[d + 1] = ScanSegment
      /\ g[d + 2] = [s EXCEPT !.marked = Has(f, "DRI")] /\ g[d + 3] = EOI
  BY NewFile
<1>2. d \in 1 .. Len(f) /\ d < p /\ p \in 1 .. Len(f)
      /\ \A i \in 1 .. d - 1 : f[i].marker \notin {"scan", "EOI", "DHT"}
  BY DEF Laid
<1>3. g[d].marker = "DHT" /\ g[d + 1].marker = "SOS" /\ g[d + 2].marker = "scan"
  BY <1>1, DhtTyped DEF ScanSegment, ScanItem
<1>4. \A i \in 1 .. d + 1 : i \in 1 .. d - 1 \/ i = d \/ i = d + 1
  BY <1>2
<1>5. \A i \in 1 .. d + 1 : g[i].marker \notin {"scan", "EOI"}
  BY <1>1, <1>2, <1>3, <1>4
<1>6. d \in 1 .. Len(g) /\ d + 2 \in Len(g) - 1 .. Len(g) /\ d < d + 2
      /\ d + 1 \in 1 .. (d + 2) - 1 /\ Len(g) = d + 3 /\ (d + 2) - 1 = d + 1
  BY <1>1, <1>2
<1>7. \A i \in 1 .. d - 1 : g[i].marker # "DHT"
  BY <1>1, <1>2
<1> QED
  BY <1>1, <1>3, <1>5, <1>6, <1>7 DEF Laid

\* and what is left of it by a process that ended in the scan
LEMMA CutFileLaid ==
  ASSUME NEW f, NEW d, NEW p, Laid(f, d, p), NEW s \in ScanItem, found \subseteq Codes,
         NEW g, g = Recoded(f, s), NEW left \in CutInScan(g)
  PROVE  /\ Laid(left, d, d + 2) /\ Len(left) = d + 2
         /\ left[d + 2].met \subseteq found
<1>1. Laid(g, d, d + 2) /\ Len(g) = d + 3
  BY NewFileLaid, NewFile
<1>2. g[d + 2] \in ScanItem /\ Of(g, "scan") = g[d + 2]
  BY <1>1, TheScan
<1> DEFINE h == SubSeq(g, 1, Len(g) - 2)
<1>3. PICK met \in SUBSET (g[d + 2].met \cap found) :
        left = Append(h, Scan(g[d + 2].picture, met, g[d + 2].marked, FALSE))
  BY <1>2 DEF CutInScan
<1> DEFINE t == Scan(g[d + 2].picture, met, g[d + 2].marked, FALSE)
<1>4. t \in ScanItem /\ t \in Item /\ t.marker = "scan" /\ t.met \subseteq found
  <2>1. t \in ScanItem
    BY <1>2, <1>3 DEF Scan, ScanItem
  <2> QED
    BY <2>1, ItemsByMarker DEF Scan, ScanItem, Item
<1>5. g \in Seq(Item) /\ d \in 1 .. Len(g) /\ left = Append(h, t)
  BY <1>1, <1>3 DEF Laid
<1>6. h \in Seq(Item) /\ Len(h) = d + 1 /\ \A i \in 1 .. d + 1 : h[i] = g[i]
  BY <1>1, <1>5
<1> HIDE DEF h, t
<1>7. /\ left \in Seq(Item) /\ Len(left) = d + 2 /\ left[d + 2] = t
      /\ \A i \in 1 .. d + 1 : left[i] = g[i]
  BY <1>4, <1>5, <1>6
<1> QED
  BY <1>1, <1>4, <1>5, <1>7 DEF Laid

-----------------------------------------------------------------------------
(* Lemmas about files that hold a picture.                                 *)

Fits == HeadBytes + Cardinality(Codes) < ByteValues

LEMMA OfMarker ==
  ASSUME NEW f, NEW m, Has(f, m)
  PROVE  \E i \in DOMAIN f : Of(f, m) = f[i] /\ f[i].marker = m
BY DEF Has, Of

LEMMA GoodReads ==
  ASSUME NEW f, NEW P, Good(f, P)
  PROVE  /\ f \in Seq(Item) /\ Shaped(f) /\ Complete(f) /\ Countable(f) /\ Coherent(f)
         /\ Has(f, "SOF") /\ Readings(f) = {Of(f, "scan")}
         /\ Of(f, "scan") \in ScanItem /\ Of(f, "scan").whole
         /\ Of(f, "scan").picture \in P
         /\ Of(f, "SOS").first = Of(f, "SOF").first
<1>1. PICK d \in DOMAIN f, p \in DOMAIN f :
        /\ Laid(f, d, p) /\ p < Len(f)
        /\ \E i \in 1 .. Len(f) : f[i].marker = "SOF"
        /\ \A i \in 1 .. Len(f) : f[i].marker = "SOF" =>
             f[i].first = 0 /\ ~f[i].subsampled
        /\ \A i \in 1 .. Len(f) : f[i].marker = "SOS" => f[i].first = 0
        /\ \A i \in 1 .. Len(f) : f[i].marker = "DHT" => f[i].announced = f[i].bytes
        /\ f[p].whole
        /\ f[p].picture \in P
        /\ Coherent(f)
  BY DEF Good
<1>2. f \in Seq(Item) /\ DOMAIN f = 1 .. Len(f) /\ Len(f) \in Nat
  BY <1>1 DEF Laid
<1>3. Of(f, "scan") = f[p] /\ Of(f, "scan") \in ScanItem /\ Has(f, "SOS")
  BY <1>1, TheScan
<1>4. Shaped(f)
  BY <1>1, <1>2 DEF Shaped
<1>5. Complete(f)
  BY <1>1, <1>2 DEF Laid, Complete, Last
<1>6. Has(f, "SOF")
  BY <1>1, <1>2 DEF Has
<1>7. Of(f, "SOF").first = 0 /\ ~Of(f, "SOF").subsampled
  BY <1>1, <1>2, <1>6, OfMarker
<1>8. Of(f, "SOS").first = 0
  BY <1>1, <1>2, <1>3, OfMarker
<1>9. ReadsHeader(f)
  BY <1>1, <1>2, <1>3 DEF ReadsHeader
<1>10. Countable(f)
  BY <1>6, <1>7, <1>9 DEF Countable
<1>11. Readings(f) = {Of(f, "scan")}
  BY <1>1, <1>6 DEF Readings
<1> QED
  BY <1>1, <1>2, <1>3, <1>4, <1>5, <1>6, <1>7, <1>8, <1>10, <1>11

\* The places of a new file whose header has been copied up to d
LEMMA Places ==
  ASSUME NEW l \in Nat, NEW d \in 1 .. l
  PROVE  /\ \A i \in 1 .. d + 3 :
              \/ i \in 1 .. d - 1 /\ i \in 1 .. l /\ i < d
              \/ i = d \/ i = d + 1 \/ i = d + 2 \/ i = d + 3
         /\ \A i \in 1 .. l : i < d => i \in 1 .. d - 1 /\ i \in 1 .. d + 3
         /\ {d, d + 1, d + 2, d + 3} \subseteq 1 .. d + 3
         /\ d + 2 < d + 3
OBVIOUS

\* A picture recoded with tables that serve it is a picture again.
LEMMA GoodRecoded ==
  ASSUME NEW f, NEW P, Good(f, P), Fits, found \subseteq Codes,
         NEW s, s = Of(f, "scan"), s.met \subseteq found,
         NEW g, g = Recoded(f, s)
  PROVE  Good(g, P)
<1>1. PICK d \in DOMAIN f, p \in DOMAIN f :
        /\ Laid(f, d, p) /\ p < Len(f)
        /\ \E i \in 1 .. Len(f) : f[i].marker = "SOF"
        /\ \A i \in 1 .. Len(f) : f[i].marker \in {"SOF", "DRI"} => i < d
        /\ \A i \in 1 .. Len(f) : f[i].marker = "SOF" =>
             f[i].first = 0 /\ ~f[i].subsampled
        /\ \A i \in 1 .. Len(f) : f[i].marker = "SOS" => f[i].first = 0
        /\ \A i \in 1 .. Len(f) : f[i].marker = "DHT" => f[i].announced = f[i].bytes
        /\ f[p].whole
        /\ f[p].picture \in P
        /\ Coherent(f)
  BY DEF Good
<1>2. s \in ScanItem /\ s = f[p]
  BY <1>1, TheScan
<1>3. /\ g \in Seq(Item) /\ Len(g) = d + 3
      /\ \A i \in 1 .. d - 1 : g[i] = f[i]
      /\ g[d] = DhtSegment /\ g[d + 1] = ScanSegment
      /\ g[d + 2] = [s EXCEPT !.marked = Has(f, "DRI")] /\ g[d + 3] = EOI
  <2>1. Laid(f, d, p)
    BY <1>1
  <2> QED
    BY <2>1, <1>2, NewFile
<1>4. Laid(g, d, d + 2)
  <2>1. Laid(f, d, p)
    BY <1>1
  <2> QED
    BY <2>1, <1>2, NewFileLaid
<1>5. d \in 1 .. Len(f) /\ DOMAIN g = 1 .. Len(g) /\ DOMAIN f = 1 .. Len(f) /\ Len(f) \in Nat
      /\ d \in DOMAIN g /\ d + 2 \in DOMAIN g /\ d + 2 < Len(g) /\ Len(g) = d + 3 /\ d \in Nat
  <2>1. f \in Seq(Item) /\ d \in 1 .. Len(f)
    BY <1>1 DEF Laid
  <2>2. g \in Seq(Item) /\ Len(g) = d + 3
    BY <1>3
  <2> QED
    BY <2>1, <2>2
<1>6. /\ g[d].marker = "DHT" /\ g[d].announced = g[d].bytes /\ g[d].codes = found
      /\ g[d + 1].marker = "SOS" /\ g[d + 1].first = 0
      /\ g[d + 2].marker = "scan" /\ g[d + 2].met = s.met
      /\ g[d + 2].marked = Has(f, "DRI") /\ g[d + 2].whole = s.whole
      /\ g[d + 2].picture = s.picture
      /\ g[d + 3].marker = "EOI"
  BY <1>2, <1>3, DhtTyped DEF Fits, ScanSegment, ScanItem, EOI
<1>7. \A i \in 1 .. Len(g) :
        \/ i \in 1 .. d - 1 /\ i \in 1 .. Len(f) /\ g[i] = f[i] /\ i < d
        \/ i = d \/ i = d + 1 \/ i = d + 2 \/ i = d + 3
  <2>1. \A i \in 1 .. Len(g) :
          \/ i \in 1 .. d - 1 /\ i \in 1 .. Len(f) /\ i < d
          \/ i = d \/ i = d + 1 \/ i = d + 2 \/ i = d + 3
    BY <1>5, Places
  <2>2. \A i \in 1 .. d - 1 : g[i] = f[i]
    BY <1>3
  <2> QED
    BY <2>1, <2>2
<1>8. \A i \in 1 .. Len(f) : i < d => i \in 1 .. d - 1 /\ i \in 1 .. Len(g)
  BY <1>5, Places
<1>9. Has(g, "DRI") <=> Has(f, "DRI")
  <2>1. ASSUME NEW i \in DOMAIN f, f[i].marker = "DRI"
        PROVE  Has(g, "DRI")
    BY <1>1, <1>3, <1>5, <1>8, <2>1 DEF Has
  <2>2. ASSUME NEW i \in DOMAIN g, g[i].marker = "DRI"
        PROVE  Has(f, "DRI")
    <3>1. i \in 1 .. Len(g)
      BY <1>5, <2>2
    <3>2. i # d /\ i # d + 1 /\ i # d + 2 /\ i # d + 3
      BY <1>6, <2>2
    <3>3. i \in 1 .. Len(f) /\ g[i] = f[i]
      BY <1>7, <3>1, <3>2
    <3> QED
      BY <1>5, <2>2, <3>3 DEF Has
  <2> QED
    BY <2>1, <2>2 DEF Has
<1>10. Of(g, "scan") = g[d + 2]
  BY <1>4, TheScan
<1>11. found \subseteq TablesOf(g)
  BY <1>5, <1>6 DEF TablesOf
<1>12. Coherent(g)
  BY <1>6, <1>9, <1>10, <1>11 DEF Coherent
<1>13. \E i \in 1 .. Len(g) : g[i].marker = "SOF"
  BY <1>1, <1>3, <1>8
<1>14. \A i \in 1 .. Len(g) : g[i].marker \in {"SOF", "DRI"} => i < d
  BY <1>6, <1>7
<1>15. ASSUME NEW i \in 1 .. Len(g), g[i].marker = "SOF"
       PROVE  g[i].first = 0 /\ ~g[i].subsampled
  <2>1. CASE i \in 1 .. Len(f) /\ g[i] = f[i]
    BY <1>1, <1>15, <2>1
  <2>2. CASE i = d \/ i = d + 1 \/ i = d + 2 \/ i = d + 3
    BY <1>6, <1>15, <2>2
  <2> QED
    BY <1>7, <2>1, <2>2
<1>16. ASSUME NEW i \in 1 .. Len(g), g[i].marker = "SOS"
       PROVE  g[i].first = 0
  <2>1. CASE i \in 1 .. Len(f) /\ g[i] = f[i]
    BY <1>1, <1>16, <2>1
  <2>2. CASE i = d \/ i = d + 1 \/ i = d + 2 \/ i = d + 3
    BY <1>6, <1>16, <2>2
  <2> QED
    BY <1>7, <2>1, <2>2
<1>17. ASSUME NEW i \in 1 .. Len(g), g[i].marker = "DHT"
       PROVE  g[i].announced = g[i].bytes
  <2>1. CASE i \in 1 .. Len(f) /\ g[i] = f[i]
    BY <1>1, <1>17, <2>1
  <2>2. CASE i = d \/ i = d + 1 \/ i = d + 2 \/ i = d + 3
    BY <1>6, <1>17, <2>2
  <2> QED
    BY <1>7, <2>1, <2>2
<1>18. Laid(g, d, d + 2) /\ d + 2 < Len(g) /\ g[d + 2].whole
       /\ g[d + 2].picture \in P
  BY <1>1, <1>2, <1>4, <1>5, <1>6
<1> QED
  BY <1>5, <1>12, <1>13, <1>14, <1>15, <1>16, <1>17, <1>18 DEF Good

\* The user's files
LEMMA OriginalFile ==
  ASSUME NEW n \in Names, NEW s \in Shapes, NEW f, f = Original(n, s), NEW P
  PROVE  /\ f \in Seq(Item) /\ Shaped(f)
         /\ Supported(s) /\ n \in P => Good(f, P)
<1> DEFINE h == [i \in DOMAIN s.head |-> Segment(s.head[i], s)]
           t == Scan(n, s.met, s.marked, TRUE)
           e == <<t, EOI>>
           l == Len(s.head)
           M == {"APP", "DQT", "SOF", "DRI", "DHT", "SOS"}
<1>0. /\ s.head \in Seq(M) /\ s.head # <<>> /\ Last(s.head) = "SOS"
      /\ s.met \subseteq s.codes /\ s.codes \subseteq Codes
      /\ s.marked \in BOOLEAN /\ (s.marked <=> "DRI" \in Range(s.head))
      /\ s.subsampled \in BOOLEAN /\ s.first \in {0, 1}
  BY ShapesAssumption
<1>1. /\ s.head \in Seq({"APP", "DQT", "SOF", "DRI", "DHT", "SOS"})
      /\ s.head # <<>> /\ s.head[l] = "SOS"
      /\ s.met \subseteq s.codes /\ s.codes \subseteq Codes
      /\ s.subsampled \in BOOLEAN /\ s.first \in {0, 1}
      /\ s.marked \in BOOLEAN
      /\ s.marked <=> \E i \in DOMAIN s.head : s.head[i] = "DRI"
  <2>0. s.marked \in BOOLEAN /\ (s.marked <=> "DRI" \in Range(s.head))
    BY <1>0
  <2>1. "DRI" \in Range(s.head) <=> \E i \in DOMAIN s.head : s.head[i] = "DRI"
    BY DEF Range
  <2>2. s.head[l] = "SOS"
    BY <1>0 DEF Last
  <2> HIDE DEF l
  <2> QED
    BY <1>0, <2>0, <2>1, <2>2
<1>2. PICK d \in DOMAIN s.head :
        s.head[d] = "DHT" /\ \A i \in 1 .. d - 1 : s.head[i] # "DHT"
  BY ShapesAssumption
<1>3. l \in Nat /\ l >= 1 /\ DOMAIN s.head = 1 .. l /\ d \in 1 .. l
  BY <1>1, <1>2
<1>4. \A i \in 1 .. l : s.head[i] \in {"APP", "DQT", "SOF", "DRI", "DHT", "SOS"}
  BY <1>1, <1>3
<1>5. \A i \in 1 .. l : h[i] \in Item /\ h[i].marker = s.head[i]
  BY <1>1, <1>3, <1>4, BytesAssumption DEF Segment, Item
<1>6. h \in Seq(Item) /\ Len(h) = l
  <2>1. DOMAIN h = 1 .. l /\ h \in [1 .. l -> Item]
    BY <1>3, <1>5
  <2> QED
    BY <1>3, <2>1
<1>7. t \in Item /\ EOI \in Item
  <2>1. t \in ScanItem
    BY <1>1 DEF Scan, ScanItem
  <2> QED
    BY <2>1 DEF ScanItem, Item, EOI
<1>8. e \in Seq(Item) /\ Len(e) = 2 /\ e[1] = t /\ e[2] = EOI
  <2> HIDE DEF t
  <2> QED
    BY <1>7
<1>9. f = h \o e
  BY DEF Original
<1> HIDE DEF e, l
<1>10. /\ f \in Seq(Item) /\ Len(f) = l + 2
       /\ \A i \in 1 .. l : f[i] = h[i]
       /\ f[l + 1] = t /\ f[l + 2] = EOI
  <2> HIDE DEF h, t
  <2>1. f \in Seq(Item) /\ Len(f) = Len(h) + Len(e)
    BY <1>6, <1>8, <1>9, ConcatProperties
  <2>2. \A i \in 1 .. Len(h) + Len(e) :
          f[i] = IF i <= Len(h) THEN h[i] ELSE e[i - Len(h)]
    BY <1>6, <1>8, <1>9, ConcatProperties
  <2>3. l \in Nat /\ Len(h) = l /\ Len(e) = 2
    BY <1>3, <1>6, <1>8
  <2>4. \A i \in 1 .. l : f[i] = h[i]
    BY <2>2, <2>3
  <2>5. f[l + 1] = e[1] /\ f[l + 2] = e[2]
    <3>1. /\ l + 1 \in 1 .. l + 2 /\ ~(l + 1 <= l) /\ (l + 1) - l = 1
          /\ l + 2 \in 1 .. l + 2 /\ ~(l + 2 <= l) /\ (l + 2) - l = 2
      BY <2>3
    <3> QED
      BY <2>2, <2>3, <3>1
  <2>6. f \in Seq(Item) /\ Len(f) = l + 2
    BY <2>1, <2>3
  <2> QED
    BY <1>8, <2>4, <2>5, <2>6
<1>11. \A i \in 1 .. l : f[i] = Segment(s.head[i], s) /\ f[i].marker = s.head[i]
  BY <1>3, <1>5, <1>10
<1>12. t.marker = "scan" /\ t.met = s.met /\ t.marked = s.marked /\ t.whole = TRUE
       /\ t.picture = n
  BY DEF Scan
<1> HIDE DEF h, t
<1>13. Laid(f, d, l + 1)
  <2>1. \A i \in 1 .. l : f[i].marker \notin {"scan", "EOI"}
    BY <1>4, <1>11
  <2>2. \E i \in 1 .. l : f[i].marker = "SOS"
    BY <1>1, <1>3, <1>11 DEF l
  <2>3. l + 1 \in Len(f) - 1 .. Len(f) /\ d < l + 1 /\ (l + 1) - 1 = l /\ Len(f) = l + 2
        /\ d \in 1 .. Len(f)
    BY <1>3, <1>10
  <2>4. f[d].marker = "DHT" /\ \A i \in 1 .. d - 1 : f[i].marker # "DHT"
    BY <1>2, <1>3, <1>11
  <2> QED
    BY <1>10, <1>12, <2>1, <2>2, <2>3, <2>4 DEF Laid
<1>14. DOMAIN f = 1 .. l + 2 /\ d \in DOMAIN f /\ l + 1 \in DOMAIN f /\ Len(f) - 1 = l + 1
  BY <1>3, <1>10
<1>15. Shaped(f)
  BY <1>13, <1>14 DEF Shaped
<1>16. ASSUME Supported(s), n \in P
       PROVE  Good(f, P)
  <2>1. /\ ~s.subsampled /\ s.first = 0
        /\ \E i \in 1 .. l : s.head[i] = "SOF"
        /\ \A i, j \in 1 .. l :
             s.head[i] \in {"SOF", "DRI"} /\ s.head[j] = "DHT" => i < j
    BY <1>3, <1>16 DEF Supported, Range
  <2>2. \A i \in 1 .. Len(f) : i \in 1 .. l \/ i = l + 1 \/ i = l + 2
    BY <1>3, <1>10
  <2>3. f[l + 2].marker = "EOI" /\ f[l + 1].marker = "scan"
    BY <1>10, <1>12 DEF EOI
  <2>4. \E i \in 1 .. Len(f) : f[i].marker = "SOF"
    BY <1>3, <1>10, <1>11, <2>1
  <2>5. \A i \in 1 .. Len(f) : f[i].marker \in {"SOF", "DRI"} => i < d
    BY <1>2, <1>3, <1>11, <2>1, <2>2, <2>3
  <2>6. ASSUME NEW i \in 1 .. Len(f), f[i].marker = "SOF"
        PROVE  f[i].first = 0 /\ ~f[i].subsampled
    <3>1. i \in 1 .. l
      BY <2>2, <2>3, <2>6
    <3>2. f[i] = Segment("SOF", s)
      BY <1>11, <2>6, <3>1
    <3> QED
      BY <2>1, <3>2 DEF Segment
  <2>7. ASSUME NEW i \in 1 .. Len(f), f[i].marker = "SOS"
        PROVE  f[i].first = 0
    <3>1. i \in 1 .. l
      BY <2>2, <2>3, <2>7
    <3>2. f[i] = Segment("SOS", s)
      BY <1>11, <2>7, <3>1
    <3> QED
      BY <2>1, <3>2 DEF Segment
  <2>8. ASSUME NEW i \in 1 .. Len(f), f[i].marker = "DHT"
        PROVE  f[i].announced = f[i].bytes
    <3>1. i \in 1 .. l
      BY <2>2, <2>3, <2>8
    <3>2. f[i] = Segment("DHT", s)
      BY <1>11, <2>8, <3>1
    <3> QED
      BY <2>1, <3>2 DEF Segment
  <2>9. Of(f, "scan") = t
    BY <1>10, <1>13, TheScan
  <2>10. s.codes \subseteq TablesOf(f)
    <3>1. f[d] = Segment("DHT", s) /\ f[d].marker = "DHT" /\ d \in DOMAIN f
      BY <1>2, <1>3, <1>11, <1>14
    <3>2. f[d].codes = s.codes
      BY <3>1 DEF Segment
    <3> QED
      BY <3>1, <3>2 DEF TablesOf
  <2>11. Has(f, "DRI") <=> \E i \in 1 .. l : s.head[i] = "DRI"
    <3>1. ASSUME NEW i \in DOMAIN f, f[i].marker = "DRI"
          PROVE  \E k \in 1 .. l : s.head[k] = "DRI"
      <4>1. i \in 1 .. l
        BY <1>10, <1>14, <2>2, <2>3, <3>1
      <4> QED
        BY <1>11, <3>1, <4>1
    <3>2. ASSUME NEW i \in 1 .. l, s.head[i] = "DRI"
          PROVE  Has(f, "DRI")
      <4>1. f[i].marker = "DRI"
        BY <1>11, <3>2
      <4>2. i \in DOMAIN f
        BY <1>3, <1>14
      <4> QED
        BY <4>1, <4>2 DEF Has
    <3> QED
      BY <3>1, <3>2 DEF Has
  <2>12. Coherent(f)
    BY <1>1, <1>3, <1>12, <2>9, <2>10, <2>11 DEF Coherent
  <2> QED
    BY <1>10, <1>12, <1>13, <1>14, <1>16, <2>4, <2>5, <2>6, <2>7, <2>8, <2>12 DEF Good
<1> QED
  BY <1>10, <1>15, <1>16

-----------------------------------------------------------------------------
(* What the decoder makes of the files, and the second pass of them.       *)

Decodable(f) == Has(f, "SOF") /\ Has(f, "scan") /\ Coherent(f)

LEMMA TablesTyped ==
  ASSUME NEW f \in Seq(Item)
  PROVE  TablesOf(f) \subseteq Codes
<1>1. \A i \in DOMAIN f : f[i] \in Item
  OBVIOUS
<1>2. \A i \in DOMAIN f : f[i].marker = "DHT" => f[i].codes \subseteq Codes
  BY <1>1, ItemsByMarker DEF DhtItem
<1> QED
  BY <1>2 DEF TablesOf

LEMMA ReadingsTyped ==
  ASSUME NEW f, Shaped(f), ReadsHeader(f), NEW s \in Readings(f)
  PROVE  s \in ScanItem /\ \E d, p \in DOMAIN f : Laid(f, d, p)
<1>1. f # <<>>
  BY DEF ReadsHeader, Has
<1>2. PICK d \in DOMAIN f, p \in DOMAIN f : Laid(f, d, p)
  BY <1>1 DEF Shaped
<1>3. f \in Seq(Item) /\ Of(f, "scan") \in ScanItem
  BY <1>2, TheScan DEF Laid
<1>4. TablesOf(f) \subseteq Codes
  BY <1>3, TablesTyped
<1>5. Has(f, "DRI") \in BOOLEAN
  BY DEF Has
<1>6. \A met \in SUBSET Codes : Scan(Noise, met, Has(f, "DRI"), FALSE) \in ScanItem
  BY <1>5 DEF Scan, ScanItem
<1>7. s \in ScanItem
  BY <1>3, <1>4, <1>6 DEF Readings
<1> QED
  BY <1>2, <1>7

LEMMA WrittenFile ==
  ASSUME NEW f, Shaped(f), ReadsHeader(f), NEW s \in Readings(f), found \subseteq Codes,
         NEW g, g = Recoded(f, s)
  PROVE  /\ g \in Seq(Item) /\ Shaped(g) /\ Of(g, "scan").met = s.met
         /\ \A left \in {<<>>} \cup CutInScan(g) : left \in Seq(Item) /\ Shaped(left)
<1>1. PICK d \in DOMAIN f, p \in DOMAIN f : Laid(f, d, p)
  BY ReadingsTyped
<1>2. s \in ScanItem
  BY ReadingsTyped
<1>3. g \in Seq(Item) /\ Len(g) = d + 3
      /\ g[d + 2] = [s EXCEPT !.marked = Has(f, "DRI")]
  BY <1>1, <1>2, NewFile
<1>4. Laid(g, d, d + 2)
  BY <1>1, <1>2, NewFileLaid
<1>5. d \in Nat /\ d >= 1
  BY <1>1 DEF Laid
<1>6. Shaped(g)
  BY <1>3, <1>4, <1>5 DEF Shaped
<1>7. Of(g, "scan") = g[d + 2]
  BY <1>4, TheScan
<1>8. Of(g, "scan").met = s.met
  BY <1>2, <1>3, <1>7 DEF ScanItem
<1>9. ASSUME NEW left \in CutInScan(g)
      PROVE  left \in Seq(Item) /\ Shaped(left)
  <2>1. Laid(left, d, d + 2) /\ Len(left) = d + 2
    BY <1>1, <1>2, <1>9, CutFileLaid
  <2>2. left \in Seq(Item)
    BY <2>1 DEF Laid
  <2>3. d \in DOMAIN left /\ d + 2 \in DOMAIN left
    BY <1>5, <2>1, <2>2
  <2> QED
    BY <2>1, <2>2, <2>3 DEF Shaped
<1>10. <<>> \in Seq(Item) /\ Shaped(<<>>)
  BY DEF Shaped
<1> QED
  BY <1>3, <1>6, <1>8, <1>9, <1>10

-----------------------------------------------------------------------------
(* The invariant: files have layouts; the names of a picture have no gaps, *)
(* and all of them are listed; and the tables cover what was counted or    *)
(* written.                                                                *)

Typed ==
  /\ DirectoryTypeOK
  /\ \A n \in Names : n[2] > 1 => given[n] = NoFile
  /\ \A n \in Names : dir[n] # NoFile => Shaped(dir[n])
  /\ phase \in {"ended", "exited", "crashed"} => files = {}

\* names from the user's on, without gaps, one more than there were runs
NoGaps ==
  /\ \A n \in Names : dir[n] # NoFile =>
       n[2] <= runs + 1 /\ First(n[1]) <= n[2] /\ GivenOf(n[1]) # {}
  /\ \A n \in Names : given[n] # NoFile => dir[n] # NoFile
  /\ \A n \in Names :
       Output(n) \in Names /\ dir[Output(n)] # NoFile /\ First(n[1]) <= n[2] =>
         dir[n] # NoFile

\* while a run lasts it has all the files but the last ones
Listed ==
  /\ \A n \in files : n[2] <= runs /\ dir[n] # NoFile
  /\ phase \in {"count", "write"} =>
       /\ \A n \in Names : given[n] # NoFile => n \in files
       /\ \A n \in Names :
            Output(n) \in Names /\ dir[Output(n)] # NoFile /\ First(n[1]) <= n[2] =>
              n \in files

Covered ==
  \A n \in files :
    (phase = "count" /\ n \notin toDo) \/ phase = "write" =>
      (Decodable(dir[n]) => Of(dir[n], "scan").met \subseteq found)

IDir == Typed /\ NoGaps /\ Listed /\ Covered

LEMMA SameGiven ==
  ASSUME given' = given
  PROVE  /\ \A b : First(b)' = First(b) /\ GivenOf(b)' = GivenOf(b)
         /\ \A b : SupportedBase(b)' <=> SupportedBase(b)
<1>1. \A b : GivenOf(b)' = GivenOf(b)
  BY DEF GivenOf
<1>2. \A b : First(b)' = First(b)
  BY DEF First
<1> QED
  BY <1>1, <1>2 DEF SupportedBase

LEMMA OutputName ==
  ASSUME NEW n \in Names, n[2] <= MaxRuns
  PROVE  /\ Output(n) \in Names /\ Output(n)[1] = n[1] /\ Output(n)[2] = n[2] + 1
         /\ \A m \in Names : Output(m) = Output(n) => m = n
BY BytesAssumption DEF Names, Output

\* A file is written in the second pass, the whole of it or a part.
LEMMA Overwritten ==
  ASSUME IDir, phase = "write", NEW n \in toDo, NEW g \in Seq(Item), Shaped(g),
         dir' = [dir EXCEPT ![Output(n)] = g]
  PROVE  /\ n \in Names /\ n \in files /\ n[2] <= runs /\ dir[n] # NoFile
         /\ Output(n) \in Names /\ Output(n)[1] = n[1] /\ Output(n)[2] = n[2] + 1
         /\ dir' \in [Names -> Seq(Item) \cup {NoFile}]
         /\ dir'[Output(n)] = g /\ g # NoFile
         /\ \A m \in Names : m # Output(n) => dir'[m] = dir[m]
         /\ \A m \in Names : dir'[m] # NoFile => Shaped(dir'[m])
<1>1. n \in Names /\ n \in files /\ n[2] <= runs /\ dir[n] # NoFile
  BY DEF IDir, Typed, DirectoryTypeOK, Listed
<1>2. n[2] <= MaxRuns
  BY <1>1, BytesAssumption DEF IDir, Typed, DirectoryTypeOK, Names
<1>3. Output(n) \in Names /\ Output(n)[1] = n[1] /\ Output(n)[2] = n[2] + 1
  BY <1>1, <1>2, OutputName
<1>4. dir \in [Names -> Seq(Item) \cup {NoFile}]
  BY DEF IDir, Typed, DirectoryTypeOK
<1>5. /\ dir' \in [Names -> Seq(Item) \cup {NoFile}]
      /\ dir'[Output(n)] = g
      /\ \A m \in Names : m # Output(n) => dir'[m] = dir[m]
  BY <1>3, <1>4
<1>6. g # NoFile
  BY NoFileAssumption
<1>7. \A m \in Names : dir[m] # NoFile => Shaped(dir[m])
  BY DEF IDir, Typed
<1> QED
  BY <1>1, <1>3, <1>5, <1>6, <1>7

\* and leaves no gap.
LEMMA NoGapsOverwritten ==
  ASSUME IDir, phase = "write", NEW n \in toDo, NEW g \in Seq(Item), Shaped(g),
         dir' = [dir EXCEPT ![Output(n)] = g], given' = given, runs' = runs
  PROVE  /\ NoGaps'
         /\ \A m \in Names :
              Output(m) \in Names /\ dir'[Output(m)] # NoFile /\ First(m[1]) <= m[2] =>
                m \in files
<1>1. /\ n \in Names /\ n \in files /\ n[2] <= runs /\ dir[n] # NoFile
      /\ Output(n) \in Names /\ Output(n)[1] = n[1] /\ Output(n)[2] = n[2] + 1
      /\ dir'[Output(n)] = g /\ g # NoFile
      /\ \A m \in Names : m # Output(n) => dir'[m] = dir[m]
  BY Overwritten
<1>2. n[2] \in Nat /\ runs \in Nat /\ First(n[1]) \in Nat
  BY <1>1 DEF IDir, Typed, DirectoryTypeOK, Names, First
<1>3. \A m \in Names : dir'[m] # NoFile =>
        m[2] <= runs' + 1 /\ First(m[1])' <= m[2] /\ GivenOf(m[1])' # {}
  <2>1. SUFFICES ASSUME NEW m \in Names, dir'[m] # NoFile
                 PROVE  m[2] <= runs + 1 /\ First(m[1]) <= m[2] /\ GivenOf(m[1]) # {}
    BY SameGiven
  <2>2. CASE m = Output(n)
    <3>1. First(n[1]) <= n[2] /\ GivenOf(n[1]) # {}
      BY <1>1 DEF IDir, NoGaps
    <3> QED
      BY <1>1, <1>2, <2>2, <3>1
  <2>3. CASE m # Output(n)
    BY <1>1, <2>1, <2>3 DEF IDir, NoGaps
  <2> QED
    BY <2>2, <2>3
<1>4. \A m \in Names : given'[m] # NoFile => dir'[m] # NoFile
  BY <1>1 DEF IDir, NoGaps
<1>5. ASSUME NEW m \in Names, Output(m) \in Names, dir'[Output(m)] # NoFile,
             First(m[1]) <= m[2]
      PROVE  m \in files
  <2>1. CASE Output(m) = Output(n)
    <3>1. n[2] <= MaxRuns
      BY <1>1, <1>2, BytesAssumption DEF IDir, Typed, DirectoryTypeOK
    <3>2. m = n
      BY <1>1, <2>1, <3>1, OutputName
    <3> QED
      BY <1>1, <3>2
  <2>2. CASE Output(m) # Output(n)
    BY <1>1, <1>5, <2>2 DEF IDir, Listed
  <2> QED
    BY <2>1, <2>2
<1>6. \A m \in files : dir'[m] # NoFile
  BY <1>1 DEF IDir, Listed, Typed, DirectoryTypeOK
<1>7. \A m \in Names :
        Output(m) \in Names /\ dir'[Output(m)] # NoFile /\ First(m[1])' <= m[2] =>
          dir'[m] # NoFile
  BY <1>5, <1>6, SameGiven
<1> QED
  BY <1>3, <1>4, <1>5, <1>7 DEF NoGaps

LEMMA DirectoryStart == DirectoryInit => IDir
<1> SUFFICES ASSUME DirectoryInit PROVE IDir
  OBVIOUS
<1>1. /\ given \in [Names -> Shapes \cup {NoFile}]
      /\ \A n \in Names : n[2] > 1 => given[n] = NoFile
      /\ dir = [n \in Names |-> IF given[n] = NoFile THEN NoFile ELSE Original(n, given[n])]
      /\ phase = "ended" /\ files = {} /\ toDo = {} /\ found = {} /\ runs = 0
      /\ clean = MaxRuns /\ MaxRuns \in Nat
  BY GivensAssumption, BytesAssumption DEF DirectoryInit
<1>2. ASSUME NEW n \in Names, given[n] # NoFile
      PROVE  dir[n] \in Seq(Item) /\ dir[n] # NoFile /\ Shaped(dir[n])
  <2>1. dir[n] = Original(n, given[n]) /\ given[n] \in Shapes
    BY <1>1, <1>2
  <2>2. dir[n] \in Seq(Item) /\ Shaped(dir[n])
    BY <2>1, OriginalFile
  <2> QED
    BY <2>2, NoFileAssumption
<1>3. \A n \in Names : given[n] = NoFile => dir[n] = NoFile
  BY <1>1
<1>4. dir \in [Names -> Seq(Item) \cup {NoFile}]
  BY <1>1, <1>2, <1>3
<1>5. Typed
  BY <1>1, <1>2, <1>3, <1>4 DEF Typed, DirectoryTypeOK
<1>6. \A n \in Names : n = <<n[1], n[2]>> /\ n[2] \in Nat
  BY DEF Names
<1>7. ASSUME NEW n \in Names, given[n] # NoFile
      PROVE  n[2] \in 0 .. 1 /\ First(n[1]) <= n[2] /\ GivenOf(n[1]) # {}
  <2>1. n[2] \in 0 .. 1
    <3>1. n[2] \in Nat /\ ~(n[2] > 1)
      BY <1>1, <1>6, <1>7
    <3> HIDE DEF Names
    <3> QED
      BY <3>1
  <2>2. n[2] \in GivenOf(n[1])
    BY <1>6, <1>7, <2>1 DEF GivenOf
  <2>3. First(n[1]) <= n[2]
    BY <1>6, <1>7, <2>1 DEF First
  <2> QED
    BY <2>1, <2>2, <2>3
<1>8. ASSUME NEW n \in Names, Output(n) \in Names, dir[Output(n)] # NoFile,
             First(n[1]) <= n[2]
      PROVE  dir[n] # NoFile
  <2>1. Output(n)[2] = n[2] + 1 /\ Output(n)[2] \in 0 .. 1
    BY <1>3, <1>7, <1>8 DEF Output
  <2>2. n[2] = 0
    BY <1>6, <2>1
  <2>3. given[<<n[1], 0>>] # NoFile
    BY <1>8, <2>2 DEF First
  <2> QED
    BY <1>2, <1>6, <2>2, <2>3
<1>9. NoGaps
  <2>1. \A n \in Names : dir[n] # NoFile =>
          n[2] <= runs + 1 /\ First(n[1]) <= n[2] /\ GivenOf(n[1]) # {}
    BY <1>1, <1>3, <1>7
  <2> QED
    BY <1>2, <1>8, <2>1 DEF NoGaps
<1>10. Listed /\ Covered
  BY <1>1 DEF Listed, Covered
<1> QED
  BY <1>5, <1>9, <1>10 DEF IDir

\* The files are as they were, and the list of them; or the list is given up.
LEMMA KeepsNames ==
  ASSUME IDir, dir' = dir, given' = given, runs' = runs,
         \/ files' = files /\ (phase \in {"count", "write"} <=> phase' \in {"count", "write"})
         \/ files' = {} /\ phase' \notin {"count", "write"}
  PROVE  NoGaps' /\ Listed'
<1>1. NoGaps /\ Listed
  BY DEF IDir
<1>2. NoGaps'
  BY <1>1, SameGiven DEF NoGaps
<1>3. Listed'
  BY <1>1, SameGiven DEF Listed
<1> QED
  BY <1>2, <1>3

LEMMA DirectoryStep == IDir /\ [DirectoryNext]_dirVars => IDir'
<1> SUFFICES ASSUME IDir, [DirectoryNext]_dirVars
             PROVE  IDir'
  OBVIOUS
<1> USE DEF dirVars
<1>0. /\ given \in [Names -> Shapes \cup {NoFile}]
      /\ dir \in [Names -> Seq(Item) \cup {NoFile}]
      /\ phase \in {"count", "write", "ended", "exited", "crashed"}
      /\ toDo \subseteq files /\ files \subseteq Names /\ found \subseteq Codes
      /\ runs \in 0 .. MaxRuns /\ clean \in Nat /\ MaxRuns \in Nat
      /\ \A n \in Names : n[2] > 1 => given[n] = NoFile
      /\ \A n \in Names : dir[n] # NoFile => Shaped(dir[n])
      /\ \A n \in files : dir[n] # NoFile /\ dir[n] \in Seq(Item) /\ Shaped(dir[n])
  BY BytesAssumption DEF IDir, Typed, DirectoryTypeOK, Listed
<1>1. CASE ListFiles
  <2> USE <1>1 DEF ListFiles
  <2>1. Typed'
    BY <1>0 DEF Typed, DirectoryTypeOK
  <2>2. NoGaps'
    <3>1. \A n \in Names : dir[n] # NoFile /\ n[2] <= runs + 1 => n[2] <= runs' + 1
      BY <1>0 DEF Names
    <3> QED
      BY <3>1, SameGiven DEF IDir, NoGaps
  <2>3. Listed'
    BY SameGiven DEF IDir, NoGaps, Listed
  <2>4. Covered'
    BY DEF Covered
  <2> QED
    BY <2>1, <2>2, <2>3, <2>4 DEF IDir
<1>2. CASE BuildTables
  <2> USE <1>2 DEF BuildTables
  <2>1. Typed'
    BY <1>0 DEF Typed, DirectoryTypeOK
  <2>2. NoGaps' /\ Listed'
    BY KeepsNames
  <2>3. Covered'
    BY DEF IDir, Covered
  <2> QED
    BY <2>1, <2>2, <2>3 DEF IDir
<1>3. CASE EndRun
  <2> USE <1>3 DEF EndRun, Stop
  <2>1. Typed'
    BY <1>0 DEF Typed, DirectoryTypeOK
  <2>2. NoGaps' /\ Listed'
    BY KeepsNames
  <2>3. Covered'
    BY DEF Covered
  <2> QED
    BY <2>1, <2>2, <2>3 DEF IDir
<1>4. ASSUME NEW n \in Names, CountFile(n)
      PROVE  IDir'
  <2> USE <1>4 DEF CountFile
  <2>1. PICK met \in Counts(dir[n]) : found' = found \cup met
    OBVIOUS
  <2>2. dir[n] \in Seq(Item) /\ Shaped(dir[n])
    BY <1>0
  <2>3. met \subseteq Codes
    BY <2>2, TablesTyped DEF Counts
  <2>4. Typed'
    BY <1>0, <2>1, <2>3 DEF Typed, DirectoryTypeOK
  <2>5. NoGaps' /\ Listed'
    BY KeepsNames
  <2>6. Decodable(dir[n]) => Of(dir[n], "scan").met \subseteq met
    BY DEF Counts, Readings, Decodable
  <2>7. Covered'
    BY <2>1, <2>6 DEF IDir, Covered
  <2> QED
    BY <2>4, <2>5, <2>7 DEF IDir
<1>5. ASSUME NEW n \in Names, RefuseFile(n) \/ RefuseImage(n)
      PROVE  IDir'
  <2> USE <1>5 DEF RefuseFile, RefuseImage, Stop
  <2>1. Typed'
    BY <1>0 DEF Typed, DirectoryTypeOK
  <2>2. NoGaps' /\ Listed'
    BY KeepsNames
  <2>3. Covered'
    BY DEF Covered
  <2> QED
    BY <2>1, <2>2, <2>3 DEF IDir
<1>6. ASSUME NEW n \in Names, WriteOutput(n)
      PROVE  IDir'
  <2> USE <1>6 DEF WriteOutput
  <2>1. PICK scan \in Readings(dir[n]) :
          scan.met \subseteq found /\ dir' = [dir EXCEPT ![Output(n)] = Recoded(dir[n], scan)]
    OBVIOUS
  <2>2. Shaped(dir[n])
    BY <1>0
  <2> DEFINE g == Recoded(dir[n], scan)
  <2>3. g \in Seq(Item) /\ Shaped(g) /\ Of(g, "scan").met = scan.met
    BY <1>0, <2>2, WrittenFile
  <2>4. dir' = [dir EXCEPT ![Output(n)] = g]
    BY <2>1
  <2> HIDE DEF g
  <2>5. /\ dir' \in [Names -> Seq(Item) \cup {NoFile}]
        /\ dir'[Output(n)] = g /\ Output(n) \in Names
        /\ \A m \in Names : m # Output(n) => dir'[m] = dir[m]
        /\ \A m \in Names : dir'[m] # NoFile => Shaped(dir'[m])
    BY <2>3, <2>4, Overwritten
  <2>6. /\ NoGaps'
        /\ \A m \in Names :
             Output(m) \in Names /\ dir'[Output(m)] # NoFile /\ First(m[1]) <= m[2] =>
               m \in files
    BY <2>3, <2>4, NoGapsOverwritten
  <2>7. Typed'
    BY <1>0, <2>5 DEF Typed, DirectoryTypeOK
  <2>8. Listed'
    <3>1. \A m \in files : m[2] <= runs /\ dir'[m] # NoFile
      BY <1>0, <2>3, <2>5, NoFileAssumption DEF IDir, Listed
    <3>2. \A m \in Names : given[m] # NoFile => m \in files
      BY DEF IDir, Listed
    <3> QED
      BY <2>6, <3>1, <3>2, SameGiven DEF Listed
  <2>9. Covered'
    <3>1. ASSUME NEW m \in files, Decodable(dir'[m])
          PROVE  Of(dir'[m], "scan").met \subseteq found
      <4>1. CASE m = Output(n)
        BY <2>1, <2>3, <2>5, <4>1
      <4>2. CASE m # Output(n)
        BY <1>0, <2>5, <3>1, <4>2 DEF IDir, Covered
      <4> QED
        BY <4>1, <4>2
    <3> QED
      BY <3>1 DEF Covered
  <2> QED
    BY <2>6, <2>7, <2>8, <2>9 DEF IDir
<1>7. ASSUME phase = "write", files' = {}, toDo' = {}, found' = {}, given' = given,
             runs' = runs, clean' \in Nat, phase' \in {"exited", "crashed"},
             NEW n \in toDo, ReadsHeader(dir[n]), NEW scan \in Readings(dir[n]),
             NEW left \in {<<>>} \cup CutInScan(Recoded(dir[n], scan)),
             dir' = [dir EXCEPT ![Output(n)] = left]
      PROVE  IDir'
  <2> USE <1>7
  <2>1. left \in Seq(Item) /\ Shaped(left)
    <3>1. Shaped(dir[n])
      BY <1>0
    <3> QED
      BY <1>0, <3>1, WrittenFile
  <2>2. /\ dir' \in [Names -> Seq(Item) \cup {NoFile}]
        /\ \A m \in Names : dir'[m] # NoFile => Shaped(dir'[m])
    BY <2>1, Overwritten
  <2>3. NoGaps'
    BY <2>1, NoGapsOverwritten
  <2>4. Typed'
    BY <1>0, <2>2 DEF Typed, DirectoryTypeOK
  <2>5. Listed' /\ Covered'
    BY DEF Listed, Covered
  <2> QED
    BY <2>3, <2>4, <2>5 DEF IDir
<1>8. ASSUME NEW n \in Names, NoCode(n)
      PROVE  IDir'
  BY <1>0, <1>7, <1>8 DEF NoCode, Stop
<1>9. CASE DirectoryCrash
  <2>1. CASE dir' = dir
    <3> USE <1>9, <2>1 DEF DirectoryCrash, Stop
    <3>1. Typed'
      BY <1>0 DEF Typed, DirectoryTypeOK
    <3>2. NoGaps' /\ Listed'
      BY KeepsNames
    <3>3. Covered'
      BY DEF Covered
    <3> QED
      BY <3>1, <3>2, <3>3 DEF IDir
  <2>2. CASE dir' # dir
    BY <1>7, <1>9, <2>2 DEF DirectoryCrash, Stop
  <2> QED
    BY <2>1, <2>2
<1>10. CASE UNCHANGED dirVars
  <2> USE <1>10
  <2>1. Typed'
    BY DEF IDir, Typed, DirectoryTypeOK
  <2>2. NoGaps' /\ Listed'
    BY KeepsNames
  <2>3. Covered'
    BY DEF IDir, Covered
  <2> QED
    BY <2>1, <2>2, <2>3 DEF IDir
<1> QED
  BY <1>1, <1>2, <1>3, <1>4, <1>5, <1>6, <1>8, <1>9, <1>10 DEF DirectoryNext

-----------------------------------------------------------------------------
(* Where the codes fit the segment: what has been written since the last   *)
(* crash is right, level by level.                                         *)

Pictures(b) == {<<b, k>> : k \in GivenOf(b)}

\* n is one of the names that the runs since the last crash have repaired.
InRepair(n) == SupportedBase(n[1]) /\ n[2] - First(n[1]) \in 0 .. clean

GoodLevels ==
  \A n \in Names : InRepair(n) /\ dir[n] # NoFile => Good(dir[n], Pictures(n[1]))

\* what this run wrote adds a level
GoodOutputs ==
  phase = "write" =>
    \A n \in files \ toDo : InRepair(n) => Good(dir[Output(n)], Pictures(n[1]))

IFit == GoodLevels /\ GoodOutputs /\ ReadsItsOwn

LEMMA SameLevels ==
  ASSUME given' = given, clean' = clean
  PROVE  /\ \A b : Pictures(b)' = Pictures(b)
         /\ \A n : InRepair(n)' <=> InRepair(n)
BY SameGiven DEF Pictures, InRepair

LEMMA SameExit ==
  ASSUME given' = given, clean' = clean, runs' = runs, phase' = phase, ReadsItsOwn
  PROVE  ReadsItsOwn'
BY SameGiven DEF ReadsItsOwn

\* The second pass decodes a repaired file to its picture and has its codes.
LEMMA GoodInPass ==
  ASSUME IDir, GoodLevels, phase = "write", NEW n \in toDo, InRepair(n)
  PROVE  /\ Good(dir[n], Pictures(n[1]))
         /\ \A s \in Readings(dir[n]) : s = Of(dir[n], "scan") /\ s.met \subseteq found
<1>1. n \in Names /\ n \in files /\ dir[n] # NoFile
  BY DEF IDir, Typed, DirectoryTypeOK, Listed
<1>2. Good(dir[n], Pictures(n[1]))
  BY <1>1 DEF GoodLevels
<1>3. Coherent(dir[n]) /\ Has(dir[n], "SOF") /\ Readings(dir[n]) = {Of(dir[n], "scan")}
  BY <1>2, GoodReads
<1>4. Has(dir[n], "scan")
  BY <1>2, TheScan DEF Good
<1>5. Of(dir[n], "scan").met \subseteq found
  BY <1>1, <1>3, <1>4 DEF IDir, Covered, Decodable
<1> QED
  BY <1>2, <1>3, <1>5

\* A listed file of a supported picture has been repaired if no run crashed.
LEMMA ListedRepaired ==
  ASSUME IDir, NEW n \in files, runs <= clean, SupportedBase(n[1])
  PROVE  InRepair(n)
<1>1. n \in Names /\ dir[n] # NoFile /\ n[2] <= runs /\ runs \in Nat /\ clean \in Nat
  BY DEF IDir, Typed, DirectoryTypeOK, Listed
<1>2. First(n[1]) <= n[2]
  BY <1>1 DEF IDir, NoGaps
<1>3. n[2] \in Nat /\ First(n[1]) \in Nat
  BY <1>1 DEF Names, First
<1>4. n[2] - First(n[1]) \in 0 .. clean
  <2> HIDE DEF Names
  <2> QED
    BY <1>1, <1>2, <1>3
<1> QED
  BY <1>4 DEF InRepair

\* The name behind a repaired one is that of a file this run repairs.
LEMMA OutputRepaired ==
  ASSUME IDir, NEW n \in files, InRepair(Output(n))
  PROVE  InRepair(n)
<1>1. n \in Names /\ dir[n] # NoFile /\ clean \in Nat
  BY DEF IDir, Typed, DirectoryTypeOK, Listed
<1>2. First(n[1]) <= n[2]
  BY <1>1 DEF IDir, NoGaps
<1>3. n[2] \in Nat /\ First(n[1]) \in Nat /\ Output(n)[1] = n[1] /\ Output(n)[2] = n[2] + 1
  BY <1>1 DEF Names, First, Output
<1>4. SupportedBase(n[1]) /\ n[2] + 1 - First(n[1]) \in 0 .. clean
  BY <1>3 DEF InRepair
<1>5. n[2] - First(n[1]) \in 0 .. clean
  BY <1>1, <1>2, <1>3, <1>4
<1> QED
  BY <1>4, <1>5 DEF InRepair

LEMMA GoodStart == ASSUME DirectoryInit PROVE IFit
<1>1. /\ given \in [Names -> Shapes \cup {NoFile}]
      /\ \A n \in Names : n[2] > 1 => given[n] = NoFile
      /\ dir = [n \in Names |-> IF given[n] = NoFile THEN NoFile ELSE Original(n, given[n])]
      /\ phase = "ended"
  BY GivensAssumption DEF DirectoryInit
<1>2. ASSUME NEW n \in Names, SupportedBase(n[1]), dir[n] # NoFile
      PROVE  Good(dir[n], Pictures(n[1]))
  <2>1. given[n] \in Shapes /\ dir[n] = Original(n, given[n]) /\ given[n] # NoFile
    BY <1>1, <1>2
  <2>2. n = <<n[1], n[2]>> /\ n[2] \in Nat
    BY DEF Names
  <2>3. n[2] \in 0 .. 1
    <3>1. ~(n[2] > 1)
      BY <1>1, <2>1
    <3> HIDE DEF Names
    <3> QED
      BY <2>2, <3>1
  <2>4. n[2] \in GivenOf(n[1])
    BY <2>1, <2>2, <2>3 DEF GivenOf
  <2>5. n \in Pictures(n[1])
    BY <2>2, <2>4 DEF Pictures
  <2>6. Supported(given[n])
    BY <1>2, <2>2, <2>4 DEF SupportedBase
  <2> QED
    BY <2>1, <2>5, <2>6, OriginalFile
<1> QED
  BY <1>1, <1>2 DEF IFit, GoodLevels, GoodOutputs, ReadsItsOwn, InRepair

LEMMA GoodStep ==
  ASSUME Fits, IDir, IFit, [DirectoryNext]_dirVars
  PROVE  IFit'
<1> USE DEF dirVars
<1>0. /\ toDo \subseteq files /\ files \subseteq Names /\ found \subseteq Codes
      /\ runs \in Nat /\ clean \in Nat
      /\ \A n \in files : n[2] <= MaxRuns
      /\ MaxRuns \in Nat /\ runs <= MaxRuns
      /\ \A n \in files : dir[n] # NoFile /\ Shaped(dir[n])
  <2>1. /\ toDo \subseteq files /\ files \subseteq Names /\ found \subseteq Codes
        /\ runs \in 0 .. MaxRuns /\ clean \in Nat /\ MaxRuns \in Nat
        /\ \A n \in Names : dir[n] # NoFile => Shaped(dir[n])
        /\ \A n \in files : dir[n] # NoFile /\ n[2] <= runs
        /\ \A n \in Names : n[2] \in Nat
    BY BytesAssumption DEF IDir, Typed, DirectoryTypeOK, Listed, Names
  <2>2. \A n \in files : n[2] <= MaxRuns
    <3> HIDE DEF Names
    <3> QED
      BY <2>1
  <2> QED
    BY <2>1, <2>2
<1>1. CASE ListFiles
  <2> USE <1>1 DEF ListFiles
  <2>1. GoodLevels'
    BY SameLevels DEF IFit, GoodLevels
  <2> QED
    BY <2>1 DEF IFit, GoodOutputs, ReadsItsOwn
<1>2. CASE BuildTables
  <2> USE <1>2 DEF BuildTables
  <2>1. GoodLevels'
    BY SameLevels DEF IFit, GoodLevels
  <2> QED
    BY <2>1 DEF IFit, GoodOutputs, ReadsItsOwn
<1>3. ASSUME NEW n \in Names, CountFile(n)
      PROVE  IFit'
  <2> USE <1>3 DEF CountFile
  <2>1. GoodLevels'
    BY SameLevels DEF IFit, GoodLevels
  <2> QED
    BY <2>1 DEF IFit, GoodOutputs, ReadsItsOwn
<1>4. CASE UNCHANGED dirVars
  <2> USE <1>4
  <2>1. GoodLevels' /\ GoodOutputs'
    BY SameLevels DEF IFit, GoodLevels, GoodOutputs
  <2> QED
    BY <2>1, SameExit DEF IFit
<1>5. CASE EndRun
  <2> USE <1>5 DEF EndRun, Stop
  <2>1. ASSUME NEW n \in Names, InRepair(n)', dir[n] # NoFile
        PROVE  Good(dir[n], Pictures(n[1]))
    <3>1. SupportedBase(n[1]) /\ n[2] - First(n[1]) \in 0 .. clean + 1
      BY <2>1, SameGiven DEF InRepair
    <3>2. CASE InRepair(n)
      BY <2>1, <3>2 DEF IFit, GoodLevels
    <3>3. CASE ~InRepair(n)
      <4> DEFINE m == <<n[1], n[2] - 1>>
      <4>1. n[2] \in Nat /\ n[2] <= MaxRuns + 1 /\ First(n[1]) \in Nat /\ n = <<n[1], n[2]>>
            /\ n[1] \in Bases
        BY <1>0 DEF Names, First
      <4>2. n[2] - First(n[1]) = clean + 1
        BY <1>0, <3>1, <3>3, <4>1 DEF InRepair
      <4>3. n[2] - 1 \in 0 .. MaxRuns + 1 /\ First(n[1]) <= n[2] - 1 /\ n[2] - 1 + 1 = n[2]
            /\ n[2] - 1 - First(n[1]) \in 0 .. clean
        BY <1>0, <4>1, <4>2
      <4>4. m \in Names /\ Output(m) = n /\ m[1] = n[1] /\ m[2] = n[2] - 1
        BY <4>1, <4>3 DEF Names, Output
      <4> HIDE DEF m
      <4>5. m \in files
        BY <2>1, <4>3, <4>4 DEF IDir, Listed
      <4>6. InRepair(m)
        BY <3>1, <4>3, <4>4 DEF InRepair
      <4> QED
        BY <4>4, <4>5, <4>6 DEF IFit, GoodOutputs
    <3> QED
      BY <3>2, <3>3
  <2>2. GoodLevels'
    BY <2>1, SameGiven DEF GoodLevels, Pictures
  <2> QED
    BY <2>2 DEF IFit, GoodOutputs, ReadsItsOwn
<1>6. ASSUME NEW n \in Names, RefuseFile(n) \/ RefuseImage(n)
      PROVE  IFit'
  <2> USE <1>6 DEF RefuseFile, RefuseImage, Stop
  <2>1. GoodLevels'
    BY SameLevels DEF IFit, GoodLevels
  <2>2. GoodOutputs'
    BY DEF GoodOutputs
  <2>3. ASSUME runs <= clean, \A b \in Bases : GivenOf(b) # {} => SupportedBase(b)
        PROVE  FALSE
    <3>1. n \in files /\ dir[n] # NoFile /\ n[1] \in Bases
      BY <1>0 DEF Names
    <3>2. SupportedBase(n[1])
      BY <2>3, <3>1 DEF IDir, NoGaps
    <3>3. InRepair(n)
      BY <2>3, <3>1, <3>2, ListedRepaired
    <3>4. Good(dir[n], Pictures(n[1]))
      BY <3>1, <3>3 DEF IFit, GoodLevels
    <3>5. Countable(dir[n])
      BY <3>4, GoodReads
    <3> QED
      BY <3>5 DEF Countable
  <2>4. ReadsItsOwn'
    BY <1>0, <2>3, SameGiven DEF ReadsItsOwn
  <2> QED
    BY <2>1, <2>2, <2>4 DEF IFit
<1>7. ASSUME NEW n \in Names, WriteOutput(n)
      PROVE  IFit'
  <2> USE <1>7 DEF WriteOutput
  <2>1. PICK scan \in Readings(dir[n]) :
          scan.met \subseteq found /\ dir' = [dir EXCEPT ![Output(n)] = Recoded(dir[n], scan)]
    OBVIOUS
  <2> DEFINE g == Recoded(dir[n], scan)
  <2>2. g \in Seq(Item) /\ Shaped(g)
    BY <1>0, WrittenFile
  <2>3. InRepair(n) => Good(g, Pictures(n[1]))
    <3>1. SUFFICES ASSUME InRepair(n) PROVE Good(g, Pictures(n[1]))
      OBVIOUS
    <3>2. Good(dir[n], Pictures(n[1])) /\ scan = Of(dir[n], "scan") /\ scan.met \subseteq found
      BY <3>1, GoodInPass DEF IFit
    <3> QED
      BY <1>0, <3>2, GoodRecoded
  <2>4. dir' = [dir EXCEPT ![Output(n)] = g]
    BY <2>1
  <2> HIDE DEF g
  <2>5. /\ dir'[Output(n)] = g /\ Output(n) \in Names /\ Output(n)[1] = n[1]
        /\ \A m \in Names : m # Output(n) => dir'[m] = dir[m]
    BY <2>2, <2>4, Overwritten
  <2>6. ASSUME NEW m \in Names, InRepair(m), dir'[m] # NoFile
        PROVE  Good(dir'[m], Pictures(m[1]))
    <3>1. CASE m = Output(n)
      BY <1>0, <2>3, <2>5, <2>6, <3>1, OutputRepaired
    <3>2. CASE m # Output(n)
      BY <2>5, <2>6, <3>2 DEF IFit, GoodLevels
    <3> QED
      BY <3>1, <3>2
  <2>7. ASSUME NEW m \in files \ toDo', InRepair(m)
        PROVE  Good(dir'[Output(m)], Pictures(m[1]))
    <3>1. CASE m = n
      BY <2>3, <2>5, <2>7, <3>1
    <3>2. CASE m # n
      <4>1. m \in files \ toDo /\ m \in Names /\ m[2] <= MaxRuns /\ n[2] <= MaxRuns
        BY <1>0, <2>7, <3>2
      <4>2. Output(m) # Output(n) /\ Output(m) \in Names
        BY <3>2, <4>1, OutputName
      <4> QED
        BY <2>5, <2>7, <4>1, <4>2 DEF IFit, GoodOutputs
    <3> QED
      BY <3>1, <3>2
  <2>8. GoodLevels' /\ GoodOutputs'
    BY <2>6, <2>7, SameLevels DEF GoodLevels, GoodOutputs
  <2> QED
    BY <2>8 DEF IFit, ReadsItsOwn
<1>8. ASSUME NEW n \in Names, NoCode(n)
      PROVE  IFit'
  <2> USE <1>8 DEF NoCode, Stop
  <2>1. PICK scan \in Readings(dir[n]) :
          /\ ~ scan.met \subseteq found
          /\ \E left \in CutInScan(Recoded(dir[n], scan)) :
               dir' = [dir EXCEPT ![Output(n)] = left]
    OBVIOUS
  <2>2. PICK left \in CutInScan(Recoded(dir[n], scan)) :
          dir' = [dir EXCEPT ![Output(n)] = left]
    BY <2>1
  <2>3. left \in Seq(Item) /\ Shaped(left)
    BY <1>0, WrittenFile
  <2>4. /\ \A m \in Names : m # Output(n) => dir'[m] = dir[m]
    BY <2>2, <2>3, Overwritten
  <2>5. ~InRepair(n)
    BY <2>1, GoodInPass DEF IFit
  <2>6. ~InRepair(Output(n))
    BY <1>0, <2>5, OutputRepaired
  <2>7. GoodLevels'
    BY <2>4, <2>6, SameLevels DEF IFit, GoodLevels
  <2>8. GoodOutputs'
    BY DEF GoodOutputs
  <2>9. ASSUME runs <= clean, \A b \in Bases : GivenOf(b) # {} => SupportedBase(b)
        PROVE  FALSE
    <3>1. n \in files /\ dir[n] # NoFile /\ n[1] \in Bases
      BY <1>0 DEF Names
    <3>2. SupportedBase(n[1])
      BY <2>9, <3>1 DEF IDir, NoGaps
    <3> QED
      BY <2>5, <2>9, <3>1, <3>2, ListedRepaired
  <2>10. ReadsItsOwn'
    BY <1>0, <2>9, SameGiven DEF ReadsItsOwn
  <2> QED
    BY <2>7, <2>8, <2>10 DEF IFit
<1>9. CASE DirectoryCrash
  <2> USE <1>9 DEF DirectoryCrash, Stop
  <2>1. ASSUME NEW m \in Names, InRepair(m)', dir'[m] # NoFile
        PROVE  InRepair(m) /\ dir'[m] = dir[m]
    <3>1. SupportedBase(m[1]) /\ m[2] - First(m[1]) \in 0 .. 0
      BY <2>1, SameGiven DEF InRepair
    <3>2. m[2] \in Nat /\ First(m[1]) \in Nat /\ m[2] = First(m[1])
      BY <3>1 DEF Names, First
    <3>3. InRepair(m)
      BY <1>0, <3>1 DEF InRepair
    <3>4. CASE dir' = dir
      BY <3>3, <3>4
    <3>5. CASE dir' # dir
      <4>1. PICK n \in toDo : /\ ReadsHeader(dir[n])
                              /\ \E scan \in Readings(dir[n]) :
                                   \E left \in {<<>>} \cup CutInScan(Recoded(dir[n], scan)) :
                                     dir' = [dir EXCEPT ![Output(n)] = left]
        BY <3>5
      <4>1a. PICK scan \in Readings(dir[n]) :
               \E left \in {<<>>} \cup CutInScan(Recoded(dir[n], scan)) :
                 dir' = [dir EXCEPT ![Output(n)] = left]
        BY <4>1
      <4>2. PICK left \in {<<>>} \cup CutInScan(Recoded(dir[n], scan)) :
              dir' = [dir EXCEPT ![Output(n)] = left]
        BY <4>1a
      <4>3. left \in Seq(Item) /\ Shaped(left)
        BY <1>0, <4>1, WrittenFile
      <4>4. /\ n \in Names /\ dir[n] # NoFile
            /\ Output(n)[1] = n[1] /\ Output(n)[2] = n[2] + 1
            /\ \A k \in Names : k # Output(n) => dir'[k] = dir[k]
        BY <4>2, <4>3, Overwritten
      <4>5. First(n[1]) <= n[2] /\ n[2] \in Nat /\ First(n[1]) \in Nat
        BY <4>4 DEF IDir, NoGaps, Names, First
      <4>6. m # Output(n)
        BY <3>2, <4>4, <4>5
      <4> QED
        BY <3>3, <4>4, <4>6
    <3> QED
      BY <3>4, <3>5
  <2>2. GoodLevels'
    <3>1. \A b : Pictures(b)' = Pictures(b)
      BY SameGiven DEF Pictures
    <3> QED
      BY <2>1, <3>1 DEF IFit, GoodLevels
  <2> QED
    BY <2>2 DEF IFit, GoodOutputs, ReadsItsOwn
<1> QED
  BY <1>1, <1>2, <1>3, <1>4, <1>5, <1>6, <1>7, <1>8, <1>9 DEF DirectoryNext

-----------------------------------------------------------------------------
(* Theorems.                                                               *)

LEMMA DirectoryInvariant == DirectorySpec => []IDir
<1> QED
  BY DirectoryStart, DirectoryStep, PTL DEF DirectorySpec

\* The type invariant of Directory, for any files, bounds and crashes.
THEOREM DirectoryTypeCorrect == DirectorySpec => []DirectoryTypeOK
<1>1. IDir => DirectoryTypeOK
  BY DEF IDir, Typed
<1> QED
  BY <1>1, DirectoryInvariant, PTL

\* The tables of a run serve every decodable file it comes to, for any files, number
\* of codes and crashes before it, and even where the DHT segment has a wrong length
\* (convert_one_image, Find_New_code).
THEOREM TablesAlwaysCover == DirectorySpec => []TablesCover
<1>1. IDir => TablesCover
  BY DEF IDir, Typed, DirectoryTypeOK, Covered, TablesCover, Decodable
<1> QED
  BY <1>1, DirectoryInvariant, PTL

LEMMA FitInvariant == ASSUME Fits PROVE DirectorySpec => [](IDir /\ IFit)
<1>1. DirectoryInit => IDir /\ IFit
  BY DirectoryStart, GoodStart
<1>2. (IDir /\ IFit) /\ [DirectoryNext]_dirVars => (IDir /\ IFit)'
  BY DirectoryStep, GoodStep
<1> QED
  BY <1>1, <1>2, PTL DEF DirectorySpec

LEMMA GoodIsRight ==
  ASSUME NEW n, Good(dir[n], Pictures(n[1])), dir[n] # NoFile
  PROVE  Right(n)
BY GoodReads DEF Right, Pictures

\* If the codes fit the length of the DHT segment and every picture is supported, no
\* run refuses a file or lacks a code before one crashes: the program reads what it
\* wrote, for any files, names and number of runs (parse_JFIF, Find_New_code).
THEOREM AlwaysReadsItsOwn == ASSUME Fits PROVE DirectorySpec => []ReadsItsOwn
<1>1. IDir /\ IFit => ReadsItsOwn
  BY DEF IFit
<1> QED
  BY <1>1, FitInvariant, PTL

\* Each run that ends after a crash makes one more level of the recoded files right,
\* whatever the crash left, and without a crash all of them always are
\* (WriteNewData_convert_one_image).
THEOREM AlwaysRepaired == ASSUME Fits PROVE DirectorySpec => []Repaired
<1>1. IDir /\ IFit => Repaired
  <2> SUFFICES ASSUME IDir, IFit, NEW b \in Bases, SupportedBase(b),
                      NEW k \in 1 .. MaxRuns + 1, dir[<<b, k>>] # NoFile,
                      k - First(b) \in 1 .. clean
               PROVE  Right(<<b, k>>)
    BY DEF Repaired
  <2> DEFINE n == <<b, k>>
  <2>1. n \in Names /\ n[1] = b /\ n[2] = k
    BY BytesAssumption DEF Names
  <2>2. InRepair(n)
    BY <2>1 DEF InRepair, IDir, Typed, DirectoryTypeOK
  <2>3. Good(dir[n], Pictures(b))
    BY <2>1, <2>2 DEF IFit, GoodLevels
  <2> QED
    BY <2>1, <2>3, GoodIsRight
<1> QED
  BY <1>1, FitInvariant, PTL

\* A run that ends well has recoded every supported picture of the user, whatever
\* earlier crashes left in the directory (main).
THEOREM RunAlwaysDelivers == ASSUME Fits PROVE DirectorySpec => RunDelivers
<1>1. ASSUME IDir, IFit, (IDir /\ IFit)', [DirectoryNext]_dirVars, phase = "write",
             phase' = "ended", NEW b \in Bases, SupportedBase(b)'
      PROVE  Right(<<b, First(b) + 1>>)'
  <2>1. EndRun
    BY <1>1 DEF DirectoryNext, dirVars, ListFiles, BuildTables, DirectoryCrash, CountFile,
                RefuseFile, RefuseImage, WriteOutput, NoCode, Stop
  <2>2. given' = given /\ dir' = dir /\ toDo = {}
    BY <2>1 DEF EndRun
  <2>3. SupportedBase(b) /\ First(b)' = First(b) /\ First(b) \in {0, 1}
    BY <1>1, <2>2, SameGiven DEF First
  <2> DEFINE n == <<b, First(b)>>
  <2>4. given[n] # NoFile /\ n \in Names /\ n[1] = b /\ n[2] = First(b)
    <3>1. PICK k \in 0 .. 1 : given[<<b, k>>] # NoFile
      BY <2>3 DEF SupportedBase, GivenOf
    <3>2. given[n] # NoFile
      BY <3>1 DEF First
    <3> QED
      BY <2>3, <3>2, BytesAssumption DEF Names
  <2> HIDE DEF n
  <2>5. n \in files
    BY <1>1, <2>4 DEF IDir, Listed
  <2>6. InRepair(n)
    BY <1>1, <2>3, <2>4 DEF InRepair, IDir, Typed, DirectoryTypeOK
  <2>7. Good(dir[Output(n)], Pictures(b))
    BY <1>1, <2>2, <2>4, <2>5, <2>6 DEF IFit, GoodOutputs
  <2>8. dir[Output(n)] # NoFile
    BY <2>7, GoodReads, NoFileAssumption
  <2>9. Output(n) = <<b, First(b) + 1>> /\ Output(n)[1] = b
    BY <2>4 DEF Output
  <2>10. Right(<<b, First(b) + 1>>)
    BY <2>7, <2>8, <2>9, GoodIsRight
  <2>11. GivenOf(b)' = GivenOf(b)
    BY <2>2, SameGiven
  <2> QED
    BY <2>2, <2>3, <2>10, <2>11 DEF Right
<1>2. (IDir /\ IFit) /\ (IDir /\ IFit)' /\ [DirectoryNext]_dirVars =>
        [phase = "write" /\ phase' = "ended" =>
           \A b \in Bases : SupportedBase(b) => Right(<<b, First(b) + 1>>)']_dirVars
  <2> SUFFICES ASSUME IDir, IFit, (IDir /\ IFit)', [DirectoryNext]_dirVars, phase = "write",
                      phase' = "ended", NEW b \in Bases, SupportedBase(b)
               PROVE  Right(<<b, First(b) + 1>>)'
    OBVIOUS
  <2>1. given' = given
    BY DEF DirectoryNext, dirVars, ListFiles, BuildTables, DirectoryCrash, CountFile,
           RefuseFile, RefuseImage, WriteOutput, NoCode, EndRun
  <2>2. SupportedBase(b)'
    BY <2>1, SameGiven
  <2> QED
    BY <1>1, <2>2
<1> QED
  BY <1>2, FitInvariant, PTL DEF DirectorySpec, RunDelivers
=============================================================================
