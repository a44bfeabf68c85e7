------------------------- MODULE RecodedFile_proofs -------------------------
(***************************************************************************)
(* The decoder gets from a file the recoder wrote the image it was made    *)
(* from.  The bytes of a file are looked at as frames, one for each        *)
(* restart interval: a frame is its bits and, for each byte's end in them, *)
(* the place in the file of the next byte, over the marker behind it.      *)
(* First, the recoder lays the bits of an image out in frames; then, a     *)
(* decoder that stands in front of a symbol in a frame, with any whole     *)
(* bytes behind it read ahead, reads that symbol and stands in front of    *)
(* the next one.                                                           *)
(***************************************************************************)
EXTENDS Recoder_proofs

(* Pieces of sequences.                                                    *)

\* s is the beginning of t.
Begins(s, t) == Len(s) <= Len(t) /\ \A k \in 1 .. Len(s) : s[k] = t[k]

\* The part of a sequence behind its first a elements, up to the n-th.
LEMMA Piece ==
  ASSUME NEW D, NEW s \in Seq(D), NEW a \in Nat, NEW n \in Nat, a <= n, n <= Len(s)
  PROVE  /\ SubSeq(s, a + 1, n) \in Seq(D) /\ Len(SubSeq(s, a + 1, n)) = n - a
         /\ \A k \in 1 .. n - a : SubSeq(s, a + 1, n)[k] = s[a + k]
<1>1. \A k \in a + 1 .. n : s[k] \in D
  BY ElementOfSeq
<1>2. /\ SubSeq(s, a + 1, n) \in Seq(D)
      /\ Len(SubSeq(s, a + 1, n)) = IF a + 1 <= n THEN n - (a + 1) + 1 ELSE 0
      /\ \A k \in 1 .. n - (a + 1) + 1 : SubSeq(s, a + 1, n)[k] = s[a + 1 + k - 1]
  BY <1>1, SubSeqProperties
<1>3. /\ n - (a + 1) + 1 = n - a /\ (~(a + 1 <= n) => n - a = 0)
      /\ \A k \in 1 .. n - a : a + 1 + k - 1 = a + k
  OBVIOUS
<1> QED
  BY <1>2, <1>3

\* IsPrefix by length and elements.
LEMMA BeginsIs ==
  ASSUME NEW D, NEW s \in Seq(D), NEW t \in Seq(D)
  PROVE  IsPrefix(s, t) <=> Begins(s, t)
<1> DEFINE n == Len(s)
<1>1. n \in Nat /\ Len(t) \in Nat
  OBVIOUS
<1>2. SubSeq(s, 1, n) = s
  BY SubSeqFull
<1>3. ASSUME n <= Len(t)
      PROVE  SubSeq(t, 1, n) = s <=> \A k \in 1 .. n : s[k] = t[k]
  <2>1. /\ SubSeq(t, 0 + 1, n) \in Seq(D) /\ Len(SubSeq(t, 0 + 1, n)) = n - 0
        /\ \A k \in 1 .. n - 0 : SubSeq(t, 0 + 1, n)[k] = t[0 + k]
    BY <1>1, <1>3, Piece
  <2>2. 0 + 1 = 1 /\ n - 0 = n /\ \A k \in 1 .. n : 0 + k = k
    BY <1>1
  <2> DEFINE u == SubSeq(t, 1, n)
  <2>3. u \in Seq(D) /\ Len(u) = n /\ \A k \in 1 .. n : u[k] = t[k]
    BY <2>1, <2>2
  <2> HIDE DEF u
  <2>4. (\A k \in 1 .. n : s[k] = t[k]) => u = s
    <3>1. ASSUME \A k \in 1 .. n : s[k] = t[k]
          PROVE  u = s
      <4>1. \A k \in 1 .. Len(u) : u[k] = s[k]
        BY <2>3, <3>1
      <4> QED
        BY <2>3, <4>1, SeqEqual
    <3> QED
      BY <3>1
  <2> QED
    BY <2>3, <2>4 DEF u
<1> QED
  BY <1>1, <1>2, <1>3 DEF IsPrefix, Begins

\* A part with the length and the elements of w is w.
LEMMA PieceIs ==
  ASSUME NEW D, NEW s \in Seq(D), NEW w \in Seq(D), NEW a \in Nat,
         a + Len(w) <= Len(s), \A k \in 1 .. Len(w) : s[a + k] = w[k]
  PROVE  SubSeq(s, a + 1, a + Len(w)) = w
<1> DEFINE n == a + Len(w)
           u == SubSeq(s, a + 1, n)
<1>1. Len(w) \in Nat /\ n \in Nat /\ a <= n /\ n - a = Len(w)
  OBVIOUS
<1>2. u \in Seq(D) /\ Len(u) = n - a /\ \A k \in 1 .. n - a : u[k] = s[a + k]
  <2>1. n <= Len(s)
    OBVIOUS
  <2> HIDE DEF n
  <2> QED
    BY <1>1, <2>1, Piece
<1> HIDE DEF u
<1>3. \A k \in 1 .. Len(u) : u[k] = w[k]
  BY <1>1, <1>2
<1>4. u = w
  BY <1>1, <1>2, <1>3, SeqEqual
<1> QED
  BY <1>4 DEF u

\* A part up to m and the one behind it.
LEMMA PieceJoin ==
  ASSUME NEW D, NEW s \in Seq(D), NEW a \in Nat, NEW m \in Nat, NEW n \in Nat,
         a <= m, m <= n, n <= Len(s)
  PROVE  SubSeq(s, a + 1, m) \o SubSeq(s, m + 1, n) = SubSeq(s, a + 1, n)
<1>1. /\ a + 1 \in 1 .. Len(s) + 1 /\ m \in (a + 1) - 1 .. Len(s)
      /\ n \in m .. Len(s)
  OBVIOUS
<1> QED
  BY <1>1, ConcatAdjacentSubSeq, Zenon

\* The first k elements of a part, and those behind them.
LEMMA PieceOfPiece ==
  ASSUME NEW D, NEW s \in Seq(D), NEW a \in Nat, NEW n \in Nat, a <= n, n <= Len(s),
         NEW k \in Nat, k <= n - a
  PROVE  /\ SubSeq(SubSeq(s, a + 1, n), 1, k) = SubSeq(s, a + 1, a + k)
         /\ SubSeq(SubSeq(s, a + 1, n), k + 1, n - a) = SubSeq(s, (a + k) + 1, n)
<1> DEFINE p == SubSeq(s, a + 1, n)
           u == SubSeq(p, 1, k)
           v == SubSeq(p, k + 1, n - a)
           x == SubSeq(s, a + 1, a + k)
           y == SubSeq(s, (a + k) + 1, n)
<1>1. p \in Seq(D) /\ Len(p) = n - a /\ \A d \in 1 .. n - a : p[d] = s[a + d]
  BY Piece
<1> HIDE DEF p
<1>2. /\ x \in Seq(D) /\ Len(x) = k /\ \A d \in 1 .. k : x[d] = s[a + d]
  <2>1. /\ a + k \in Nat /\ a <= a + k /\ a + k <= Len(s) /\ (a + k) - a = k
    OBVIOUS
  <2>2. /\ x \in Seq(D) /\ Len(x) = (a + k) - a
        /\ \A d \in 1 .. (a + k) - a : x[d] = s[a + d]
    BY <2>1, Piece
  <2> HIDE DEF x
  <2> QED
    BY <2>1, <2>2
<1>3. /\ y \in Seq(D) /\ Len(y) = n - (a + k)
      /\ \A d \in 1 .. n - (a + k) : y[d] = s[(a + k) + d]
  <2>1. /\ a + k \in Nat /\ a + k <= n
    OBVIOUS
  <2> QED
    BY <2>1, Piece
<1>4. /\ u \in Seq(D) /\ Len(u) = k /\ \A d \in 1 .. k : u[d] = p[d]
  <2>1. /\ SubSeq(p, 0 + 1, k) \in Seq(D) /\ Len(SubSeq(p, 0 + 1, k)) = k - 0
        /\ \A d \in 1 .. k - 0 : SubSeq(p, 0 + 1, k)[d] = p[0 + d]
    <3>1. 0 <= k /\ k <= Len(p) /\ 0 \in Nat
      BY <1>1
    <3> QED
      BY <1>1, <3>1, Piece
  <2>2. 0 + 1 = 1 /\ k - 0 = k /\ \A d \in 1 .. k : 0 + d = d
    OBVIOUS
  <2> QED
    BY <2>1, <2>2
<1>5. /\ v \in Seq(D) /\ Len(v) = (n - a) - k
      /\ \A d \in 1 .. (n - a) - k : v[d] = p[k + d]
  <2>1. n - a \in Nat /\ k <= n - a /\ n - a <= Len(p)
    BY <1>1
  <2> QED
    BY <1>1, <2>1, Piece
<1> HIDE DEF u, v, x, y
<1>6. u = x
  <2>1. ASSUME NEW d \in 1 .. k
        PROVE  u[d] = x[d]
    <3>1. d \in 1 .. n - a
      OBVIOUS
    <3> QED
      BY <1>1, <1>2, <1>4, <3>1
  <2> QED
    BY <1>2, <1>4, <2>1, SeqEqual
<1>7. v = y
  <2>1. Len(v) = Len(y)
    BY <1>3, <1>5
  <2>2. ASSUME NEW d \in 1 .. (n - a) - k
        PROVE  v[d] = y[d]
    <3>1. k + d \in 1 .. n - a /\ a + (k + d) = (a + k) + d /\ d \in 1 .. n - (a + k)
      OBVIOUS
    <3> QED
      BY <1>1, <1>3, <1>5, <3>1
  <2>3. \A d \in 1 .. Len(v) : v[d] = y[d]
    BY <1>5, <2>2
  <2> QED
    BY <1>3, <1>5, <2>1, <2>3, SeqEqual
<1> QED
  BY <1>6, <1>7 DEF p, u, v, x, y

\* What a sequence begins, it begins also when more is behind that.
LEMMA BeginsJoin ==
  ASSUME NEW D, NEW s \in Seq(D), NEW t \in Seq(D)
  PROVE  /\ Begins(s, s) /\ Begins(s, s \o t)
         /\ \A r \in Seq(D) : Begins(r, s) => Begins(r, s \o t)
<1>1. /\ s \o t \in Seq(D) /\ Len(s \o t) = Len(s) + Len(t)
      /\ \A k \in 1 .. Len(s) + Len(t) :
           (s \o t)[k] = IF k <= Len(s) THEN s[k] ELSE t[k - Len(s)]
  BY ConcatProperties
<1>2. Len(s) \in Nat /\ Len(t) \in Nat
  OBVIOUS
<1> DEFINE b == s \o t
<1> HIDE DEF b
<1>3. Len(b) = Len(s) + Len(t) /\ \A k \in 1 .. Len(s) : b[k] = s[k]
  BY <1>1, <1>2 DEF b
<1>4. ASSUME NEW r \in Seq(D), Begins(r, s)
      PROVE  Begins(r, b)
  <2>1. Len(r) \in Nat
    OBVIOUS
  <2> QED
    BY <1>2, <1>3, <1>4, <2>1 DEF Begins
<1>5. Begins(s, s)
  BY <1>2 DEF Begins
<1> QED
  BY <1>4, <1>5 DEF b

\* What follows a beginning in a sequence that the two begin.
LEMMA BeginsBehind ==
  ASSUME NEW D, NEW s \in Seq(D), NEW t \in Seq(D), NEW u \in Seq(D), Begins(s \o t, u)
  PROVE  /\ Len(s) + Len(t) <= Len(u) /\ Begins(s, u)
         /\ \A k \in 1 .. Len(t) : u[Len(s) + k] = t[k]
<1> DEFINE b == s \o t
<1>1. /\ Len(b) = Len(s) + Len(t) /\ Len(s) \in Nat /\ Len(t) \in Nat
      /\ \A k \in 1 .. Len(s) + Len(t) :
           b[k] = IF k <= Len(s) THEN s[k] ELSE t[k - Len(s)]
  BY ConcatProperties
<1>2. Len(b) <= Len(u) /\ \A k \in 1 .. Len(b) : b[k] = u[k]
  BY DEF Begins
<1> HIDE DEF b
<1>3. Begins(s, u)
  BY <1>1, <1>2 DEF Begins
<1>4. ASSUME NEW k \in 1 .. Len(t)
      PROVE  u[Len(s) + k] = t[k]
  <2>1. /\ Len(s) + k \in 1 .. Len(s) + Len(t) /\ ~(Len(s) + k <= Len(s))
        /\ (Len(s) + k) - Len(s) = k
    BY <1>1
  <2> QED
    BY <1>1, <1>2, <2>1
<1> QED
  BY <1>1, <1>2, <1>3, <1>4

-----------------------------------------------------------------------------

(* Frames.                                                                 *)

\* What the decoder may find in a scan.
RawItem == Item \cup {End}

\* the byte of zeros at i + 1 is skipped
StuffedAt(scan, i) ==
  scan[i] = Data(Ones) /\ i < Len(scan) /\ scan[i + 1] = Data(Zeros)

\* The byte of the scan that has the bits of frame f behind the first o ones.
Loads(f, scan, o) ==
  /\ o + ByteBits \in DOMAIN f.pos
  /\ f.pos[o] \in 1 .. Len(scan)
  /\ scan[f.pos[o]] = Data(Ones) => f.pos[o] < Len(scan)
  /\ BitsOf(scan[f.pos[o]]) = SubSeq(f.bits, o + 1, o + ByteBits)
  /\ f.pos[o + ByteBits] = f.pos[o] + (IF StuffedAt(scan, f.pos[o]) THEN 2 ELSE 1)

\* A part of the scan as the decoder reads it: its bits, and for each number of them
\* that is read at a byte's end the place in the scan of the next byte.
Frame(f, scan) ==
  /\ f.bits \in Seq(Bit)
  /\ 0 \in DOMAIN f.pos /\ Len(f.bits) \in DOMAIN f.pos
  /\ \A o \in DOMAIN f.pos :
       /\ o \in 0 .. Len(f.bits)
       /\ f.pos[o] \in Nat \ {0} /\ f.pos[0] <= f.pos[o]
       /\ o # Len(f.bits) => Loads(f, scan, o)

\* The frame with the next byte of the scan.
Grown(f, scan) ==
  LET i == f.pos[Len(f.bits)]
      n == Len(f.bits) + ByteBits
  IN  [bits |-> f.bits \o BitsOf(scan[i]),
       pos  |-> [o \in DOMAIN f.pos \cup {n} |->
                  IF o = n THEN i + (IF StuffedAt(scan, i) THEN 2 ELSE 1) ELSE f.pos[o]]]

\* Any byte of a scan gives ByteBits bits, and data gives its own.
LEMMA BitsTyped ==
  ASSUME NEW x \in RawItem
  PROVE  /\ BitsOf(x) \in Seq(Bit) /\ Len(BitsOf(x)) = ByteBits
         /\ \A b \in Byte : x = Data(b) => BitsOf(x) = b
<1>0. ByteBits \in Nat \ {0}
  BY ByteBitsAssumption
<1>1. CASE \E b \in Byte : x = Data(b)
  <2>1. PICK b \in Byte : x = Data(b)
    BY <1>1
  <2>2. DOMAIN x = {"data"} /\ x.data = b
    BY <2>1 DEF Data
  <2>3. BitsOf(x) = b
    BY <2>2 DEF BitsOf, IsMarker
  <2>4. b \in Seq(Bit) /\ Len(b) = ByteBits
    BY BytesTyped
  <2>5. \A d \in Byte : x = Data(d) => b = d
    <3>1. ASSUME NEW d \in Byte, x = Data(d)
          PROVE  b = d
      <4>1. x.data = d
        BY <3>1 DEF Data
      <4> QED
        BY <2>2, <4>1
    <3> QED
      BY <3>1
  <2> QED
    BY <2>3, <2>4, <2>5
<1>2. CASE ~(\E b \in Byte : x = Data(b))
  <2>1. x = End \/ \E n \in 0 .. 7 : x = Rst(n)
    BY <1>2 DEF RawItem, Item
  <2>2. IsMarker(x)
    <3>1. CASE x = End
      <4>1. DOMAIN x = {"end"}
        BY <3>1 DEF End
      <4> QED
        BY <4>1 DEF IsMarker
    <3>2. CASE \E n \in 0 .. 7 : x = Rst(n)
      <4>1. DOMAIN x = {"rst"}
        BY <3>2 DEF Rst
      <4> QED
        BY <4>1 DEF IsMarker
    <3> QED
      BY <2>1, <3>1, <3>2
  <2> DEFINE w == [k \in 1 .. ByteBits |-> IF k = 1 THEN 1 ELSE 0]
  <2>3. w \in Seq(Bit) /\ Len(w) = ByteBits
    <3>1. w \in [1 .. ByteBits -> Bit]
      BY DEF Bit
    <3> HIDE DEF w
    <3>2. w \in Byte
      BY <3>1 DEF Byte
    <3> QED
      BY <3>2, BytesTyped
  <2>4. BitsOf(x) = w
    BY <2>2 DEF BitsOf
  <2> HIDE DEF w
  <2> QED
    BY <1>2, <2>3, <2>4
<1> QED
  BY <1>1, <1>2

\* A frame stays one when the scan goes on.
LEMMA FrameStays ==
  ASSUME NEW f, NEW scan \in Seq(RawItem), NEW more \in Seq(RawItem), Frame(f, scan)
  PROVE  Frame(f, scan \o more)
<1> DEFINE s == scan \o more
<1>1. /\ Len(s) = Len(scan) + Len(more) /\ Len(scan) \in Nat /\ Len(more) \in Nat
      /\ \A k \in 1 .. Len(scan) : s[k] = scan[k]
  <2>1. /\ s \in Seq(RawItem) /\ Len(s) = Len(scan) + Len(more)
        /\ \A k \in 1 .. Len(scan) + Len(more) :
             s[k] = IF k <= Len(scan) THEN scan[k] ELSE more[k - Len(scan)]
    BY ConcatProperties
  <2>2. Len(scan) \in Nat /\ Len(more) \in Nat
    OBVIOUS
  <2> HIDE DEF s
  <2> QED
    BY <2>1, <2>2
<1> HIDE DEF s
<1>2. ASSUME NEW o \in DOMAIN f.pos, Loads(f, scan, o)
      PROVE  Loads(f, s, o)
  <2> DEFINE i == f.pos[o]
  <2>1. i \in 1 .. Len(scan) /\ (scan[i] = Data(Ones) => i < Len(scan))
    BY <1>2 DEF Loads
  <2>2. i \in 1 .. Len(s) /\ s[i] = scan[i] /\ (i < Len(scan) => i < Len(s))
    BY <1>1, <2>1
  <2>3. i < Len(scan) => s[i + 1] = scan[i + 1]
    BY <1>1, <2>1
  <2>4. StuffedAt(s, i) <=> StuffedAt(scan, i)
    BY <2>1, <2>2, <2>3 DEF StuffedAt
  <2> QED
    BY <1>2, <2>1, <2>2, <2>4 DEF Loads
<1>3. Frame(f, s)
  BY <1>2 DEF Frame
<1> QED
  BY <1>3 DEF s

\* A frame that takes in the byte of the scan at its end.
LEMMA FrameGrows ==
  ASSUME NEW f, NEW scan \in Seq(RawItem), Frame(f, scan),
         f.pos[Len(f.bits)] \in 1 .. Len(scan),
         scan[f.pos[Len(f.bits)]] = Data(Ones) => f.pos[Len(f.bits)] < Len(scan)
  PROVE  LET i == f.pos[Len(f.bits)]
             g == Grown(f, scan)
         IN  /\ Frame(g, scan)
             /\ g.bits = f.bits \o BitsOf(scan[i])
             /\ Len(g.bits) = Len(f.bits) + ByteBits
             /\ g.pos[Len(g.bits)] = i + (IF StuffedAt(scan, i) THEN 2 ELSE 1)
             /\ DOMAIN g.pos = DOMAIN f.pos \cup {Len(g.bits)}
             /\ \A o \in DOMAIN f.pos : g.pos[o] = f.pos[o]
<1> DEFINE i == f.pos[Len(f.bits)]
           g == Grown(f, scan)
           n == Len(f.bits) + ByteBits
           b == BitsOf(scan[i])
           next == i + (IF StuffedAt(scan, i) THEN 2 ELSE 1)
<1>0. ByteBits \in Nat \ {0} /\ f.bits \in Seq(Bit) /\ Len(f.bits) \in Nat
  BY ByteBitsAssumption DEF Frame
<1>1. b \in Seq(Bit) /\ Len(b) = ByteBits
  <2>1. scan[i] \in RawItem
    BY ElementOfSeq
  <2> QED
    BY <2>1, BitsTyped
<1>2. /\ g.bits = f.bits \o b /\ DOMAIN g.pos = DOMAIN f.pos \cup {n}
      /\ \A o \in DOMAIN f.pos \cup {n} : g.pos[o] = IF o = n THEN next ELSE f.pos[o]
  BY DEF Grown
<1>3. /\ g.bits \in Seq(Bit) /\ Len(g.bits) = n
      /\ \A k \in 1 .. Len(f.bits) + ByteBits :
           g.bits[k] = IF k <= Len(f.bits) THEN f.bits[k] ELSE b[k - Len(f.bits)]
  <2> HIDE DEF b, g
  <2> DEFINE w == f.bits \o b
  <2>1. /\ w \in Seq(Bit) /\ Len(w) = Len(f.bits) + Len(b)
        /\ \A k \in 1 .. Len(f.bits) + Len(b) :
             w[k] = IF k <= Len(f.bits) THEN f.bits[k] ELSE b[k - Len(f.bits)]
    BY <1>0, <1>1, ConcatProperties
  <2>2. g.bits = w
    BY <1>2
  <2> HIDE DEF w
  <2> QED
    BY <1>1, <2>1, <2>2
<1>4. i \in Nat \ {0} /\ next \in Nat \ {0} /\ i <= next
  BY DEF StuffedAt
<1>5. \A o \in DOMAIN f.pos : o \in 0 .. Len(f.bits) /\ o # n /\ g.pos[o] = f.pos[o]
  <2>1. \A o \in DOMAIN f.pos : o \in 0 .. Len(f.bits)
    BY DEF Frame
  <2>2. \A o \in DOMAIN f.pos : o # n
    BY <1>0, <2>1
  <2> QED
    BY <1>2, <2>1, <2>2
<1>6. g.pos[n] = next /\ n \in DOMAIN g.pos
  BY <1>2
<1> HIDE DEF g, b, next
<1>7. ASSUME NEW o \in DOMAIN f.pos
      PROVE  Loads(g, scan, o)
  <2>1. CASE o = Len(f.bits)
    <3>1. g.pos[o] = i /\ o + ByteBits = n
      BY <1>5, <2>1
    <3>2. SubSeq(g.bits, o + 1, o + ByteBits) = b
      <4>1. /\ o \in Nat /\ o + Len(b) <= Len(g.bits)
            /\ \A k \in 1 .. Len(b) : g.bits[o + k] = b[k]
        <5>1. o \in Nat /\ o + Len(b) <= Len(g.bits)
          BY <1>0, <1>1, <1>3, <2>1
        <5>2. ASSUME NEW k \in 1 .. Len(b)
              PROVE  g.bits[o + k] = b[k]
          <6>1. /\ o + k \in 1 .. Len(f.bits) + ByteBits /\ ~(o + k <= Len(f.bits))
                /\ (o + k) - Len(f.bits) = k
            BY <1>0, <1>1, <2>1
          <6> QED
            BY <1>3, <6>1
        <5> QED
          BY <5>1, <5>2
      <4>2. SubSeq(g.bits, o + 1, o + Len(b)) = b
        BY <1>1, <1>3, <4>1, PieceIs
      <4> QED
        BY <1>1, <4>2
    <3> QED
      BY <1>6, <3>1, <3>2 DEF Loads, b, next
  <2>2. CASE o # Len(f.bits)
    <3>1. Loads(f, scan, o)
      BY <2>2 DEF Frame
    <3>2. o + ByteBits \in DOMAIN f.pos /\ o + ByteBits \in 0 .. Len(f.bits) /\ o \in Nat
      BY <3>1, <1>5 DEF Loads
    <3>3. SubSeq(g.bits, o + 1, o + ByteBits) = SubSeq(f.bits, o + 1, o + ByteBits)
      <4> DEFINE w == SubSeq(f.bits, o + 1, o + ByteBits)
      <4>1. /\ w \in Seq(Bit) /\ Len(w) = (o + ByteBits) - o
            /\ \A k \in 1 .. (o + ByteBits) - o : w[k] = f.bits[o + k]
        <5>1. o + ByteBits \in Nat /\ o <= o + ByteBits /\ o + ByteBits <= Len(f.bits)
          BY <1>0, <3>2
        <5> DEFINE e == o + ByteBits
        <5>2. e \in Nat /\ o <= e /\ e <= Len(f.bits)
          BY <5>1
        <5> HIDE DEF e
        <5>3. /\ SubSeq(f.bits, o + 1, e) \in Seq(Bit)
              /\ Len(SubSeq(f.bits, o + 1, e)) = e - o
              /\ \A k \in 1 .. e - o : SubSeq(f.bits, o + 1, e)[k] = f.bits[o + k]
          <6> DEFINE old == f.bits
          <6>1. old \in Seq(Bit) /\ o \in Nat /\ e <= Len(old)
            BY <1>0, <3>2, <5>2
          <6> HIDE DEF old
          <6>2. /\ SubSeq(old, o + 1, e) \in Seq(Bit)
                /\ Len(SubSeq(old, o + 1, e)) = e - o
                /\ \A k \in 1 .. e - o : SubSeq(old, o + 1, e)[k] = old[o + k]
            BY <5>2, <6>1, Piece
          <6> QED
            BY <6>2 DEF old
        <5> QED
          BY <5>3 DEF e
      <4> HIDE DEF w
      <4>2. Len(w) = ByteBits /\ \A k \in 1 .. Len(w) : w[k] = f.bits[o + k]
        BY <1>0, <3>2, <4>1
      <4>3. /\ o + Len(w) <= Len(g.bits)
            /\ \A k \in 1 .. Len(w) : g.bits[o + k] = w[k]
        <5>1. o + Len(w) <= Len(g.bits)
          BY <1>0, <1>3, <3>2, <4>2
        <5>2. ASSUME NEW k \in 1 .. Len(w)
              PROVE  g.bits[o + k] = w[k]
          <6>1. /\ o + k \in 1 .. Len(f.bits) + ByteBits /\ o + k <= Len(f.bits)
            BY <1>0, <3>2, <4>2
          <6> QED
            BY <1>3, <4>2, <6>1
        <5> QED
          BY <5>1, <5>2
      <4>4. SubSeq(g.bits, o + 1, o + Len(w)) = w
        BY <1>3, <3>2, <4>1, <4>3, PieceIs
      <4> QED
        BY <4>2, <4>4 DEF w
    <3>4. o + ByteBits \in DOMAIN g.pos
      BY <1>2, <3>2
    <3> QED
      BY <1>5, <3>1, <3>2, <3>3, <3>4 DEF Loads
  <2> QED
    BY <2>1, <2>2
<1>8. Frame(g, scan)
  <2>1. 0 \in DOMAIN f.pos /\ 0 \in DOMAIN g.pos /\ Len(g.bits) \in DOMAIN g.pos
    BY <1>2, <1>3 DEF Frame
  <2>2. ASSUME NEW o \in DOMAIN g.pos
        PROVE  /\ o \in 0 .. Len(g.bits)
               /\ g.pos[o] \in Nat \ {0} /\ g.pos[0] <= g.pos[o]
               /\ o # Len(g.bits) => Loads(g, scan, o)
    <3>1. g.pos[0] = f.pos[0] /\ f.pos[0] <= i /\ f.pos[0] \in Nat
      BY <1>5, <2>1 DEF Frame
    <3>2. CASE o = n
      BY <1>0, <1>3, <1>4, <1>6, <3>1, <3>2
    <3>3. CASE o \in DOMAIN f.pos
      <4>1. f.pos[o] \in Nat \ {0} /\ f.pos[0] <= f.pos[o]
        BY <3>3 DEF Frame
      <4> QED
        BY <1>0, <1>3, <1>5, <1>7, <3>1, <3>3, <4>1
    <3> QED
      BY <1>2, <3>2, <3>3
  <2> QED
    BY <1>3, <2>1, <2>2 DEF Frame
<1> QED
  BY <1>2, <1>3, <1>5, <1>6, <1>8 DEF g, b, next

-----------------------------------------------------------------------------
(* Frames the marker behind them closes, and how the writer makes them.    *)

\* No restart marker is in the scan from place i on.
NoMarks(scan, i) == \A k \in i .. Len(scan) : scan[k] \notin {Rst(n) : n \in 0 .. 7}

\* the bits of a frame in front of the two bytes of the marker behind it
Whole(f) == Len(f.bits) - 2 * ByteBits

\* A frame that goes on over the marker behind it, as one that reads ahead does.
ClosedAtMarker(f, scan) ==
  /\ Frame(f, scan)
  /\ Whole(f) \in DOMAIN f.pos /\ Whole(f) + ByteBits \in DOMAIN f.pos
  /\ f.pos[Whole(f)] \in 1 .. Len(scan) - 1
  /\ scan[f.pos[Whole(f)]] = Data(Ones)
  /\ f.pos[Whole(f) + ByteBits] = f.pos[Whole(f)] + 1
  /\ f.pos[Len(f.bits)] = f.pos[Whole(f)] + 2
  /\ \A o \in DOMAIN f.pos :
       \/ o <= Whole(f) - ByteBits \/ o = Whole(f)
       \/ o = Whole(f) + ByteBits \/ o = Len(f.bits)

\* Bytes of data, restart markers and the end are told apart.
LEMMA ItemsApart ==
  /\ Data(Ones) \in RawItem /\ Data(Zeros) \in RawItem /\ End \in RawItem
  /\ Data(Zeros) # Data(Ones)
  /\ \A n \in 0 .. 7 : /\ Rst(n) \in RawItem /\ Rst(n) # End
                       /\ \A m \in 0 .. 7 : Rst(n) = Rst(m) => n = m
  /\ \A x \in RawItem : /\ IsMarker(x) <=> \A b \in Byte : x # Data(b)
                        /\ IsMarker(x) <=> x = End \/ \E n \in 0 .. 7 : x = Rst(n)
<1>1. /\ Data(Ones) \in RawItem /\ Data(Zeros) \in RawItem /\ End \in RawItem
      /\ \A n \in 0 .. 7 : Rst(n) \in RawItem
  BY BytesTyped DEF RawItem, Item
<1>2. Data(Zeros) # Data(Ones)
  <2>1. Data(Zeros).data = Zeros /\ Data(Ones).data = Ones
    BY DEF Data
  <2> QED
    BY <2>1, BytesTyped
<1>3. /\ \A b : DOMAIN Data(b) = {"data"}
      /\ \A n : DOMAIN Rst(n) = {"rst"} /\ Rst(n).rst = n
      /\ DOMAIN End = {"end"}
  BY DEF Data, Rst, End
<1>4. {"data"} # {"rst"} /\ {"data"} # {"end"} /\ {"rst"} # {"end"}
  OBVIOUS
<1>5. /\ \A n \in 0 .. 7 : Rst(n) # End
      /\ \A n, m \in 0 .. 7 : Rst(n) = Rst(m) => n = m
  <2>1. ASSUME NEW n \in 0 .. 7, Rst(n) = End PROVE FALSE
    BY <1>3, <1>4, <2>1
  <2>2. ASSUME NEW n \in 0 .. 7, NEW m \in 0 .. 7, Rst(n) = Rst(m) PROVE n = m
    <3>1. Rst(n).rst = n /\ Rst(m).rst = m
      BY <1>3
    <3> QED
      BY <2>2, <3>1
  <2> QED
    BY <2>1, <2>2
<1>6. ASSUME NEW x \in RawItem
      PROVE  /\ IsMarker(x) <=> \A b \in Byte : x # Data(b)
             /\ IsMarker(x) <=> x = End \/ \E n \in 0 .. 7 : x = Rst(n)
  <2>1. \/ \E b \in Byte : x = Data(b)
        \/ x = End \/ \E n \in 0 .. 7 : x = Rst(n)
    BY DEF RawItem, Item
  <2>2. (\E b \in Byte : x = Data(b)) => ~IsMarker(x)
    BY <1>3 DEF IsMarker
  <2>3. (x = End \/ \E n \in 0 .. 7 : x = Rst(n)) => IsMarker(x)
    BY <1>3 DEF IsMarker
  <2> QED
    BY <2>1, <2>2, <2>3
<1> QED
  BY <1>1, <1>2, <1>5, <1>6

\* Frame g is frame f with the bits b of a byte behind it, and next the next place.
Onward(f, g, b, next) ==
  /\ g.bits = f.bits \o b
  /\ Len(g.bits) = Len(f.bits) + ByteBits
  /\ g.pos[Len(g.bits)] = next
  /\ DOMAIN g.pos = DOMAIN f.pos \cup {Len(g.bits)}
  /\ \A o \in DOMAIN f.pos : g.pos[o] = f.pos[o]

\* A frame takes in a byte that is not stuffed.
LEMMA FrameTakes ==
  ASSUME NEW f, NEW scan \in Seq(RawItem), Frame(f, scan),
         NEW i \in 1 .. Len(scan), f.pos[Len(f.bits)] = i,
         scan[i] = Data(Ones) => i < Len(scan) /\ scan[i + 1] # Data(Zeros)
  PROVE  \E g : Frame(g, scan) /\ Onward(f, g, BitsOf(scan[i]), i + 1)
<1> DEFINE g == Grown(f, scan)
<1>1. /\ Frame(g, scan)
      /\ g.bits = f.bits \o BitsOf(scan[i])
      /\ Len(g.bits) = Len(f.bits) + ByteBits
      /\ g.pos[Len(g.bits)] = i + (IF StuffedAt(scan, i) THEN 2 ELSE 1)
      /\ DOMAIN g.pos = DOMAIN f.pos \cup {Len(g.bits)}
      /\ \A o \in DOMAIN f.pos : g.pos[o] = f.pos[o]
  BY FrameGrows
<1>2. ~StuffedAt(scan, i)
  BY DEF StuffedAt
<1> HIDE DEF g
<1>3. Onward(f, g, BitsOf(scan[i]), i + 1)
  BY <1>1, <1>2 DEF Onward
<1> QED
  BY <1>1, <1>3

\* A frame with the marker behind it.
LEMMA FrameEnds ==
  ASSUME NEW f, NEW scan \in Seq(RawItem), Frame(f, scan),
         f.pos[Len(f.bits)] \in 1 .. Len(scan) - 1,
         scan[f.pos[Len(f.bits)]] = Data(Ones),
         IsMarker(scan[f.pos[Len(f.bits)] + 1])
  PROVE  \E g : /\ ClosedAtMarker(g, scan) /\ Whole(g) = Len(f.bits)
                /\ Begins(f.bits, g.bits)
                /\ g.pos[Whole(g)] = f.pos[Len(f.bits)] /\ g.pos[0] = f.pos[0]
<1> DEFINE d == Len(f.bits)
           i == f.pos[d]
<1>0. /\ ByteBits \in Nat \ {0} /\ f.bits \in Seq(Bit) /\ d \in Nat /\ d \in DOMAIN f.pos
      /\ 0 \in DOMAIN f.pos /\ \A o \in DOMAIN f.pos : o \in 0 .. d
      /\ Len(scan) \in Nat
  BY ByteBitsAssumption DEF Frame
<1>1. i \in 1 .. Len(scan) /\ i + 1 \in 1 .. Len(scan) /\ i < Len(scan) /\ i \in Nat
  BY <1>0
<1>2. scan[i] \in RawItem /\ scan[i + 1] \in RawItem
  <2>1. \A k \in 1 .. Len(scan) : scan[k] \in RawItem
    BY ElementOfSeq
  <2> QED
    BY <1>1, <2>1
<1>3. scan[i + 1] # Data(Zeros) /\ scan[i + 1] # Data(Ones)
  BY <1>2, ItemsApart, BytesTyped
<1> HIDE DEF i, d
<1>4. f.pos[d] = i /\ scan[i] = Data(Ones)
  BY DEF i, d
<1>5. PICK g : Frame(g, scan) /\ Onward(f, g, BitsOf(scan[i]), i + 1)
  <2>1. \E g : Frame(g, scan) /\ Onward(f, g, BitsOf(scan[i]), i + 1)
    BY <1>1, <1>3, <1>4, FrameTakes DEF d
  <2> QED
    BY <2>1
<1>6. g.pos[Len(g.bits)] = i + 1 /\ Len(g.bits) = d + ByteBits
  BY <1>5 DEF Onward, d
<1>7. PICK h : Frame(h, scan) /\ Onward(g, h, BitsOf(scan[i + 1]), (i + 1) + 1)
  <2>1. \E h : Frame(h, scan) /\ Onward(g, h, BitsOf(scan[i + 1]), (i + 1) + 1)
    BY <1>1, <1>3, <1>5, <1>6, FrameTakes
  <2> QED
    BY <2>1
<1>8. Whole(h) = d /\ Len(h.bits) = (d + ByteBits) + ByteBits
  <2>1. Len(h.bits) = (d + ByteBits) + ByteBits
    BY <1>6, <1>7 DEF Onward
  <2> QED
    BY <1>0, <2>1 DEF Whole
<1>9. DOMAIN h.pos = DOMAIN f.pos \cup {d + ByteBits, Len(h.bits)}
  BY <1>5, <1>6, <1>7 DEF Onward
<1>10. /\ h.pos[d] = i /\ h.pos[d + ByteBits] = i + 1 /\ h.pos[Len(h.bits)] = i + 2
       /\ h.pos[0] = f.pos[0]
  <2>1. \A o \in DOMAIN f.pos : g.pos[o] = f.pos[o] /\ o \in DOMAIN g.pos
    BY <1>5 DEF Onward
  <2>2. \A o \in DOMAIN g.pos : h.pos[o] = g.pos[o]
    BY <1>7 DEF Onward
  <2>3. d + ByteBits \in DOMAIN g.pos /\ g.pos[d + ByteBits] = i + 1
    BY <1>5, <1>6 DEF Onward
  <2>4. h.pos[Len(h.bits)] = (i + 1) + 1
    BY <1>7 DEF Onward
  <2> QED
    BY <1>0, <1>1, <1>4, <2>1, <2>2, <2>3, <2>4
<1>11. \A o \in DOMAIN f.pos : o <= d - ByteBits \/ o = d
  <2> SUFFICES ASSUME NEW o \in DOMAIN f.pos, o # d
               PROVE  o <= d - ByteBits
    OBVIOUS
  <2>1. o + ByteBits \in DOMAIN f.pos
    BY DEF Frame, Loads, d
  <2> QED
    BY <1>0, <2>1
<1>12. ClosedAtMarker(h, scan)
  <2>1. \A o \in DOMAIN h.pos :
          \/ o <= d - ByteBits \/ o = d \/ o = d + ByteBits \/ o = Len(h.bits)
    BY <1>9, <1>11
  <2>2. d \in DOMAIN h.pos /\ d + ByteBits \in DOMAIN h.pos
    BY <1>0, <1>9
  <2>3. i \in 1 .. Len(scan) - 1
    BY <1>0, <1>1
  <2> QED
    BY <1>4, <1>7, <1>8, <1>10, <2>1, <2>2, <2>3 DEF ClosedAtMarker
<1>13. Begins(f.bits, h.bits)
  <2> DEFINE a == f.bits
             x == BitsOf(scan[i])
             y == BitsOf(scan[i + 1])
  <2>1. x \in Seq(Bit) /\ y \in Seq(Bit) /\ a \in Seq(Bit)
    BY <1>0, <1>2, BitsTyped
  <2>2. h.bits = (a \o x) \o y
    BY <1>5, <1>7 DEF Onward
  <2> HIDE DEF a, x, y
  <2>3. Begins(a, a \o x) /\ a \o x \in Seq(Bit)
    BY <2>1, BeginsJoin, Joined
  <2>4. Begins(a, (a \o x) \o y)
    BY <2>1, <2>3, BeginsJoin
  <2> QED
    BY <2>2, <2>4 DEF a
<1> QED
  BY <1>8, <1>10, <1>12, <1>13 DEF i, d

\* A frame takes in a byte that is emitted behind it.
LEMMA FrameWrites ==
  ASSUME NEW f, NEW scan \in Seq(RawItem), Frame(f, scan),
         f.pos[Len(f.bits)] = Len(scan) + 1, NEW b \in Byte
  PROVE  /\ scan \o Emit(b) \in Seq(RawItem)
         /\ \A i \in Nat \ {0} : NoMarks(scan, i) => NoMarks(scan \o Emit(b), i)
         /\ \E g : /\ Frame(g, scan \o Emit(b)) /\ g.bits = f.bits \o b
                   /\ g.pos[Len(g.bits)] = Len(scan \o Emit(b)) + 1
                   /\ g.pos[0] = f.pos[0]
<1> DEFINE e == Emit(b)
           s == scan \o e
           n == Len(scan)
<1>0. Data(b) \in RawItem /\ ~IsMarker(Data(b)) /\ ~IsMarker(Data(Zeros)) /\ n \in Nat
  <2>1. Data(b) \in RawItem /\ Data(Zeros) \in RawItem /\ Zeros \in Byte
    BY ItemsApart, BytesTyped DEF RawItem, Item
  <2>2. n \in Nat
    OBVIOUS
  <2>3. ~IsMarker(Data(b)) /\ ~IsMarker(Data(Zeros))
    BY DEF IsMarker, Data
  <2> QED
    BY <2>1, <2>2, <2>3
<1>1. /\ e \in Seq(RawItem)
      /\ \/ b = Ones /\ Len(e) = 2 /\ e[1] = Data(b) /\ e[2] = Data(Zeros)
         \/ b # Ones /\ Len(e) = 1 /\ e[1] = Data(b)
  <2> DEFINE x == Data(b)
             z == Data(Zeros)
  <2>1. x \in RawItem /\ z \in RawItem
    BY <1>0, ItemsApart
  <2>2. e = IF b = Ones THEN <<x, z>> ELSE <<x>>
    BY DEF Emit
  <2> HIDE DEF x, z, e
  <2>3. /\ <<x, z>> \in Seq(RawItem) /\ Len(<<x, z>>) = 2
        /\ <<x, z>>[1] = x /\ <<x, z>>[2] = z
        /\ <<x>> \in Seq(RawItem) /\ Len(<<x>>) = 1 /\ <<x>>[1] = x
    BY <2>1
  <2>4. /\ e \in Seq(RawItem)
        /\ \/ b = Ones /\ Len(e) = 2 /\ e[1] = x /\ e[2] = z
           \/ b # Ones /\ Len(e) = 1 /\ e[1] = x
    BY <2>2, <2>3
  <2> QED
    BY <2>4 DEF x, z
<1> HIDE DEF e
<1>2. /\ s \in Seq(RawItem) /\ Len(s) = n + Len(e)
      /\ \A k \in 1 .. n + Len(e) : s[k] = IF k <= n THEN scan[k] ELSE e[k - n]
  BY <1>1, ConcatProperties
<1>3. Frame(f, s)
  BY <1>1, FrameStays
<1> HIDE DEF s
<1>4. n + 1 \in 1 .. Len(s) /\ s[n + 1] = Data(b)
  BY <1>0, <1>1, <1>2
<1>5. b = Ones => n + 1 < Len(s) /\ s[n + 2] = Data(Zeros)
  <2> SUFFICES ASSUME b = Ones
               PROVE  n + 1 < Len(s) /\ s[n + 2] = Data(Zeros)
    OBVIOUS
  <2>1. Len(e) = 2 /\ e[2] = Data(Zeros)
    BY <1>1
  <2> QED
    BY <1>0, <1>2, <2>1
<1>6. Data(b) = Data(Ones) => b = Ones
  <2>1. Data(b).data = b /\ Data(Ones).data = Ones
    BY DEF Data
  <2> QED
    BY <2>1
<1>7. StuffedAt(s, n + 1) <=> b = Ones
  <2>1. (n + 1) + 1 = n + 2
    BY <1>0
  <2> QED
    BY <1>4, <1>5, <1>6, <2>1 DEF StuffedAt
<1> DEFINE g == Grown(f, s)
<1>8. /\ Frame(g, s) /\ g.bits = f.bits \o BitsOf(s[n + 1])
      /\ g.pos[Len(g.bits)] = (n + 1) + (IF StuffedAt(s, n + 1) THEN 2 ELSE 1)
      /\ \A o \in DOMAIN f.pos : g.pos[o] = f.pos[o]
  <2> HIDE DEF n
  <2> DEFINE p == f.pos[Len(f.bits)]
  <2>1. p = n + 1 /\ p \in 1 .. Len(s) /\ (s[p] = Data(Ones) => p < Len(s))
    BY <1>4, <1>5, <1>6 DEF n
  <2>2. /\ Frame(g, s) /\ g.bits = f.bits \o BitsOf(s[p])
        /\ g.pos[Len(g.bits)] = p + (IF StuffedAt(s, p) THEN 2 ELSE 1)
        /\ \A o \in DOMAIN f.pos : g.pos[o] = f.pos[o]
    BY <1>2, <1>3, <2>1, FrameGrows
  <2> HIDE DEF p, g
  <2> QED
    BY <2>1, <2>2
<1> HIDE DEF g
<1>9. BitsOf(s[n + 1]) = b
  BY <1>0, <1>4, BitsTyped
<1>10. g.pos[Len(g.bits)] = Len(s) + 1 /\ g.pos[0] = f.pos[0]
  <2>1. 0 \in DOMAIN f.pos
    BY DEF Frame
  <2>2. Len(s) = n + (IF b = Ones THEN 2 ELSE 1)
    BY <1>1, <1>2
  <2> QED
    BY <1>0, <1>7, <1>8, <2>1, <2>2
<1>11. ASSUME NEW i \in Nat \ {0}, NoMarks(scan, i)
       PROVE  NoMarks(s, i)
  <2> SUFFICES ASSUME NEW k \in i .. Len(s), NEW m \in 0 .. 7, s[k] = Rst(m)
               PROVE  FALSE
    BY DEF NoMarks
  <2>1. CASE k <= n
    <3>1. s[k] = scan[k] /\ k \in i .. n
      BY <1>0, <1>2, <2>1
    <3> QED
      BY <1>11, <3>1 DEF NoMarks
  <2>2. CASE k > n
    <3>1. k = n + 1 \/ (b = Ones /\ k = n + 2)
      <4>1. Len(s) = n + 1 \/ (b = Ones /\ Len(s) = n + 2)
        BY <1>1, <1>2
      <4>2. k \in Int /\ k <= Len(s)
        BY <1>2
      <4> QED
        BY <1>0, <2>2, <4>1, <4>2
    <3>2. s[k] = Data(b) \/ s[k] = Data(Zeros)
      BY <1>4, <1>5, <3>1
    <3> QED
      BY <1>0, <3>2, ItemsApart
  <2> QED
    BY <1>0, <1>2, <2>1, <2>2
<1> QED
  BY <1>2, <1>8, <1>9, <1>10, <1>11 DEF s, e

\* a marker is two bytes of the scan
Placed(x) == IF IsMarker(x) THEN <<Data(Ones), x>> ELSE <<x>>

\* the bytes of a body, without the end marker
Scan(body) == FlattenSeq([i \in DOMAIN body |-> Placed(body[i])])

\* What is placed in a scan are bytes of it.
LEMMA PlacedTyped ==
  ASSUME NEW x \in RawItem
  PROVE  Placed(x) \in Seq(RawItem)
<1> DEFINE a == Data(Ones)
<1>1. a \in RawItem
  BY ItemsApart
<1> HIDE DEF a
<1>2. <<a, x>> \in Seq(RawItem) /\ <<x>> \in Seq(RawItem)
  BY <1>1
<1> QED
  BY <1>2 DEF Placed, a

\* What is appended to a body is placed behind its scan.
LEMMA ScanAppend ==
  /\ Scan(<<>>) = <<>>
  /\ \A body \in Seq(RawItem) : \A x \in RawItem :
       Scan(Append(body, x)) = Scan(body) \o Placed(x) /\ Scan(body) \in Seq(RawItem)
<1>1. Scan(<<>>) = <<>>
  <2>1. [i \in DOMAIN <<>> |-> Placed(<<>>[i])] = <<>>
    OBVIOUS
  <2>2. FlattenSeq(<<>>) = <<>>
    BY EmptySeq DEF FlattenSeq
  <2> QED
    BY <2>1, <2>2 DEF Scan
<1>2. ASSUME NEW body \in Seq(RawItem), NEW x \in RawItem
      PROVE  Scan(Append(body, x)) = Scan(body) \o Placed(x) /\ Scan(body) \in Seq(RawItem)
  <2> DEFINE s == [i \in DOMAIN body |-> Placed(body[i])]
             b == Append(body, x)
             t == [i \in DOMAIN b |-> Placed(b[i])]
             n == Len(body)
  <2>1. /\ b \in Seq(RawItem) /\ Len(b) = n + 1 /\ n \in Nat /\ b[n + 1] = x
        /\ \A i \in 1 .. n : b[i] = body[i]
        /\ DOMAIN b = 1 .. n + 1 /\ DOMAIN body = 1 .. n
    BY AppendProperties
  <2>2. \A i \in DOMAIN body : body[i] \in RawItem
    BY ElementOfSeq
  <2>3. \A i \in DOMAIN body : Placed(body[i]) \in Seq(RawItem)
    BY <2>2, PlacedTyped
  <2>4. s \in Seq(Seq(RawItem)) /\ Len(s) = n
    BY <2>1, <2>3
  <2>5. Placed(x) \in Seq(RawItem)
    BY PlacedTyped
  <2>6. t = Append(s, Placed(x))
    <3> DEFINE u == Append(s, Placed(x))
    <3>1. /\ Len(u) = n + 1 /\ u[n + 1] = Placed(x) /\ DOMAIN u = 1 .. n + 1
          /\ \A i \in 1 .. n : u[i] = s[i]
          /\ u \in Seq(Seq(RawItem))
      <4> HIDE DEF s
      <4> QED
        BY <2>1, <2>4, <2>5, AppendProperties
    <3>2. \A i \in 1 .. n : s[i] = Placed(body[i]) /\ t[i] = Placed(body[i])
      BY <2>1
    <3>3. t[n + 1] = Placed(x) /\ DOMAIN t = 1 .. n + 1
      BY <2>1
    <3>4. ASSUME NEW i \in 1 .. n + 1
          PROVE  t[i] = u[i]
      <4> HIDE DEF t, u, s
      <4>1. i \in 1 .. n \/ i = n + 1
        BY <2>1
      <4> QED
        BY <3>1, <3>2, <3>3, <4>1
    <3>5. t \in Seq(Seq(RawItem)) /\ Len(t) = n + 1
      <4>1. \A i \in 1 .. n + 1 : t[i] \in Seq(RawItem)
        <5> HIDE DEF t, u, s
        <5> QED
          BY <2>1, <2>3, <2>5, <3>2, <3>3
      <4> QED
        BY <2>1, <4>1
    <3> HIDE DEF t, u, s
    <3>6. \A i \in 1 .. Len(t) : t[i] = u[i]
      BY <3>4, <3>5
    <3>7. Len(t) = Len(u) /\ t \in Seq(Seq(RawItem)) /\ u \in Seq(Seq(RawItem))
      BY <3>1, <3>5
    <3>8. t = u
      BY <3>6, <3>7, SeqEqual, Zenon
    <3> QED
      BY <3>8 DEF u
  <2>7. FlattenSeq(Append(s, Placed(x))) = FlattenSeq(s) \o Placed(x)
        /\ FlattenSeq(s) \in Seq(RawItem)
    <3> HIDE DEF s
    <3> QED
      BY <2>4, <2>5, FlattenAppend
  <2> QED
    BY <2>6, <2>7 DEF Scan
<1> QED
  BY <1>1, <1>2

\* The bytes of a file are its scan and the end marker.
LEMMA BytesAre ==
  ASSUME NEW body \in Seq(Item)
  PROVE  Bytes(body) = Scan(body) \o <<Data(Ones), End>> /\ Scan(body) \in Seq(RawItem)
<1>1. body \in Seq(RawItem) /\ End \in RawItem
  BY ItemsApart DEF RawItem
<1>2. Scan(body) \in Seq(RawItem)
  BY <1>1, ScanAppend
<1>3. Scan(body) = FlattenSeq([i \in DOMAIN body |->
        IF IsMarker(body[i]) THEN <<Data(Ones), body[i]>> ELSE <<body[i]>>])
  BY DEF Scan, Placed
<1> QED
  BY <1>2, <1>3, Zenon DEF Bytes

\* Bytes that are emitted are placed as they are; a marker with the byte of ones.
LEMMA ScanGrows ==
  ASSUME NEW body \in Seq(Item)
  PROVE  /\ \A b \in Byte : Scan(body \o Emit(b)) = Scan(body) \o Emit(b)
         /\ \A n \in 0 .. 7 :
              /\ Scan(body \o <<Rst(n)>>) = Scan(body) \o <<Data(Ones), Rst(n)>>
              /\ \A b \in Byte : Scan(body \o <<Data(b), Rst(n)>>) =
                                   (Scan(body) \o <<Data(b)>>) \o <<Data(Ones), Rst(n)>>
<1>1. body \in Seq(RawItem) /\ Scan(body) \in Seq(RawItem)
  <2>1. body \in Seq(RawItem)
    BY DEF RawItem
  <2> QED
    BY <2>1, ScanAppend, ItemsApart
<1>2. ASSUME NEW x \in RawItem
      PROVE  /\ body \o <<x>> \in Seq(RawItem)
             /\ Scan(body \o <<x>>) = Scan(body) \o Placed(x)
  <2>1. body \o <<x>> = Append(body, x) /\ Append(body, x) \in Seq(RawItem)
    BY <1>1
  <2> QED
    BY <1>1, <2>1, ScanAppend
<1>3. ASSUME NEW x \in RawItem, NEW y \in RawItem
      PROVE  Scan(body \o <<x, y>>) = (Scan(body) \o Placed(x)) \o Placed(y)
  <2> DEFINE b == Append(body, x)
  <2>1. body \o <<x, y>> = Append(b, y) /\ b \in Seq(RawItem)
    BY <1>1
  <2>2. Scan(b) = Scan(body) \o Placed(x)
    BY <1>1, ScanAppend
  <2> HIDE DEF b
  <2>3. Scan(Append(b, y)) = Scan(b) \o Placed(y)
    BY <2>1, ScanAppend
  <2> QED
    BY <2>1, <2>2, <2>3
<1>4. ASSUME NEW b \in Byte
      PROVE  Data(b) \in RawItem /\ Placed(Data(b)) = <<Data(b)>>
  <2>1. Data(b) \in RawItem
    BY DEF RawItem, Item
  <2>2. ~IsMarker(Data(b))
    BY DEF IsMarker, Data
  <2> QED
    BY <2>1, <2>2 DEF Placed
<1>5. ASSUME NEW n \in 0 .. 7
      PROVE  Rst(n) \in RawItem /\ Placed(Rst(n)) = <<Data(Ones), Rst(n)>>
  <2>1. Rst(n) \in RawItem
    BY ItemsApart
  <2>2. IsMarker(Rst(n))
    BY <2>1, ItemsApart
  <2> QED
    BY <2>1, <2>2 DEF Placed
<1>6. ASSUME NEW b \in Byte
      PROVE  Scan(body \o Emit(b)) = Scan(body) \o Emit(b)
  <2>1. CASE b # Ones
    <3>1. Emit(b) = <<Data(b)>>
      BY <2>1 DEF Emit
    <3> QED
      BY <1>2, <1>4, <3>1
  <2>2. CASE b = Ones
    <3> DEFINE x == Data(b)
               z == Data(Zeros)
    <3>1. Emit(b) = <<x, z>>
      BY <2>2 DEF Emit
    <3>2. x \in RawItem /\ z \in RawItem /\ Placed(x) = <<x>> /\ Placed(z) = <<z>>
      BY <1>4, BytesTyped
    <3> HIDE DEF x, z
    <3>3. Scan(body \o <<x, z>>) = (Scan(body) \o <<x>>) \o <<z>>
      BY <1>3, <3>2
    <3>4. (Scan(body) \o <<x>>) \o <<z>> = Scan(body) \o <<x, z>>
      <4> DEFINE s == Scan(body)
      <4>1. s \in Seq(RawItem)
        BY <1>1
      <4> HIDE DEF s
      <4>2. s \o <<x>> = Append(s, x) /\ Append(s, x) \in Seq(RawItem)
        BY <3>2, <4>1
      <4>3. s \o <<x, z>> = Append(Append(s, x), z)
        BY <3>2, <4>1
      <4>4. Append(s, x) \o <<z>> = Append(Append(s, x), z)
        BY <3>2, <4>2
      <4> QED
        BY <4>2, <4>3, <4>4 DEF s
    <3> QED
      BY <3>1, <3>3, <3>4
  <2> QED
    BY <2>1, <2>2
<1>7. ASSUME NEW n \in 0 .. 7
      PROVE  Scan(body \o <<Rst(n)>>) = Scan(body) \o <<Data(Ones), Rst(n)>>
  BY <1>2, <1>5
<1>8. ASSUME NEW n \in 0 .. 7, NEW b \in Byte
      PROVE  Scan(body \o <<Data(b), Rst(n)>>) =
               (Scan(body) \o <<Data(b)>>) \o <<Data(Ones), Rst(n)>>
  BY <1>3, <1>4, <1>5
<1> QED
  BY <1>6, <1>7, <1>8

\* Padding goes on with the bits that wait.
LEMMA PadBegins ==
  ASSUME NEW a \in Seq(Bit), NEW p \in Seq(Bit), Len(p) <= ByteBits
  PROVE  Begins(a \o p, a \o Pad(p))
<1> DEFINE q == Pad(p)
<1>1. /\ q \in Seq(Bit) /\ Len(q) = ByteBits /\ ByteBits \in Nat /\ Len(p) \in Nat
      /\ Len(a) \in Nat
  <2>1. q \in Byte
    BY PadTyped
  <2>2. Len(p) \in Nat /\ Len(a) \in Nat
    OBVIOUS
  <2> HIDE DEF q
  <2> QED
    BY <2>1, <2>2, BytesTyped, ByteBitsAssumption
<1>2. \A k \in 1 .. Len(p) : q[k] = p[k]
  BY <1>1 DEF Pad
<1> HIDE DEF q
<1>3. /\ Len(a \o p) = Len(a) + Len(p) /\ Len(a \o q) = Len(a) + Len(q)
      /\ \A k \in 1 .. Len(a) + Len(p) :
           (a \o p)[k] = IF k <= Len(a) THEN a[k] ELSE p[k - Len(a)]
      /\ \A k \in 1 .. Len(a) + Len(q) :
           (a \o q)[k] = IF k <= Len(a) THEN a[k] ELSE q[k - Len(a)]
  BY <1>1, ConcatProperties
<1> DEFINE u == a \o p
           v == a \o q
<1> HIDE DEF u, v
<1>4. ASSUME NEW k \in 1 .. Len(u)
      PROVE  u[k] = v[k]
  <2>1. k \in 1 .. Len(a) + Len(p) /\ k \in 1 .. Len(a) + Len(q)
    BY <1>1, <1>3 DEF u
  <2>2. k <= Len(a) \/ (~(k <= Len(a)) /\ k - Len(a) \in 1 .. Len(p))
    BY <1>1, <2>1
  <2> QED
    BY <1>2, <1>3, <2>1, <2>2 DEF u, v
<1>5. Len(u) <= Len(v)
  BY <1>1, <1>3 DEF u, v
<1> QED
  BY <1>4, <1>5 DEF Begins, u, v, q

\* A scan with a marker behind it.
LEMMA MarkerBehindIs ==
  ASSUME NEW m \in Seq(RawItem), NEW x \in RawItem
  PROVE  LET s == m \o <<Data(Ones), x>>
         IN  /\ s \in Seq(RawItem) /\ Len(s) = Len(m) + 2
             /\ s[Len(m) + 1] = Data(Ones) /\ s[Len(m) + 2] = x
             /\ \A k \in 1 .. Len(m) : s[k] = m[k]
<1> DEFINE s == m \o <<Data(Ones), x>>
<1> DEFINE a == Data(Ones)
           t == <<a, x>>
<1>1. a \in RawItem
  BY ItemsApart
<1> HIDE DEF a
<1>2. t \in Seq(RawItem) /\ Len(t) = 2 /\ t[1] = a /\ t[2] = x
  BY <1>1
<1>3. s = m \o t
  BY DEF a
<1> HIDE DEF t, s
<1>4. /\ s \in Seq(RawItem) /\ Len(s) = Len(m) + Len(t)
      /\ \A k \in 1 .. Len(m) + Len(t) : s[k] = IF k <= Len(m) THEN m[k] ELSE t[k - Len(m)]
  BY <1>2, <1>3, ConcatProperties
<1>5. Len(m) \in Nat
  OBVIOUS
<1> QED
  BY <1>2, <1>4, <1>5 DEF a, s

\* What is written of the bits p that wait when a marker comes, and what that makes
\* of the scan.
Padding(p, pad) ==
  \/ p = <<>> /\ pad = <<>>
  \/ p # <<>> /\ (pad = <<Data(Pad(p))>> \/ pad = Emit(Pad(p)))

\* the scan with the padding and the marker x behind it
WithMarker(scan, pad, x) == (scan \o pad) \o <<Data(Ones), x>>

\* The frame f is closed with the marker x, the bits in front of that are w and what
\* makes them up to a byte.
ClosedWith(f, raws, w, x) ==
  /\ ClosedAtMarker(f, raws) /\ Begins(w, f.bits)
  /\ Len(w) \in Whole(f) - ByteBits + 1 .. Whole(f)
  /\ f.pos[Whole(f)] = Len(raws) - 1 /\ raws[Len(raws)] = x

\* A frame the marker behind it is written to.
LEMMA FrameCloses ==
  ASSUME NEW f, NEW scan \in Seq(RawItem), Frame(f, scan),
         f.pos[Len(f.bits)] = Len(scan) + 1,
         NEW p \in Seq(Bit), Len(p) <= ByteBits, NEW pad, Padding(p, pad),
         NEW x \in RawItem, IsMarker(x)
  PROVE  /\ WithMarker(scan, pad, x) \in Seq(RawItem)
         /\ \E g : /\ ClosedWith(g, WithMarker(scan, pad, x), f.bits \o p, x)
                   /\ g.pos[0] = f.pos[0]
         /\ \A i \in Nat \ {0} :
              NoMarks(scan, i) /\ x = End => NoMarks(WithMarker(scan, pad, x), i)
         /\ \E more \in Seq(RawItem) : WithMarker(scan, pad, x) = scan \o more
<1> DEFINE s == WithMarker(scan, pad, x)
<1>a. s = (scan \o pad) \o <<Data(Ones), x>>
  BY DEF WithMarker
<1>b. \/ p = <<>> /\ pad = <<>>
      \/ p # <<>> /\ (pad = <<Data(Pad(p))>> \/ pad = Emit(Pad(p)))
  BY DEF Padding
<1> HIDE DEF s
<1> DEFINE a == f.bits
           q == Pad(p)
           mid == scan \o pad
           n == Len(scan)
<1>0. /\ a \in Seq(Bit) /\ Len(a) \in Nat /\ Len(p) \in Nat /\ n \in Nat
      /\ ByteBits \in Nat \ {0} /\ q \in Byte /\ q \in Seq(Bit) /\ Len(q) = ByteBits
      /\ Data(q) \in RawItem /\ Data(Ones) \in RawItem /\ 0 \in DOMAIN f.pos
      /\ (p # <<>> => Len(p) # 0)
  <2>1. q \in Byte
    BY PadTyped
  <2>2. a \in Seq(Bit) /\ n \in Nat /\ Len(p) \in Nat /\ 0 \in DOMAIN f.pos
    BY DEF Frame
  <2>3. Data(q) \in RawItem
    BY <2>1 DEF RawItem, Item
  <2>4. p # <<>> => Len(p) # 0
    BY EmptySeq
  <2> HIDE DEF a, n, q
  <2> QED
    BY <2>1, <2>2, <2>3, <2>4, BytesTyped, ItemsApart, ByteBitsAssumption
<1>1. mid \in Seq(RawItem) /\ \A i \in Nat \ {0} : NoMarks(scan, i) => NoMarks(mid, i)
  <2>1. CASE p = <<>> /\ pad = <<>>
    <3>1. scan \o <<>> = scan
      BY ConcatEmptySeq
    <3> QED
      BY <2>1, <3>1
  <2>2. CASE p # <<>> /\ pad = Emit(q)
    <3> HIDE DEF q
    <3> QED
      BY <1>0, <2>2, FrameWrites
  <2>3. CASE p # <<>> /\ pad = <<Data(q)>>
    <3> DEFINE y == Data(q)
    <3>1. y \in RawItem /\ ~IsMarker(y)
      BY <1>0, ItemsApart
    <3> HIDE DEF q, y
    <3>2. mid = Append(scan, y)
      BY <2>3, <3>1 DEF y
    <3>3. /\ Append(scan, y) \in Seq(RawItem) /\ Len(Append(scan, y)) = n + 1
          /\ Append(scan, y)[n + 1] = y
          /\ \A k \in 1 .. n : Append(scan, y)[k] = scan[k]
      BY <3>1, AppendProperties
    <3>4. ASSUME NEW i \in Nat \ {0}, NoMarks(scan, i)
          PROVE  NoMarks(Append(scan, y), i)
      <4> SUFFICES ASSUME NEW k \in i .. n + 1, NEW m \in 0 .. 7,
                          Append(scan, y)[k] = Rst(m)
                   PROVE  FALSE
        BY <3>3 DEF NoMarks
      <4>1. CASE k = n + 1
        BY <3>1, <3>3, <4>1, ItemsApart
      <4>2. CASE k # n + 1
        <5>1. k \in i .. n /\ k \in 1 .. n
          <6>1. n \in Nat
            BY <1>0
          <6> HIDE DEF n
          <6> QED
            BY <4>2, <6>1
        <5> QED
          BY <3>3, <3>4, <5>1 DEF NoMarks
      <4> QED
        BY <4>1, <4>2
    <3> QED
      BY <3>2, <3>3, <3>4
  <2> QED
    BY <1>b, <2>1, <2>2, <2>3
<1>2. /\ s \in Seq(RawItem) /\ Len(s) = Len(mid) + 2
      /\ s[Len(mid) + 1] = Data(Ones) /\ s[Len(mid) + 2] = x
      /\ \A k \in 1 .. Len(mid) : s[k] = mid[k]
  <2> HIDE DEF mid
  <2> DEFINE u == mid \o <<Data(Ones), x>>
  <2>1. s = u
    BY <1>a DEF mid
  <2>2. /\ u \in Seq(RawItem) /\ Len(u) = Len(mid) + 2
        /\ u[Len(mid) + 1] = Data(Ones) /\ u[Len(mid) + 2] = x
        /\ \A k \in 1 .. Len(mid) : u[k] = mid[k]
    BY <1>1, MarkerBehindIs
  <2> HIDE DEF u
  <2> QED
    BY <2>1, <2>2
<1>c. s = mid \o <<Data(Ones), x>>
  BY <1>a
<1>3. <<Data(Ones), x>> \in Seq(RawItem)
  <2> DEFINE y == Data(Ones)
  <2>1. y \in RawItem
    BY <1>0
  <2> HIDE DEF y
  <2> QED
    BY <2>1 DEF y
<1>4. Begins(a \o p, a \o q) /\ Len(a \o p) = Len(a) + Len(p) /\ Len(a \o q) = Len(a) + ByteBits
      /\ a \o p \in Seq(Bit) /\ a \o q \in Seq(Bit)
  <2>1. Begins(a \o p, a \o q)
    <3> HIDE DEF a
    <3> QED
      BY <1>0, PadBegins
  <2> HIDE DEF a, q
  <2> QED
    BY <1>0, <2>1, ConcatProperties
<1>5. \E g : /\ Frame(g, s) /\ g.pos[Len(g.bits)] = Len(mid) + 1 /\ g.pos[0] = f.pos[0]
             /\ Begins(a \o p, g.bits)
             /\ Len(a \o p) \in Len(g.bits) - ByteBits + 1 .. Len(g.bits)
  <2>1. CASE p = <<>> /\ pad = <<>>
    <3>1. scan \o <<>> = scan /\ a \o <<>> = a
      BY <1>0, ConcatEmptySeq
    <3>2. Frame(f, mid)
      BY <2>1, <3>1
    <3>3. Frame(f, s)
      <4> HIDE DEF mid
      <4> QED
        BY <1>1, <1>c, <1>3, <3>2, FrameStays
    <3>4. Begins(a, a)
      BY DEF Begins
    <3>5. Len(a) \in Len(a) - ByteBits + 1 .. Len(a)
      BY <1>0
    <3>6. f.pos[Len(f.bits)] = Len(mid) + 1
      BY <2>1, <3>1
    <3> QED
      BY <2>1, <3>1, <3>3, <3>4, <3>5, <3>6
  <2>2. CASE p # <<>> /\ pad = Emit(q)
    <3>1. PICK g : /\ Frame(g, mid) /\ g.bits = a \o q
                   /\ g.pos[Len(g.bits)] = Len(mid) + 1 /\ g.pos[0] = f.pos[0]
      <4> HIDE DEF q
      <4>1. \E g : /\ Frame(g, scan \o Emit(q)) /\ g.bits = f.bits \o q
                   /\ g.pos[Len(g.bits)] = Len(scan \o Emit(q)) + 1
                   /\ g.pos[0] = f.pos[0]
        BY <1>0, FrameWrites
      <4> QED
        BY <2>2, <4>1
    <3>2. Frame(g, s)
      <4> HIDE DEF mid
      <4> QED
        BY <1>1, <1>c, <1>3, <3>1, FrameStays
    <3>3. Len(a \o p) \in Len(g.bits) - ByteBits + 1 .. Len(g.bits)
      <4> HIDE DEF a, q
      <4> QED
        BY <1>0, <1>4, <2>2, <3>1
    <3> QED
      BY <1>4, <3>1, <3>2, <3>3
  <2>3. CASE p # <<>> /\ pad = <<Data(q)>>
    <3> DEFINE y == Data(q)
    <3>1. y \in RawItem
      BY <1>0
    <3>2. BitsOf(y) = q
      BY <1>0, <3>1, BitsTyped
    <3> HIDE DEF y, q
    <3>3. mid = Append(scan, y)
      BY <2>3, <3>1 DEF y
    <3>4. Len(mid) = n + 1 /\ mid[n + 1] = y
      BY <3>1, <3>3, AppendProperties
    <3>5. Frame(f, s)
      <4>1. Frame(f, scan \o <<y>>)
        <5> DEFINE w == <<y>>
        <5>1. w \in Seq(RawItem)
          BY <3>1
        <5> HIDE DEF w
        <5>2. Frame(f, scan \o w)
          BY <5>1, FrameStays
        <5> QED
          BY <5>2 DEF w
      <4>2. mid = scan \o <<y>>
        BY <2>3 DEF y
      <4>3. Frame(f, mid)
        BY <4>1, <4>2
      <4> HIDE DEF mid
      <4> QED
        BY <1>1, <1>c, <1>3, <4>3, FrameStays
    <3> HIDE DEF mid
    <3>6. s[n + 1] = y /\ s[(n + 1) + 1] # Data(Zeros) /\ n + 1 \in 1 .. Len(s) /\ n + 1 < Len(s)
      <4>1. n \in Nat /\ Len(mid) = n + 1 /\ Len(s) = Len(mid) + 2
        BY <1>0, <1>2, <3>4
      <4>2. n + 1 \in 1 .. Len(mid) /\ n + 1 \in 1 .. Len(s) /\ n + 1 < Len(s)
        BY <4>1
      <4>3. s[n + 1] = y /\ s[Len(mid) + 1] = Data(Ones)
        BY <1>2, <3>4, <4>2
      <4> QED
        BY <4>1, <4>2, <4>3, ItemsApart
    <3>7. PICK g : Frame(g, s) /\ Onward(f, g, BitsOf(s[n + 1]), (n + 1) + 1)
      <4> DEFINE k == n + 1
      <4>1. k \in 1 .. Len(s) /\ f.pos[Len(f.bits)] = k /\ k < Len(s) /\ s[k + 1] # Data(Zeros)
        BY <3>6
      <4> HIDE DEF k
      <4>2. \E g : Frame(g, s) /\ Onward(f, g, BitsOf(s[k]), k + 1)
        BY <1>2, <3>5, <4>1, FrameTakes
      <4> QED
        BY <4>2 DEF k
    <3>8. /\ g.bits = a \o q /\ g.pos[Len(g.bits)] = Len(mid) + 1 /\ g.pos[0] = f.pos[0]
      BY <1>0, <3>2, <3>4, <3>6, <3>7 DEF Onward
    <3>9. Len(a \o p) \in Len(g.bits) - ByteBits + 1 .. Len(g.bits)
      <4> HIDE DEF a
      <4> QED
        BY <1>0, <1>4, <2>3, <3>8 DEF q
    <3> QED
      BY <1>4, <3>7, <3>8, <3>9 DEF q
  <2> QED
    BY <1>b, <2>1, <2>2, <2>3
<1>6. PICK g : /\ Frame(g, s) /\ g.pos[Len(g.bits)] = Len(mid) + 1 /\ g.pos[0] = f.pos[0]
               /\ Begins(a \o p, g.bits)
               /\ Len(a \o p) \in Len(g.bits) - ByteBits + 1 .. Len(g.bits)
  BY <1>5
<1> HIDE DEF mid
<1>7. Len(mid) \in Nat
  BY <1>1
<1>8. PICK h : /\ ClosedAtMarker(h, s) /\ Whole(h) = Len(g.bits)
               /\ Begins(g.bits, h.bits)
               /\ h.pos[Whole(h)] = g.pos[Len(g.bits)] /\ h.pos[0] = g.pos[0]
  <2>1. g.pos[Len(g.bits)] \in 1 .. Len(s) - 1
    BY <1>2, <1>6, <1>7
  <2>2. s[g.pos[Len(g.bits)]] = Data(Ones) /\ IsMarker(s[g.pos[Len(g.bits)] + 1])
    <3>1. (Len(mid) + 1) + 1 = Len(mid) + 2
      BY <1>7
    <3> QED
      BY <1>2, <1>6, <3>1
  <2> QED
    BY <1>2, <1>6, <2>1, <2>2, FrameEnds
<1>9. Begins(a \o p, h.bits)
  <2>1. g.bits \in Seq(Bit) /\ h.bits \in Seq(Bit)
    BY <1>6, <1>8 DEF Frame, ClosedAtMarker
  <2> DEFINE u == a \o p
             v == g.bits
             w == h.bits
  <2>2. u \in Seq(Bit) /\ v \in Seq(Bit) /\ w \in Seq(Bit) /\ Begins(u, v) /\ Begins(v, w)
    BY <1>4, <1>6, <1>8, <2>1
  <2> HIDE DEF u, v, w
  <2>3. Len(u) \in Nat /\ Len(v) \in Nat /\ Len(w) \in Nat
    BY <2>2
  <2>4. Begins(u, w)
    BY <2>2, <2>3 DEF Begins
  <2> QED
    BY <2>4 DEF u, w
<1>10. h.pos[Whole(h)] = Len(s) - 1 /\ s[Len(s)] = x
  BY <1>2, <1>6, <1>7, <1>8
<1>11. ASSUME NEW i \in Nat \ {0}, NoMarks(scan, i), x = End
       PROVE  NoMarks(s, i)
  <2>1. NoMarks(mid, i)
    BY <1>1, <1>11
  <2> SUFFICES ASSUME NEW k \in i .. Len(s), NEW m \in 0 .. 7, s[k] = Rst(m)
               PROVE  FALSE
    BY DEF NoMarks
  <2>2. k \in i .. Len(mid) \/ k = Len(mid) + 1 \/ k = Len(mid) + 2
    <3>1. Len(s) = Len(mid) + 2
      BY <1>2
    <3> DEFINE l == Len(mid)
               e == Len(s)
    <3>2. l \in Nat /\ e = l + 2 /\ k \in i .. e /\ i \in Nat
      BY <1>7, <3>1
    <3> HIDE DEF l, e
    <3>3. k \in i .. l \/ k = l + 1 \/ k = l + 2
      BY <3>2
    <3> QED
      BY <3>3 DEF l
  <2>3. k \in i .. Len(mid) => s[k] = mid[k]
    <3>1. k \in i .. Len(mid) => k \in 1 .. Len(mid)
      BY <1>7
    <3> QED
      BY <1>2, <3>1
  <2>4. Rst(m) # Data(Ones) /\ Rst(m) # End
    <3>1. IsMarker(Rst(m))
      BY ItemsApart
    <3> QED
      BY <3>1, ItemsApart, BytesTyped
  <2> QED
    BY <1>2, <1>11, <2>1, <2>2, <2>3, <2>4 DEF NoMarks
<1> QED
  <2>1. Len(f.bits \o p) \in Whole(h) - ByteBits + 1 .. Whole(h)
    BY <1>6, <1>8
  <2>2. h.pos[0] = f.pos[0]
    BY <1>6, <1>8
  <2>3. ClosedWith(h, s, f.bits \o p, x)
    BY <1>8, <1>9, <1>10, <2>1 DEF ClosedWith
  <2>4. \E more \in Seq(RawItem) : s = scan \o more
    <3> DEFINE e == <<Data(Ones), x>>
    <3>1. e \in Seq(RawItem) /\ s = (scan \o pad) \o e
      BY <1>3, <1>a
    <3>2. pad \in Seq(RawItem)
      <4> DEFINE y == Data(q)
      <4>1. y \in RawItem /\ q \in Byte
        BY <1>0
      <4>2. pad = <<>> \/ pad = <<y>> \/ pad = Emit(q)
        BY <1>b
      <4> HIDE DEF y, q
      <4>3. Emit(q) \in Seq(RawItem)
        <5>1. Emit(q) \in Seq(Item)
          BY <4>1, EmitRight
        <5> QED
          BY <5>1 DEF RawItem
      <4>4. <<y>> \in Seq(RawItem) /\ <<>> \in Seq(RawItem)
        BY <4>1
      <4> QED
        BY <4>2, <4>3, <4>4
    <3> HIDE DEF e
    <3>3. pad \o e \in Seq(RawItem) /\ (scan \o pad) \o e = scan \o (pad \o e)
      BY <3>1, <3>2, ConcatAssociative, ConcatProperties
    <3> QED
      BY <3>1, <3>3
  <2> QED
    BY <1>2, <1>11, <2>2, <2>3, <2>4 DEF s

\* The frame f goes to the end of the scan, and no restart marker is in it.
AtEnd(f, scan, bits) ==
  /\ Frame(f, scan) /\ f.bits = bits
  /\ f.pos[Len(bits)] = Len(scan) + 1
  /\ NoMarks(scan, f.pos[0])

\* A byte that is emitted goes to the end of the frame.
LEMMA EmitLays ==
  ASSUME NEW body \in Seq(Item), NEW bits \in Seq(Bit), NEW f, AtEnd(f, Scan(body), bits),
         NEW b \in Byte
  PROVE  /\ Emit(b) \in Seq(RawItem) /\ body \o Emit(b) \in Seq(Item)
         /\ Scan(body \o Emit(b)) = Scan(body) \o Emit(b)
         /\ \E g : AtEnd(g, Scan(body \o Emit(b)), bits \o b) /\ g.pos[0] = f.pos[0]
<1> DEFINE s == Scan(body)
           e == Emit(b)
<1>1. body \in Seq(RawItem) /\ s \in Seq(RawItem)
  BY BytesAre DEF RawItem
<1>2. e \in Seq(Item) /\ e \in Seq(RawItem)
  <2>1. e \in Seq(Item)
    BY EmitRight
  <2> HIDE DEF e
  <2> QED
    BY <2>1 DEF RawItem
<1>3. body \o e \in Seq(Item)
  <2> HIDE DEF e
  <2> QED
    BY <1>2, ConcatProperties
<1>4. Scan(body \o e) = s \o e
  BY ScanGrows
<1> HIDE DEF s
<1>5. Frame(f, s) /\ f.bits = bits /\ f.pos[Len(f.bits)] = Len(s) + 1 /\ NoMarks(s, f.pos[0])
  BY DEF AtEnd, s
<1>6. f.pos[0] \in Nat \ {0}
  BY <1>5 DEF Frame
<1>7. PICK g : /\ Frame(g, s \o e) /\ g.bits = f.bits \o b
               /\ g.pos[Len(g.bits)] = Len(s \o e) + 1 /\ g.pos[0] = f.pos[0]
  BY <1>1, <1>5, FrameWrites
<1>8. NoMarks(s \o e, f.pos[0])
  BY <1>1, <1>5, <1>6, FrameWrites
<1> HIDE DEF e
<1>9. AtEnd(g, s \o e, bits \o b)
  BY <1>5, <1>7, <1>8 DEF AtEnd
<1> QED
  BY <1>2, <1>3, <1>4, <1>7, <1>9 DEF e, s

\* What Write_Stream_To_File writes goes to the end of the frame.
LEMMA WriteLays ==
  ASSUME Written, NEW w \in Codes, WriteStream(w), NEW f, AtEnd(f, Scan(file), sent)
  PROVE  /\ \E more \in Seq(RawItem) : Scan(file') = Scan(file) \o more
         /\ \E g : AtEnd(g, Scan(file'), sent') /\ g.pos[0] = f.pos[0]
<1>1. /\ pending \in Seq(Bit) /\ Len(pending) <= ByteBits
      /\ sent \in Seq(Bit) /\ file \in Seq(Item)
  BY DEF Written
<1>2. CASE Fits(w)
  <2>1. file' = file /\ sent' = sent
    BY <1>2 DEF Fits
  <2>2. Scan(file) \in Seq(RawItem)
    BY <1>1, BytesAre
  <2>3. <<>> \in Seq(RawItem) /\ Scan(file) = Scan(file) \o <<>>
    <3> DEFINE s == Scan(file)
    <3>1. s \in Seq(RawItem)
      BY <2>2
    <3> HIDE DEF s
    <3>2. s = s \o <<>>
      BY <3>1, ConcatEmptySeq
    <3> QED
      BY <3>2 DEF s
  <2> QED
    BY <2>1, <2>3
<1>3. ASSUME Len(w) > Free
      PROVE  Filled(w) \in Byte /\ Left(w) \in Seq(Bit)
  BY <1>1, <1>3, FilledAndLeft
<1>4. CASE FillsOne(w)
  <2>1. Len(w) > Free /\ file' = file \o Emit(Filled(w)) /\ sent' = sent \o Filled(w)
    BY <1>4 DEF FillsOne
  <2>2. /\ Emit(Filled(w)) \in Seq(RawItem)
        /\ Scan(file \o Emit(Filled(w))) = Scan(file) \o Emit(Filled(w))
        /\ \E g : AtEnd(g, Scan(file \o Emit(Filled(w))), sent \o Filled(w))
                  /\ g.pos[0] = f.pos[0]
    BY <1>1, <1>3, <2>1, EmitLays
  <2> QED
    BY <2>1, <2>2
<1>5. CASE FillsTwo(w)
  <2> DEFINE a == Filled(w)
             b == Second(w)
             x == Emit(a)
             y == Emit(b)
             mid == file \o x
             half == sent \o a
  <2>1. Len(w) > Free /\ Len(Left(w)) >= ByteBits /\ file' = mid \o y /\ sent' = half \o b
    BY <1>5 DEF FillsTwo
  <2>2. a \in Byte /\ b \in Byte
    BY <1>3, <2>1, SecondAndLast
  <2>3. a \in Seq(Bit) /\ half \in Seq(Bit)
    <3>1. a \in Seq(Bit)
      BY <2>2, BytesTyped
    <3> HIDE DEF a
    <3> QED
      BY <1>1, <3>1, Joined
  <2> HIDE DEF a, b
  <2>4. /\ x \in Seq(RawItem) /\ mid \in Seq(Item) /\ Scan(mid) = Scan(file) \o x
        /\ \E g : AtEnd(g, Scan(mid), half) /\ g.pos[0] = f.pos[0]
    BY <1>1, <2>2, EmitLays
  <2>5. PICK g : AtEnd(g, Scan(mid), half) /\ g.pos[0] = f.pos[0]
    BY <2>4
  <2> HIDE DEF mid, half
  <2>6. /\ y \in Seq(RawItem) /\ Scan(mid \o y) = Scan(mid) \o y
        /\ \E h : AtEnd(h, Scan(mid \o y), half \o b) /\ h.pos[0] = g.pos[0]
    <3>1. mid \in Seq(Item) /\ half \in Seq(Bit) /\ AtEnd(g, Scan(mid), half) /\ b \in Byte
      BY <2>2, <2>3, <2>4, <2>5
    <3>2. /\ Emit(b) \in Seq(RawItem) /\ Scan(mid \o Emit(b)) = Scan(mid) \o Emit(b)
          /\ \E h : AtEnd(h, Scan(mid \o Emit(b)), half \o b) /\ h.pos[0] = g.pos[0]
      BY <3>1, EmitLays
    <3> QED
      BY <3>2
  <2> HIDE DEF x, y
  <2>7. x \o y \in Seq(RawItem) /\ Scan(file') = Scan(file) \o (x \o y)
    <3> DEFINE s == Scan(file)
    <3>1. s \in Seq(RawItem)
      BY <1>1, BytesAre
    <3> HIDE DEF s
    <3>2. (s \o x) \o y = s \o (x \o y) /\ x \o y \in Seq(RawItem)
      BY <2>4, <2>6, <3>1, ConcatAssociative, ConcatProperties
    <3> QED
      BY <2>1, <2>4, <2>6, <3>2 DEF s
  <2>8. \E h : AtEnd(h, Scan(file'), sent') /\ h.pos[0] = f.pos[0]
    BY <2>1, <2>5, <2>6
  <2> QED
    BY <2>7, <2>8
<1> QED
  BY <1>2, <1>4, <1>5 DEF WriteStream

-----------------------------------------------------------------------------
(* The bits of an image.                                                   *)

\* the bits of a symbol and the magnitude behind it
UnitBits(c, u) == c[TableOf(u)][u.symbol] \o u.bits

\* the bits of the first k symbols of an MCU
PartBits(c, m, k) == FlattenSeq([i \in 1 .. k |-> UnitBits(c, m[i])])

\* the symbols of an MCU have codes
CodedMCU(c, m) ==
  \A i \in DOMAIN m : c[TableOf(m[i])][m[i].symbol] \in Seq(Bit) /\ m[i].bits \in Seq(Bit)

\* The first k sequences of s, one behind the other.
FlattenTo(s, k) == FlattenSeq([i \in 1 .. k |-> s[i]])

\* It grows by one sequence at a time, from none to all of them.
LEMMA FlattenToIs ==
  ASSUME NEW D, NEW s \in Seq(Seq(D)), NEW n \in Nat, Len(s) = n
  PROVE  /\ FlattenTo(s, 0) = <<>> /\ FlattenTo(s, n) = FlattenSeq(s)
         /\ \A k \in 0 .. n : FlattenTo(s, k) \in Seq(D)
         /\ \A k \in 0 .. n - 1 : FlattenTo(s, k + 1) = FlattenTo(s, k) \o s[k + 1]
<1> DEFINE p(k) == [i \in 1 .. k |-> s[i]]
<1>1. \A i \in 1 .. n : s[i] \in Seq(D)
  OBVIOUS
<1>2. ASSUME NEW k \in 0 .. n
      PROVE  p(k) \in Seq(Seq(D)) /\ Len(p(k)) = k
  <2>1. \A i \in 1 .. k : s[i] \in Seq(D)
    BY <1>1
  <2> QED
    BY <2>1
<1>3. ASSUME NEW k \in 0 .. n
      PROVE  FlattenTo(s, k) \in Seq(D)
  BY <1>2, <1>3, FlattenType DEF FlattenTo
<1>4. ASSUME NEW k \in 0 .. n - 1
      PROVE  FlattenTo(s, k + 1) = FlattenTo(s, k) \o s[k + 1]
  <2>1. k \in 0 .. n /\ k + 1 \in 0 .. n /\ k + 1 \in 1 .. n /\ k \in Nat
    BY <1>4
  <2> DEFINE u == s[k + 1]
             a == p(k)
             b == p(k + 1)
  <2>2. u \in Seq(D)
    BY <1>1, <2>1
  <2>3. a \in Seq(Seq(D)) /\ Len(a) = k /\ b \in Seq(Seq(D)) /\ Len(b) = k + 1
    BY <1>2, <2>1
  <2>4. b[k + 1] = u /\ \A i \in 1 .. k : b[i] = a[i]
    BY <2>1
  <2>5. FlattenTo(s, k) = FlattenSeq(a) /\ FlattenTo(s, k + 1) = FlattenSeq(b)
    BY DEF FlattenTo
  <2> HIDE DEF u, a, b, p
  <2>6. /\ Append(a, u) \in Seq(Seq(D)) /\ Len(Append(a, u)) = k + 1
        /\ Append(a, u)[k + 1] = u /\ \A i \in 1 .. k : Append(a, u)[i] = a[i]
    BY <2>2, <2>3, AppendProperties
  <2>7. b = Append(a, u)
    <3> DEFINE v == Append(a, u)
    <3> HIDE DEF v
    <3>1. \A i \in 1 .. Len(b) : b[i] = v[i]
      <4> SUFFICES ASSUME NEW i \in 1 .. Len(b)
                   PROVE  b[i] = v[i]
        OBVIOUS
      <4>1. i \in 1 .. k \/ i = k + 1
        BY <2>1, <2>3
      <4> QED
        BY <2>4, <2>6, <4>1 DEF v
    <3>2. v \in Seq(Seq(D)) /\ Len(b) = Len(v)
      BY <2>3, <2>6 DEF v
    <3>3. b = v
      BY <2>3, <3>1, <3>2, SeqEqual
    <3> QED
      BY <3>3 DEF v
  <2>8. FlattenSeq(Append(a, u)) = FlattenSeq(a) \o u
    BY <2>2, <2>3, FlattenAppend
  <2> QED
    BY <2>5, <2>7, <2>8 DEF u
<1>5. FlattenTo(s, 0) = <<>>
  <2>1. [i \in 1 .. 0 |-> s[i]] = <<>>
    OBVIOUS
  <2>2. FlattenSeq(<<>>) = <<>>
    BY EmptySeq DEF FlattenSeq
  <2> QED
    BY <2>1, <2>2 DEF FlattenTo
<1>6. FlattenTo(s, n) = FlattenSeq(s)
  <2>1. [i \in 1 .. n |-> s[i]] = s
    <3> DEFINE t == [i \in 1 .. n |-> s[i]]
    <3>1. t \in Seq(Seq(D)) /\ Len(t) = Len(s) /\ \A i \in 1 .. Len(t) : t[i] = s[i]
      BY <1>2
    <3> HIDE DEF t
    <3>2. t = s
      BY <3>1, SeqEqual
    <3> QED
      BY <3>2 DEF t
  <2> QED
    BY <2>1 DEF FlattenTo
<1> QED
  BY <1>3, <1>4, <1>5, <1>6

\* They grow by those of one symbol at a time.
LEMMA PartBitsAre ==
  ASSUME NEW c, NEW m, CodedMCU(c, m), NEW n \in Nat, DOMAIN m = 1 .. n
  PROVE  /\ \A k \in 0 .. n : PartBits(c, m, k) \in Seq(Bit)
         /\ \A k \in 0 .. n - 1 :
              PartBits(c, m, k + 1) = PartBits(c, m, k) \o UnitBits(c, m[k + 1])
<1> DEFINE s == [i \in 1 .. n |-> UnitBits(c, m[i])]
<1>1. \A i \in 1 .. n : UnitBits(c, m[i]) \in Seq(Bit)
  <2> SUFFICES ASSUME NEW i \in 1 .. n
               PROVE  UnitBits(c, m[i]) \in Seq(Bit)
    OBVIOUS
  <2> DEFINE a == c[TableOf(m[i])][m[i].symbol]
             b == m[i].bits
  <2>1. a \in Seq(Bit) /\ b \in Seq(Bit)
    BY DEF CodedMCU
  <2> HIDE DEF a, b
  <2>2. a \o b \in Seq(Bit)
    BY <2>1, Joined
  <2> QED
    BY <2>2 DEF UnitBits, a, b
<1>2. s \in Seq(Seq(Bit)) /\ Len(s) = n
  BY <1>1
<1>3. ASSUME NEW k \in 0 .. n
      PROVE  PartBits(c, m, k) = FlattenTo(s, k)
  <2>1. [i \in 1 .. k |-> s[i]] = [i \in 1 .. k |-> UnitBits(c, m[i])]
    <3>1. \A i \in 1 .. k : i \in 1 .. n
      BY <1>3
    <3> QED
      BY <3>1
  <2> HIDE DEF s
  <2> QED
    BY <2>1, Zenon DEF PartBits, FlattenTo
<1>4. \A k \in 0 .. n - 1 : k \in 0 .. n /\ k + 1 \in 0 .. n /\ s[k + 1] = UnitBits(c, m[k + 1])
  OBVIOUS
<1> HIDE DEF s
<1>5. /\ \A k \in 0 .. n : FlattenTo(s, k) \in Seq(Bit)
      /\ \A k \in 0 .. n - 1 : FlattenTo(s, k + 1) = FlattenTo(s, k) \o s[k + 1]
  BY <1>2, FlattenToIs
<1> QED
  BY <1>3, <1>4, <1>5

\* There are none in front of the first symbol.
LEMMA NoPartBits ==
  ASSUME NEW c, NEW m
  PROVE  PartBits(c, m, 0) = <<>>
<1>1. [i \in 1 .. 0 |-> UnitBits(c, m[i])] = <<>>
  OBVIOUS
<1>2. FlattenSeq(<<>>) = <<>>
  BY EmptySeq DEF FlattenSeq
<1> QED
  BY <1>1, <1>2 DEF PartBits

-----------------------------------------------------------------------------
(* The ledger of an image.                                                 *)

\* an image whose symbols have codes
CodedImage(c, im) == im \in Images /\ \A m \in DOMAIN im.mcus : CodedMCU(c, im.mcus[m])

\* What the coder knows between two MCUs: restarts_to_go, the markers written so far,
\* and the bits since the last one.
Ledgers == [toGo : Int, turn : Nat, before : Seq(Bit)]

\* the bits since the last marker behind MCU n
AfterMCU(c, im, s, n) ==
  IF n \in DOMAIN im.mcus
  THEN s.before \o PartBits(c, im.mcus[n], Len(im.mcus[n]))
  ELSE <<>>

\* a restart marker is behind MCU n
MarkedBehind(im, s, n) == s.toGo = 1 /\ n < Len(im.mcus)

\* what the coder knows behind MCU n, when s is what it knew in front of it
NextLedger(c, im, s, n) ==
  [toGo   |-> IF s.toGo = 1 THEN RestartsToGo(im)
              ELSE IF s.toGo > 0 THEN s.toGo - 1 ELSE s.toGo,
   turn   |-> IF MarkedBehind(im, s, n) THEN s.turn + 1 ELSE s.turn,
   before |-> IF MarkedBehind(im, s, n) THEN <<>> ELSE AfterMCU(c, im, s, n)]

\* what the coder knows at the start of an image
FirstLedger(im) == [toGo |-> RestartsToGo(im), turn |-> 0, before |-> <<>>]

\* What the coder knows behind each of the MCUs.
Ledger(c, im) ==
  CHOOSE l : Recurses(l, Ledgers, FirstLedger(im),
               [x \in Nat \X Ledgers |-> NextLedger(c, im, x[2], x[1] + 1)])

\* A step of the ledger stays in its set.
LEMMA LedgerTyped ==
  ASSUME NEW c, NEW im, CodedImage(c, im)
  PROVE  /\ FirstLedger(im) \in Ledgers
         /\ \A s \in Ledgers : \A n \in Nat :
              AfterMCU(c, im, s, n) \in Seq(Bit) /\ NextLedger(c, im, s, n) \in Ledgers
<1>0. im \in Images /\ \A m \in DOMAIN im.mcus : CodedMCU(c, im.mcus[m])
  BY DEF CodedImage
<1>1. RestartsToGo(im) \in Int
  BY <1>0, ImagesAssumption DEF RestartsToGo
<1>2. FirstLedger(im) \in Ledgers
  BY <1>1 DEF FirstLedger, Ledgers
<1>3. ASSUME NEW s \in Ledgers, NEW n \in Nat
      PROVE  AfterMCU(c, im, s, n) \in Seq(Bit)
  <2>1. s.before \in Seq(Bit)
    BY DEF Ledgers
  <2>2. CASE n \in DOMAIN im.mcus
    <3> DEFINE m == im.mcus[n]
    <3>1. DOMAIN m = 1 .. Len(m) /\ Len(m) \in Nat /\ CodedMCU(c, m)
      BY <1>0, <2>2, ImagesTyped
    <3> HIDE DEF m
    <3>2. Len(m) \in 0 .. Len(m)
      BY <3>1
    <3>3. PartBits(c, m, Len(m)) \in Seq(Bit)
      BY <3>1, <3>2, PartBitsAre
    <3> QED
      BY <2>1, <2>2, <3>3, Joined DEF AfterMCU, m
  <2>3. CASE n \notin DOMAIN im.mcus
    BY <2>3 DEF AfterMCU
  <2> QED
    BY <2>2, <2>3
<1>4. ASSUME NEW s \in Ledgers, NEW n \in Nat
      PROVE  NextLedger(c, im, s, n) \in Ledgers
  <2> DEFINE a == AfterMCU(c, im, s, n)
             t == IF s.toGo = 1 THEN RestartsToGo(im)
                  ELSE IF s.toGo > 0 THEN s.toGo - 1 ELSE s.toGo
             k == IF MarkedBehind(im, s, n) THEN s.turn + 1 ELSE s.turn
             b == IF MarkedBehind(im, s, n) THEN <<>> ELSE a
  <2>1. s.toGo \in Int /\ s.turn \in Nat
    BY DEF Ledgers
  <2>2. t \in Int /\ k \in Nat
    BY <1>1, <2>1
  <2>3. b \in Seq(Bit)
    BY <1>3
  <2>4. NextLedger(c, im, s, n) = [toGo |-> t, turn |-> k, before |-> b]
    BY DEF NextLedger
  <2> HIDE DEF a, t, k, b
  <2> QED
    BY <2>2, <2>3, <2>4 DEF Ledgers
<1> QED
  BY <1>2, <1>3, <1>4

\* The ledger starts as one does, and goes on MCU by MCU.
LEMMA LedgerIs ==
  ASSUME NEW c, NEW im, CodedImage(c, im)
  PROVE  /\ Ledger(c, im)[0] = FirstLedger(im)
         /\ \A n \in Nat : Ledger(c, im)[n] \in Ledgers
         /\ \A n \in Nat \ {0} :
              Ledger(c, im)[n] = NextLedger(c, im, Ledger(c, im)[n - 1], n)
<1> DEFINE step == [x \in Nat \X Ledgers |-> NextLedger(c, im, x[2], x[1] + 1)]
           l == Ledger(c, im)
           b == FirstLedger(im)
<1>1. b \in Ledgers /\ step \in Steps(Ledgers)
  BY LedgerTyped DEF Steps
<1>2. \A n \in Nat, s \in Ledgers : step[<<n, s>>] = NextLedger(c, im, s, n + 1)
  OBVIOUS
<1>3. Ledger(c, im) = CHOOSE f : Recurses(f, Ledgers, b, step)
  BY DEF Ledger
<1> HIDE DEF step, b
<1>4. Recurses(l, Ledgers, b, step)
  BY <1>1, <1>3, Recursion
<1> HIDE DEF l
<1>5. l[0] = b /\ \A n \in Nat : l[n] \in Ledgers
  BY <1>4 DEF Recurses
<1>6. ASSUME NEW n \in Nat \ {0}
      PROVE  l[n] = NextLedger(c, im, l[n - 1], n)
  <2>1. n - 1 \in Nat /\ (n - 1) + 1 = n
    OBVIOUS
  <2>2. l[(n - 1) + 1] = step[<<n - 1, l[n - 1]>>]
    BY <1>4, <2>1 DEF Recurses
  <2> QED
    BY <1>2, <1>5, <2>1, <2>2
<1> QED
  BY <1>5, <1>6 DEF l, b

-----------------------------------------------------------------------------
(* The frames of an image.                                                 *)

\* MCU n is all in front of the end of its frame, and if a restart marker is behind
\* it, the next frame starts behind that.
Closed(c, im, scan, F, n) ==
  LET s == Ledger(c, im)[n - 1]
      f == F[s.turn]
      d == AfterMCU(c, im, s, n)
  IN  /\ ClosedAtMarker(f, scan) /\ Begins(d, f.bits) /\ Len(d) <= Whole(f)
      /\ MarkedBehind(im, s, n) =>
           /\ Len(d) > Whole(f) - ByteBits
           /\ scan[f.pos[Whole(f)] + 1] = Rst(s.turn % 8)
           /\ F[s.turn + 1].pos[0] = f.pos[Whole(f)] + 2

\* The frames of all the intervals of an image.
Laid(c, im, scan, F) ==
  LET n == Len(im.mcus)
      s == Ledger(c, im)[n - 1]
      f == F[s.turn]
  IN  /\ F[0].pos[0] = 1
      /\ \A k \in 1 .. n : Closed(c, im, scan, F, k)
      /\ Len(AfterMCU(c, im, s, n)) > Whole(f) - ByteBits
      /\ scan[f.pos[Whole(f)] + 1] = End
      /\ NoMarks(scan, f.pos[0])

\* the bits of MCU k in front of its symbol n, or of the magnitude of that
InMCU(c, im, k, n, p) ==
  LET m == im.mcus[k]
  IN  IF p = "bits"
      THEN PartBits(c, m, n - 1) \o c[TableOf(m[n])][m[n].symbol]
      ELSE PartBits(c, m, n - 1)

\* The frames of the intervals of an image that is written up to there.
Laying(c, im, F, scan, snt, cod, k, n, p, togo, rst) ==
  LET l == Ledger(c, im)
      s == l[k - 1]
  IN  /\ k \in 1 .. Len(im.mcus) + 1
      /\ IF k \in DOMAIN im.mcus THEN n \in 1 .. Len(im.mcus[k]) + 1
         ELSE n = 1 /\ p # "bits"
      /\ togo = s.toGo /\ rst = s.turn % 8
      /\ cod = s.before \o InMCU(c, im, k, n, p)
      /\ AtEnd(F[s.turn], scan, snt)
      /\ F[0].pos[0] = 1
      /\ \A i \in 1 .. k - 1 :
           IF l[i - 1].turn = s.turn
           THEN Begins(AfterMCU(c, im, l[i - 1], i), cod) /\ ~MarkedBehind(im, l[i - 1], i)
           ELSE l[i - 1].turn < s.turn /\ Closed(c, im, scan, F, i)

\* What is closed stays so while the scan and the other frames go on.
LEMMA ClosedStays ==
  ASSUME NEW c, NEW im, CodedImage(c, im), NEW F, NEW G,
         NEW scan \in Seq(RawItem), NEW more \in Seq(RawItem),
         NEW n \in Nat \ {0}, Closed(c, im, scan, F, n),
         G[Ledger(c, im)[n - 1].turn] = F[Ledger(c, im)[n - 1].turn],
         MarkedBehind(im, Ledger(c, im)[n - 1], n) =>
           G[Ledger(c, im)[n - 1].turn + 1].pos[0] = F[Ledger(c, im)[n - 1].turn + 1].pos[0]
  PROVE  Closed(c, im, scan \o more, G, n)
<1> DEFINE s == Ledger(c, im)[n - 1]
           f == F[s.turn]
           b == scan \o more
           d == AfterMCU(c, im, s, n)
           i == f.pos[Whole(f)]
<1>1. /\ ClosedAtMarker(f, scan) /\ Begins(d, f.bits) /\ Len(d) <= Whole(f)
      /\ MarkedBehind(im, s, n) =>
           /\ Len(d) > Whole(f) - ByteBits
           /\ scan[f.pos[Whole(f)] + 1] = Rst(s.turn % 8)
           /\ F[s.turn + 1].pos[0] = f.pos[Whole(f)] + 2
  BY DEF Closed
<1>2. /\ Len(b) = Len(scan) + Len(more) /\ Len(scan) \in Nat /\ Len(more) \in Nat
      /\ \A k \in 1 .. Len(scan) : b[k] = scan[k]
  <2>1. /\ b \in Seq(RawItem) /\ Len(b) = Len(scan) + Len(more)
        /\ \A k \in 1 .. Len(scan) + Len(more) :
             b[k] = IF k <= Len(scan) THEN scan[k] ELSE more[k - Len(scan)]
    BY ConcatProperties
  <2>2. Len(scan) \in Nat /\ Len(more) \in Nat
    OBVIOUS
  <2> HIDE DEF b
  <2> QED
    BY <2>1, <2>2
<1>3. Frame(f, b)
  <2> HIDE DEF f
  <2> QED
    BY <1>1, FrameStays DEF ClosedAtMarker
<1> HIDE DEF b, s, d
<1>4. i \in 1 .. Len(scan) - 1 /\ scan[i] = Data(Ones)
  BY <1>1 DEF ClosedAtMarker
<1> HIDE DEF i
<1>5. /\ i \in 1 .. Len(b) - 1 /\ b[i] = scan[i] /\ b[i + 1] = scan[i + 1]
  BY <1>2, <1>4
<1>6. ClosedAtMarker(f, b)
  BY <1>1, <1>3, <1>4, <1>5 DEF ClosedAtMarker, i
<1>7. G[s.turn] = f /\ (MarkedBehind(im, s, n) => G[s.turn + 1].pos[0] = F[s.turn + 1].pos[0])
  BY DEF s
<1> HIDE DEF f
<1>8. /\ ClosedAtMarker(G[s.turn], b) /\ Begins(d, G[s.turn].bits) /\ Len(d) <= Whole(G[s.turn])
      /\ MarkedBehind(im, s, n) =>
           /\ Len(d) > Whole(G[s.turn]) - ByteBits
           /\ b[G[s.turn].pos[Whole(G[s.turn])] + 1] = Rst(s.turn % 8)
           /\ G[s.turn + 1].pos[0] = G[s.turn].pos[Whole(G[s.turn])] + 2
  BY <1>1, <1>5, <1>6, <1>7 DEF f, i
<1> QED
  BY <1>8 DEF Closed, s, d, b

\* A frame that starts behind the scan.
FreshFrame(i) == [bits |-> <<>>, pos |-> [o \in {0} |-> i]]

\* Such a frame is at the end of the scan.
LEMMA FreshIs ==
  ASSUME NEW scan \in Seq(RawItem), NEW i, i = Len(scan) + 1
  PROVE  AtEnd(FreshFrame(i), scan, <<>>) /\ FreshFrame(i).pos[0] = i
<1> DEFINE f == FreshFrame(i)
<1>0. Len(scan) \in Nat /\ i \in Nat \ {0} /\ Len(<<>>) = 0 /\ <<>> \in Seq(Bit)
  OBVIOUS
<1>1. f.bits = <<>> /\ DOMAIN f.pos = {0} /\ f.pos[0] = i
  BY DEF FreshFrame
<1> HIDE DEF f
<1>2. Frame(f, scan)
  BY <1>0, <1>1 DEF Frame
<1>3. NoMarks(scan, i)
  BY <1>0 DEF NoMarks
<1> QED
  BY <1>0, <1>1, <1>2, <1>3 DEF AtEnd, f

\* The first MCU is about to be written.
LEMMA LayingStarts ==
  ASSUME NEW c, NEW im, CodedImage(c, im)
  PROVE  \E F : Laying(c, im, F, <<>>, <<>>, <<>>, 1, 1, "symbol", RestartsToGo(im), 0)
<1> DEFINE F == [k \in Nat |-> FreshFrame(1)]
<1>0. im \in Images /\ Len(im.mcus) \in Nat /\ DOMAIN im.mcus = 1 .. Len(im.mcus)
  BY ImagesTyped DEF CodedImage
<1>1. /\ Ledger(c, im)[1 - 1] = FirstLedger(im)
      /\ FirstLedger(im).toGo = RestartsToGo(im) /\ FirstLedger(im).turn = 0
      /\ FirstLedger(im).before = <<>>
  BY LedgerIs DEF FirstLedger
<1>2. AtEnd(F[0], <<>>, <<>>) /\ F[0].pos[0] = 1
  <2>1. <<>> \in Seq(RawItem) /\ 1 = Len(<<>>) + 1
    OBVIOUS
  <2>2. AtEnd(FreshFrame(1), <<>>, <<>>) /\ FreshFrame(1).pos[0] = 1
    BY <2>1, FreshIs
  <2> QED
    BY <2>2
<1>3. <<>> = <<>> \o InMCU(c, im, 1, 1, "symbol")
  <2>1. InMCU(c, im, 1, 1, "symbol") = <<>>
    BY NoPartBits DEF InMCU
  <2>2. <<>> = <<>> \o <<>>
    OBVIOUS
  <2> QED
    BY <2>1, <2>2
<1>4. \A m \in DOMAIN im.mcus : Len(im.mcus[m]) \in Nat
  BY <1>0, ImagesTyped
<1> HIDE DEF F
<1>5. Laying(c, im, F, <<>>, <<>>, <<>>, 1, 1, "symbol", RestartsToGo(im), 0)
  <2>1. 1 \in 1 .. Len(im.mcus) + 1
    BY <1>0
  <2>2. IF 1 \in DOMAIN im.mcus THEN 1 \in 1 .. Len(im.mcus[1]) + 1
        ELSE 1 = 1 /\ "symbol" # "bits"
    BY <1>4
  <2> QED
    BY <1>1, <1>2, <1>3, <2>1, <2>2 DEF Laying
<1> QED
  BY <1>5

\* Bits of an MCU are written.
LEMMA LayingGrows ==
  ASSUME NEW c, NEW im, CodedImage(c, im), NEW F, NEW scan \in Seq(RawItem), NEW snt,
         NEW cod, NEW k, NEW n, NEW p, NEW togo, NEW rst,
         Laying(c, im, F, scan, snt, cod, k, n, p, togo, rst), k \in DOMAIN im.mcus,
         cod \in Seq(Bit),
         NEW more \in Seq(RawItem), NEW snt2, NEW g,
         AtEnd(g, scan \o more, snt2), g.pos[0] = F[Ledger(c, im)[k - 1].turn].pos[0],
         NEW w \in Seq(Bit), NEW n2, NEW p2, n2 \in 1 .. Len(im.mcus[k]) + 1,
         InMCU(c, im, k, n, p) \in Seq(Bit),
         InMCU(c, im, k, n2, p2) = InMCU(c, im, k, n, p) \o w
  PROVE  \E G : Laying(c, im, G, scan \o more, snt2, cod \o w, k, n2, p2, togo, rst)
<1> DEFINE l == Ledger(c, im)
           s == l[k - 1]
           G == [i \in Nat |-> IF i = s.turn THEN g ELSE F[i]]
           b == scan \o more
<1>0. im \in Images /\ Len(im.mcus) \in Nat /\ DOMAIN im.mcus = 1 .. Len(im.mcus)
  BY ImagesTyped DEF CodedImage
<1>1. /\ togo = s.toGo /\ rst = s.turn % 8
      /\ cod = s.before \o InMCU(c, im, k, n, p)
      /\ AtEnd(F[s.turn], scan, snt) /\ F[0].pos[0] = 1
      /\ \A i \in 1 .. k - 1 :
           IF l[i - 1].turn = s.turn
           THEN Begins(AfterMCU(c, im, l[i - 1], i), cod) /\ ~MarkedBehind(im, l[i - 1], i)
           ELSE l[i - 1].turn < s.turn /\ Closed(c, im, scan, F, i)
  BY DEF Laying
<1>2. \A i \in Nat : l[i] \in Ledgers /\ l[i].turn \in Nat /\ l[i].before \in Seq(Bit)
  BY LedgerIs DEF Ledgers
<1>3. k \in Nat \ {0} /\ k - 1 \in Nat /\ k \in 1 .. Len(im.mcus) + 1
  BY <1>0
<1>4. s.turn \in Nat /\ s.before \in Seq(Bit)
  BY <1>2, <1>3
<1>5. /\ G[s.turn] = g /\ \A i \in Nat : i # s.turn => G[i] = F[i]
      /\ \A i \in Nat : G[i].pos[0] = F[i].pos[0]
  BY <1>4
<1> HIDE DEF G
<1>6. cod \o w = s.before \o InMCU(c, im, k, n2, p2)
  <2> DEFINE x == InMCU(c, im, k, n, p)
             a == s.before
  <2>1. x \in Seq(Bit) /\ a \in Seq(Bit) /\ cod = a \o x /\ InMCU(c, im, k, n2, p2) = x \o w
    BY <1>1, <1>4
  <2> HIDE DEF x, a
  <2>2. (a \o x) \o w = a \o (x \o w)
    BY <2>1, Regrouped
  <2> QED
    BY <2>1, <2>2 DEF a
<1>7. ASSUME NEW i \in 1 .. k - 1
      PROVE  IF l[i - 1].turn = s.turn
             THEN Begins(AfterMCU(c, im, l[i - 1], i), cod \o w)
                  /\ ~MarkedBehind(im, l[i - 1], i)
             ELSE l[i - 1].turn < s.turn /\ Closed(c, im, b, G, i)
  <2>1. i \in Nat \ {0} /\ i - 1 \in Nat /\ l[i - 1] \in Ledgers /\ l[i - 1].turn \in Nat
    <3> HIDE DEF l
    <3>1. i \in Nat \ {0} /\ i - 1 \in Nat
      BY <1>3
    <3> QED
      BY <1>2, <3>1
  <2>2. CASE l[i - 1].turn = s.turn
    <3>1. AfterMCU(c, im, l[i - 1], i) \in Seq(Bit)
      BY <2>1, LedgerTyped
    <3>2. Begins(AfterMCU(c, im, l[i - 1], i), cod) /\ ~MarkedBehind(im, l[i - 1], i)
      BY <1>1, <2>2
    <3>3. Begins(AfterMCU(c, im, l[i - 1], i), cod \o w)
      <4> DEFINE a == AfterMCU(c, im, l[i - 1], i)
      <4> HIDE DEF a
      <4>1. a \in Seq(Bit) /\ Begins(a, cod)
        BY <3>1, <3>2 DEF a
      <4>2. Begins(a, cod \o w)
        BY <4>1, BeginsJoin
      <4> QED
        BY <4>2 DEF a
    <3> QED
      BY <2>2, <3>2, <3>3
  <2>3. CASE l[i - 1].turn # s.turn
    <3>1. l[i - 1].turn < s.turn /\ Closed(c, im, scan, F, i)
      BY <1>1, <2>3
    <3>2. /\ G[Ledger(c, im)[i - 1].turn] = F[Ledger(c, im)[i - 1].turn]
          /\ G[Ledger(c, im)[i - 1].turn + 1].pos[0] = F[Ledger(c, im)[i - 1].turn + 1].pos[0]
      <4> HIDE DEF s
      <4>1. l[i - 1].turn \in Nat /\ l[i - 1].turn + 1 \in Nat /\ l[i - 1].turn # s.turn
        BY <2>1, <2>3
      <4> QED
        BY <1>5, <4>1
    <3>3. Closed(c, im, scan \o more, G, i)
      BY <2>1, <3>1, <3>2, ClosedStays
    <3> QED
      BY <2>3, <3>1, <3>3
  <2> QED
    BY <2>2, <2>3
<1>8. G[0].pos[0] = 1 /\ AtEnd(G[s.turn], b, snt2)
  BY <1>1, <1>5
<1>9. Laying(c, im, G, b, snt2, cod \o w, k, n2, p2, togo, rst)
  <2> HIDE DEF b
  <2> QED
    BY <1>1, <1>3, <1>6, <1>7, <1>8 DEF Laying
<1> QED
  BY <1>9

\* An MCU ends, and no restart marker is behind it.
LEMMA LayingTurns ==
  ASSUME NEW c, NEW im, CodedImage(c, im), NEW F, NEW scan, NEW snt, NEW cod,
         NEW k, NEW n, NEW p, NEW togo, NEW rst,
         Laying(c, im, F, scan, snt, cod, k, n, p, togo, rst),
         k \in DOMAIN im.mcus, n = Len(im.mcus[k]) + 1, p # "bits",
         ~MarkedBehind(im, Ledger(c, im)[k - 1], k)
  PROVE  Laying(c, im, F, scan, snt, cod, k + 1, 1, p, Ledger(c, im)[k].toGo, rst)
<1> DEFINE l == Ledger(c, im)
           s == l[k - 1]
           t == l[k]
<1>0. /\ im \in Images /\ Len(im.mcus) \in Nat /\ DOMAIN im.mcus = 1 .. Len(im.mcus)
      /\ \A m \in DOMAIN im.mcus : Len(im.mcus[m]) \in Nat
  BY ImagesTyped DEF CodedImage
<1>1. /\ togo = s.toGo /\ rst = s.turn % 8
      /\ cod = s.before \o InMCU(c, im, k, n, p)
      /\ AtEnd(F[s.turn], scan, snt) /\ F[0].pos[0] = 1
      /\ \A i \in 1 .. k - 1 :
           IF l[i - 1].turn = s.turn
           THEN Begins(AfterMCU(c, im, l[i - 1], i), cod) /\ ~MarkedBehind(im, l[i - 1], i)
           ELSE l[i - 1].turn < s.turn /\ Closed(c, im, scan, F, i)
  BY DEF Laying
<1>2. k \in Nat \ {0} /\ k - 1 \in Nat /\ k + 1 \in 1 .. Len(im.mcus) + 1 /\ (k + 1) - 1 = k
  <2> DEFINE z == Len(im.mcus)
  <2>1. z \in Nat /\ k \in 1 .. z
    BY <1>0
  <2> HIDE DEF z
  <2>2. k \in Nat \ {0} /\ k - 1 \in Nat /\ k + 1 \in 1 .. z + 1 /\ (k + 1) - 1 = k
    BY <2>1
  <2> QED
    BY <2>2 DEF z
<1>3. t = NextLedger(c, im, s, k) /\ s \in Ledgers /\ AfterMCU(c, im, s, k) \in Seq(Bit)
  BY <1>2, LedgerIs, LedgerTyped
<1>4. t.turn = s.turn /\ t.before = AfterMCU(c, im, s, k)
  BY <1>3 DEF NextLedger
<1>5. AfterMCU(c, im, s, k) = cod
  <2>1. InMCU(c, im, k, n, p) = PartBits(c, im.mcus[k], Len(im.mcus[k]))
    <3>1. n - 1 = Len(im.mcus[k])
      BY <1>0
    <3> QED
      BY <3>1 DEF InMCU
  <2> QED
    BY <1>1, <2>1 DEF AfterMCU
<1>6. cod = t.before \o InMCU(c, im, k + 1, 1, p)
  <2>1. InMCU(c, im, k + 1, 1, p) = <<>>
    BY NoPartBits DEF InMCU
  <2>2. cod \in Seq(Bit) /\ t.before = cod
    BY <1>3, <1>4, <1>5
  <2>3. cod = cod \o <<>>
    BY <2>2, ConcatEmptySeq
  <2> QED
    BY <2>1, <2>2, <2>3
<1>7. ASSUME NEW i \in 1 .. k
      PROVE  IF l[i - 1].turn = t.turn
             THEN Begins(AfterMCU(c, im, l[i - 1], i), cod) /\ ~MarkedBehind(im, l[i - 1], i)
             ELSE l[i - 1].turn < t.turn /\ Closed(c, im, scan, F, i)
  <2>1. CASE i = k
    <3>1. Begins(cod, cod)
      BY <1>3, <1>5, BeginsJoin
    <3> QED
      BY <1>4, <1>5, <2>1, <3>1
  <2>2. CASE i # k
    <3>1. i \in 1 .. k - 1
      BY <1>2, <2>2
    <3> QED
      BY <1>1, <1>4, <3>1
  <2> QED
    BY <2>1, <2>2
<1>8. IF k + 1 \in DOMAIN im.mcus THEN 1 \in 1 .. Len(im.mcus[k + 1]) + 1
      ELSE 1 = 1 /\ p # "bits"
  BY <1>0
<1>9. rst = t.turn % 8 /\ AtEnd(F[t.turn], scan, snt)
  BY <1>1, <1>4
<1> HIDE DEF l, s, t
<1>10. /\ Ledger(c, im)[(k + 1) - 1] = t /\ Ledger(c, im) = l
  BY <1>2 DEF l, t
<1> QED
  BY <1>1, <1>2, <1>6, <1>7, <1>8, <1>9, <1>10 DEF Laying

\* the whole bits of a closed frame
LEMMA WholeIs ==
  ASSUME NEW f, NEW raws, ClosedAtMarker(f, raws)
  PROVE  /\ f.bits \in Seq(Bit) /\ Len(f.bits) \in Nat /\ Whole(f) \in Nat
         /\ ByteBits \in Nat \ {0} /\ Len(f.bits) = Whole(f) + 2 * ByteBits
<1>1. f.bits \in Seq(Bit) /\ Whole(f) \in 0 .. Len(f.bits)
  BY DEF ClosedAtMarker, Frame
<1>2. Len(f.bits) \in Nat
  BY <1>1
<1> QED
  BY <1>1, <1>2, ByteBitsAssumption DEF Whole

\* Frames in which the one that is written to is closed with the marker x: all MCUs in
\* front of k are in front of the ends of their frames.
ClosesAll(c, im, F, k, cod, raws, x) ==
  LET turn == Ledger(c, im)[k - 1].turn
  IN  \E g : /\ ClosedWith(g, raws, cod, x) /\ g.pos[0] = F[turn].pos[0]
             /\ x = End => NoMarks(raws, g.pos[0])
             /\ \A G : G[turn] = g /\ (\A i \in 0 .. turn - 1 : G[i] = F[i])
                  => \A i \in 1 .. k - 1 : Closed(c, im, raws, G, i)

\* What FrameCloses says of a frame at the end of the scan.
ClosesTo(f, scan, bits, raws, x) ==
  /\ raws \in Seq(RawItem)
  /\ \E g : ClosedWith(g, raws, f.bits \o bits, x) /\ g.pos[0] = f.pos[0]
  /\ \A i \in Nat \ {0} : NoMarks(scan, i) /\ x = End => NoMarks(raws, i)
  /\ \E more \in Seq(RawItem) : raws = scan \o more

\* A frame at the end of the scan can be closed.
LEMMA FrameClosesTo ==
  ASSUME NEW f, NEW scan \in Seq(RawItem), NEW snt, AtEnd(f, scan, snt),
         NEW bits \in Seq(Bit), Len(bits) <= ByteBits, NEW pad, Padding(bits, pad),
         NEW x \in RawItem, IsMarker(x)
  PROVE  ClosesTo(f, scan, bits, WithMarker(scan, pad, x), x)
<1>1. Frame(f, scan) /\ f.pos[Len(f.bits)] = Len(scan) + 1
  BY DEF AtEnd
<1> QED
  BY <1>1, FrameCloses DEF ClosesTo

\* The frame that is written to is closed.
LEMMA LayingCloses ==
  ASSUME NEW c, NEW im, CodedImage(c, im), NEW F, NEW scan \in Seq(RawItem), NEW snt,
         NEW cod \in Seq(Bit), NEW k, NEW n, NEW p, NEW togo, NEW rst,
         Laying(c, im, F, scan, snt, cod, k, n, p, togo, rst),
         NEW bits \in Seq(Bit), Len(bits) <= ByteBits, cod = snt \o bits,
         NEW pad, Padding(bits, pad), NEW x \in RawItem, IsMarker(x)
  PROVE  /\ WithMarker(scan, pad, x) \in Seq(RawItem)
         /\ ClosesAll(c, im, F, k, cod, WithMarker(scan, pad, x), x)
<1> DEFINE l == Ledger(c, im)
           s == l[k - 1]
           f == F[s.turn]
           raws == WithMarker(scan, pad, x)
<1>0. /\ im \in Images /\ Len(im.mcus) \in Nat /\ DOMAIN im.mcus = 1 .. Len(im.mcus)
  BY ImagesTyped DEF CodedImage
<1>1. /\ k \in 1 .. Len(im.mcus) + 1
      /\ AtEnd(f, scan, snt)
      /\ \A i \in 1 .. k - 1 :
           IF l[i - 1].turn = s.turn
           THEN Begins(AfterMCU(c, im, l[i - 1], i), cod) /\ ~MarkedBehind(im, l[i - 1], i)
           ELSE l[i - 1].turn < s.turn /\ Closed(c, im, scan, F, i)
  BY DEF Laying
<1>2. k \in Nat \ {0} /\ k - 1 \in Nat
  BY <1>0, <1>1
<1>3. s \in Ledgers /\ s.turn \in Nat
  BY <1>2, LedgerIs DEF Ledgers
<1> HIDE DEF f
<1>4. /\ Frame(f, scan) /\ f.pos[Len(f.bits)] = Len(scan) + 1
      /\ NoMarks(scan, f.pos[0]) /\ f.bits \o bits = cod
      /\ f.pos[0] \in Nat \ {0}
  BY <1>1 DEF AtEnd, Frame
<1>7. /\ raws \in Seq(RawItem)
      /\ \E g : ClosedWith(g, raws, f.bits \o bits, x) /\ g.pos[0] = f.pos[0]
      /\ \A i \in Nat \ {0} : NoMarks(scan, i) /\ x = End => NoMarks(raws, i)
      /\ \E more \in Seq(RawItem) : raws = scan \o more
  <2>1. ClosesTo(f, scan, bits, WithMarker(scan, pad, x), x)
    BY <1>1, FrameClosesTo
  <2> QED
    BY <2>1 DEF ClosesTo
<1>6. PICK more \in Seq(RawItem) : raws = scan \o more
  BY <1>7
<1> HIDE DEF raws
<1>8. PICK g : ClosedWith(g, raws, cod, x) /\ g.pos[0] = f.pos[0]
  BY <1>4, <1>7
<1>9. x = End => NoMarks(raws, g.pos[0])
  BY <1>4, <1>7, <1>8
<1>10. ClosedAtMarker(g, raws) /\ Begins(cod, g.bits) /\ Len(cod) <= Whole(g)
  BY <1>8 DEF ClosedWith
<1>11. ASSUME NEW G, G[s.turn] = g, \A i \in 0 .. s.turn - 1 : G[i] = F[i],
              NEW i \in 1 .. k - 1
       PROVE  Closed(c, im, raws, G, i)
  <2>1. i \in Nat \ {0} /\ i - 1 \in Nat
    BY <1>2
  <2>2. l[i - 1] \in Ledgers /\ l[i - 1].turn \in Nat
    BY <2>1, LedgerIs DEF Ledgers
  <2>3. CASE l[i - 1].turn = s.turn
    <3> DEFINE a == AfterMCU(c, im, l[i - 1], i)
    <3>1. Begins(a, cod) /\ ~MarkedBehind(im, l[i - 1], i)
      BY <1>1, <2>3
    <3>2. a \in Seq(Bit)
      BY <2>1, <2>2, LedgerTyped
    <3> HIDE DEF a
    <3>3. Begins(a, g.bits) /\ Len(a) <= Whole(g)
      <4>1. Len(a) \in Nat /\ Len(cod) \in Nat /\ Len(g.bits) \in Nat /\ Whole(g) \in Nat
        BY <1>10, <3>2, WholeIs
      <4>2. Len(a) <= Len(cod) /\ \A d \in 1 .. Len(a) : a[d] = cod[d]
        BY <3>1 DEF Begins
      <4>3. Len(cod) <= Len(g.bits) /\ \A d \in 1 .. Len(cod) : cod[d] = g.bits[d]
        BY <1>10 DEF Begins
      <4>4. ASSUME NEW d \in 1 .. Len(a)
            PROVE  a[d] = g.bits[d]
        <5>1. d \in 1 .. Len(cod)
          BY <4>1, <4>2
        <5> QED
          BY <4>2, <4>3, <5>1
      <4>5. Len(a) <= Len(g.bits) /\ Len(a) <= Whole(g)
        BY <1>10, <4>1, <4>2, <4>3
      <4> QED
        BY <4>4, <4>5 DEF Begins
    <3> QED
      BY <1>10, <1>11, <2>3, <3>1, <3>3 DEF Closed, a
  <2>4. CASE l[i - 1].turn # s.turn
    <3>1. l[i - 1].turn < s.turn /\ Closed(c, im, scan, F, i)
      BY <1>1, <2>4
    <3> DEFINE u == l[i - 1].turn
    <3>2. u \in 0 .. s.turn - 1 /\ (u + 1 \in 0 .. s.turn - 1 \/ u + 1 = s.turn)
      <4>1. u \in Nat /\ u < s.turn
        BY <2>2, <3>1
      <4> HIDE DEF u, s
      <4> QED
        BY <1>3, <4>1
    <3>3. G[u] = F[u] /\ G[u + 1].pos[0] = F[u + 1].pos[0]
      BY <1>8, <1>11, <3>2 DEF f
    <3>4. Closed(c, im, scan \o more, G, i)
      BY <2>1, <3>1, <3>3, ClosedStays
    <3> QED
      BY <1>6, <3>4
  <2> QED
    BY <2>3, <2>4
<1>12. ClosesAll(c, im, F, k, cod, raws, x)
  BY <1>8, <1>9, <1>11 DEF ClosesAll, f
<1> QED
  BY <1>7, <1>12 DEF raws

\* The numbers of the restart markers count modulo 8.
LEMMA MarksWrap ==
  \A a \in Nat : a % 8 \in 0 .. 7 /\ ((a % 8) + 1) % 8 = (a + 1) % 8
OBVIOUS

\* An MCU ends, and the restart marker behind it is written.
LEMMA LayingMarks ==
  ASSUME NEW c, NEW im, CodedImage(c, im), NEW F, NEW scan \in Seq(RawItem), NEW snt,
         NEW cod \in Seq(Bit), NEW k, NEW n, NEW p, NEW togo, NEW rst,
         Laying(c, im, F, scan, snt, cod, k, n, p, togo, rst),
         NEW bits \in Seq(Bit), Len(bits) <= ByteBits, cod = snt \o bits,
         NEW pad, Padding(bits, pad),
         k \in DOMAIN im.mcus, n = Len(im.mcus[k]) + 1, p # "bits",
         MarkedBehind(im, Ledger(c, im)[k - 1], k)
  PROVE  \E G : Laying(c, im, G, WithMarker(scan, pad, Rst(rst)), <<>>, <<>>,
                       k + 1, 1, p, Ledger(c, im)[k].toGo, (rst + 1) % 8)
<1> DEFINE l == Ledger(c, im)
           s == l[k - 1]
           t == l[k]
           x == Rst(rst)
           raws == WithMarker(scan, pad, x)
<1>0. /\ im \in Images /\ Len(im.mcus) \in Nat /\ DOMAIN im.mcus = 1 .. Len(im.mcus)
      /\ \A m \in DOMAIN im.mcus : Len(im.mcus[m]) \in Nat
  BY ImagesTyped DEF CodedImage
<1>1. /\ rst = s.turn % 8 /\ cod = s.before \o InMCU(c, im, k, n, p) /\ F[0].pos[0] = 1
      /\ \A i \in 1 .. k - 1 : l[i - 1].turn = s.turn \/ l[i - 1].turn < s.turn
  BY DEF Laying
<1>2. k \in Nat \ {0} /\ k - 1 \in Nat /\ k + 1 \in 1 .. Len(im.mcus) + 1 /\ (k + 1) - 1 = k
  <2> DEFINE z == Len(im.mcus)
  <2>1. z \in Nat /\ k \in 1 .. z
    BY <1>0
  <2> HIDE DEF z
  <2>2. k \in Nat \ {0} /\ k - 1 \in Nat /\ k + 1 \in 1 .. z + 1 /\ (k + 1) - 1 = k
    BY <2>1
  <2> QED
    BY <2>2 DEF z
<1>3. /\ t = NextLedger(c, im, s, k) /\ s \in Ledgers /\ s.turn \in Nat
      /\ \A i \in Nat : l[i] \in Ledgers /\ l[i].turn \in Nat
  BY <1>2, LedgerIs DEF Ledgers
<1>4. t.turn = s.turn + 1 /\ t.before = <<>>
  BY <1>3 DEF NextLedger
<1>7. AfterMCU(c, im, s, k) = cod
  <2>1. InMCU(c, im, k, n, p) = PartBits(c, im.mcus[k], Len(im.mcus[k]))
    <3>1. n - 1 = Len(im.mcus[k])
      BY <1>0
    <3> QED
      BY <3>1 DEF InMCU
  <2> QED
    BY <1>1, <2>1 DEF AfterMCU
<1>5. rst \in 0 .. 7 /\ (rst + 1) % 8 = t.turn % 8
  BY <1>1, <1>3, <1>4, MarksWrap
<1>6. x \in RawItem /\ IsMarker(x)
  BY <1>5, ItemsApart
<1> HIDE DEF x, l
<1>8. raws \in Seq(RawItem) /\ ClosesAll(c, im, F, k, cod, raws, x)
  BY <1>6, LayingCloses
<1> HIDE DEF raws
<1>9. PICK g : /\ ClosedWith(g, raws, cod, x) /\ g.pos[0] = F[s.turn].pos[0]
               /\ \A G : G[s.turn] = g /\ (\A i \in 0 .. s.turn - 1 : G[i] = F[i])
                     => \A i \in 1 .. k - 1 : Closed(c, im, raws, G, i)
  BY <1>8 DEF ClosesAll, l
<1>a. /\ ClosedAtMarker(g, raws) /\ Begins(cod, g.bits)
      /\ Len(cod) \in Whole(g) - ByteBits + 1 .. Whole(g)
      /\ g.pos[Whole(g)] = Len(raws) - 1 /\ raws[Len(raws)] = x
  BY <1>9 DEF ClosedWith
<1> DEFINE e == Len(raws) + 1
           G == [i \in Nat |-> IF i = s.turn THEN g
                               ELSE IF i = t.turn THEN FreshFrame(e) ELSE F[i]]
<1>10. Len(raws) \in Nat /\ e \in Nat
  BY <1>8
<1>11. AtEnd(FreshFrame(e), raws, <<>>) /\ FreshFrame(e).pos[0] = e
  BY <1>8, FreshIs
<1> HIDE DEF s, t
<1>12. /\ G[s.turn] = g /\ G[t.turn] = FreshFrame(e)
       /\ \A i \in 0 .. s.turn - 1 : G[i] = F[i]
  BY <1>3, <1>4
<1>13. G[0].pos[0] = 1
  <2>1. s.turn = 0 => G[0].pos[0] = 1
    BY <1>1, <1>9, <1>12
  <2>2. s.turn # 0 => 0 \in 0 .. s.turn - 1
    BY <1>3
  <2> QED
    BY <1>1, <1>12, <2>1, <2>2
<1> HIDE DEF G, e
<1>14. Closed(c, im, raws, G, k)
  <2>1. raws[g.pos[Whole(g)] + 1] = x
    BY <1>a, <1>10
  <2>2. Len(cod) > Whole(g) - ByteBits /\ Len(cod) <= Whole(g)
    <3>1. Whole(g) \in Nat /\ ByteBits \in Nat \ {0}
      BY <1>a, WholeIs
    <3> QED
      BY <1>a, <3>1
  <2>3. G[s.turn + 1].pos[0] = g.pos[Whole(g)] + 2
    BY <1>4, <1>a, <1>10, <1>11, <1>12 DEF e
  <2>4. x = Rst(s.turn % 8)
    BY <1>1 DEF x
  <2>5. Ledger(c, im)[k - 1] = s
    BY DEF s, l
  <2> QED
    BY <1>7, <1>a, <1>12, <2>1, <2>2, <2>3, <2>4, <2>5 DEF Closed
<1>15. ASSUME NEW i \in 1 .. k
       PROVE  l[i - 1].turn < t.turn /\ Closed(c, im, raws, G, i)
  <2>1. CASE i = k
    <3>1. l[i - 1] = s
      BY <2>1 DEF s
    <3>2. s.turn < t.turn
      BY <1>3, <1>4
    <3> QED
      BY <1>14, <2>1, <3>1, <3>2
  <2>2. CASE i # k
    <3>1. i \in 1 .. k - 1 /\ i - 1 \in Nat
      BY <1>2, <2>2
    <3>2. Closed(c, im, raws, G, i)
      BY <1>9, <1>12, <3>1
    <3>3. l[i - 1].turn = s.turn \/ l[i - 1].turn < s.turn
      BY <1>1, <3>1
    <3>4. l[i - 1].turn \in Nat
      BY <1>3, <3>1
    <3>5. l[i - 1].turn < t.turn
      BY <1>3, <1>4, <3>3, <3>4
    <3> QED
      BY <3>2, <3>5
  <2> QED
    BY <2>1, <2>2
<1>16. <<>> = t.before \o InMCU(c, im, k + 1, 1, p)
  <2>1. InMCU(c, im, k + 1, 1, p) = <<>>
    BY NoPartBits DEF InMCU
  <2>2. <<>> = <<>> \o <<>>
    OBVIOUS
  <2> QED
    BY <1>4, <2>1, <2>2
<1>17. IF k + 1 \in DOMAIN im.mcus THEN 1 \in 1 .. Len(im.mcus[k + 1]) + 1
       ELSE 1 = 1 /\ p # "bits"
  BY <1>0
<1>18. Ledger(c, im)[(k + 1) - 1] = t /\ Ledger(c, im) = l /\ Ledger(c, im)[k] = t
  BY <1>2 DEF l, t
<1>19. ASSUME NEW i \in 1 .. (k + 1) - 1
       PROVE  IF l[i - 1].turn = t.turn
              THEN Begins(AfterMCU(c, im, l[i - 1], i), <<>>) /\ ~MarkedBehind(im, l[i - 1], i)
              ELSE l[i - 1].turn < t.turn /\ Closed(c, im, raws, G, i)
  <2>1. i \in 1 .. k /\ i - 1 \in Nat
    BY <1>2
  <2>2. l[i - 1].turn < t.turn /\ Closed(c, im, raws, G, i) /\ l[i - 1].turn \in Nat
    BY <1>3, <1>15, <2>1
  <2>3. t.turn \in Nat
    BY <1>3, <1>4
  <2>4. l[i - 1].turn # t.turn
    BY <2>2, <2>3
  <2> QED
    BY <2>2, <2>4
<1>20. AtEnd(G[t.turn], raws, <<>>)
  BY <1>11, <1>12
<1>21. Laying(c, im, G, raws, <<>>, <<>>, k + 1, 1, p, t.toGo, (rst + 1) % 8)
  BY <1>2, <1>5, <1>13, <1>16, <1>17, <1>18, <1>19, <1>20 DEF Laying
<1> QED
  BY <1>18, <1>21 DEF raws, x

\* The image ends, and the end marker is written.
LEMMA LayingEnds ==
  ASSUME NEW c, NEW im, CodedImage(c, im), NEW F, NEW scan \in Seq(RawItem), NEW snt,
         NEW cod \in Seq(Bit), NEW k, NEW n, NEW p, NEW togo, NEW rst,
         Laying(c, im, F, scan, snt, cod, k, n, p, togo, rst),
         NEW bits \in Seq(Bit), Len(bits) <= ByteBits, cod = snt \o bits,
         NEW pad, Padding(bits, pad),
         k > Len(im.mcus), im.mcus # <<>>
  PROVE  \E G : Laid(c, im, WithMarker(scan, pad, End), G)
<1> DEFINE l == Ledger(c, im)
           s == l[k - 1]
           r == l[(k - 1) - 1]
           raws == WithMarker(scan, pad, End)
<1>0. /\ im \in Images /\ Len(im.mcus) \in Nat \ {0} /\ DOMAIN im.mcus = 1 .. Len(im.mcus)
  <2>1. im \in Images
    BY DEF CodedImage
  <2>2. Len(im.mcus) # 0
    BY <2>1, ImagesTyped, EmptySeq
  <2> QED
    BY <2>1, <2>2, ImagesTyped
<1>1. /\ k \in 1 .. Len(im.mcus) + 1 /\ cod = s.before \o InMCU(c, im, k, n, p)
      /\ F[0].pos[0] = 1 /\ (k \notin DOMAIN im.mcus => n = 1 /\ p # "bits")
  BY DEF Laying
<1>2. /\ k = Len(im.mcus) + 1 /\ k - 1 \in Nat \ {0} /\ (k - 1) - 1 \in Nat
      /\ k \notin DOMAIN im.mcus /\ k - 1 \in DOMAIN im.mcus /\ k - 1 = Len(im.mcus)
  <2> DEFINE z == Len(im.mcus)
  <2>1. z \in Nat \ {0} /\ k \in 1 .. z + 1 /\ k > z
    BY <1>0, <1>1
  <2> HIDE DEF z
  <2>2. /\ k = z + 1 /\ k - 1 \in Nat \ {0} /\ (k - 1) - 1 \in Nat
        /\ k \notin 1 .. z /\ k - 1 \in 1 .. z /\ k - 1 = z
    BY <2>1
  <2> QED
    BY <1>0, <2>2 DEF z
<1>3. /\ s = NextLedger(c, im, r, k - 1) /\ s \in Ledgers /\ r \in Ledgers
      /\ s.turn \in Nat
  BY <1>2, LedgerIs DEF Ledgers
<1>4. ~MarkedBehind(im, r, k - 1)
  BY <1>2 DEF MarkedBehind
<1>5. s.turn = r.turn /\ s.before = AfterMCU(c, im, r, k - 1)
  BY <1>3, <1>4 DEF NextLedger
<1>6. cod = AfterMCU(c, im, r, k - 1)
  <2>1. InMCU(c, im, k, n, p) = <<>>
    <3>1. n = 1 /\ p # "bits"
      BY <1>1, <1>2
    <3> QED
      BY <3>1, NoPartBits DEF InMCU
  <2>2. s.before \in Seq(Bit)
    BY <1>3 DEF Ledgers
  <2>3. s.before \o <<>> = s.before
    BY <2>2, ConcatEmptySeq
  <2> QED
    BY <1>1, <1>5, <2>1, <2>3
<1>7. End \in RawItem /\ IsMarker(End)
  BY ItemsApart
<1>8. raws \in Seq(RawItem) /\ ClosesAll(c, im, F, k, cod, raws, End)
  BY <1>7, LayingCloses
<1> HIDE DEF raws, l, s, r
<1>9. PICK g : /\ ClosedWith(g, raws, cod, End) /\ g.pos[0] = F[s.turn].pos[0]
               /\ NoMarks(raws, g.pos[0])
               /\ \A G : G[s.turn] = g /\ (\A i \in 0 .. s.turn - 1 : G[i] = F[i])
                     => \A i \in 1 .. k - 1 : Closed(c, im, raws, G, i)
  BY <1>8 DEF ClosesAll, s, l
<1>a. /\ ClosedAtMarker(g, raws) /\ Begins(cod, g.bits)
      /\ Len(cod) \in Whole(g) - ByteBits + 1 .. Whole(g)
      /\ g.pos[Whole(g)] = Len(raws) - 1 /\ raws[Len(raws)] = End
  BY <1>9 DEF ClosedWith
<1> DEFINE G == [i \in Nat |-> IF i = s.turn THEN g ELSE F[i]]
<1>10. G[s.turn] = g /\ \A i \in 0 .. s.turn - 1 : G[i] = F[i]
  BY <1>3
<1>11. G[0].pos[0] = 1
  <2>1. s.turn = 0 => G[0].pos[0] = 1
    BY <1>1, <1>9, <1>10
  <2>2. s.turn # 0 => 0 \in 0 .. s.turn - 1
    BY <1>3
  <2> QED
    BY <1>1, <1>10, <2>1, <2>2
<1> HIDE DEF G
<1>12. \A i \in 1 .. Len(im.mcus) : Closed(c, im, raws, G, i)
  BY <1>2, <1>9, <1>10
<1>14. Len(cod) > Whole(g) - ByteBits
  <2>1. Whole(g) \in Nat /\ ByteBits \in Nat \ {0}
    BY <1>a, WholeIs
  <2> QED
    BY <1>a, <2>1
<1>15. raws[g.pos[Whole(g)] + 1] = End
  <2>1. Len(raws) \in Nat
    BY <1>8
  <2> QED
    BY <1>a, <2>1
<1>16. Ledger(c, im)[Len(im.mcus) - 1] = r /\ G[r.turn] = g
  BY <1>2, <1>5, <1>10 DEF r, l
<1>17. cod = AfterMCU(c, im, r, Len(im.mcus))
  BY <1>2, <1>6
<1>18. Laid(c, im, raws, G)
  BY <1>9, <1>11, <1>12, <1>14, <1>15, <1>16, <1>17 DEF Laid
<1> QED
  BY <1>18 DEF raws

-----------------------------------------------------------------------------
(* The codes.                                                              *)

\* The codes tell the symbols apart.
Apart(c) ==
  \A t \in Tables : \A s \in DOMAIN c[t] :
    /\ c[t][s] \in Codes /\ Len(c[t][s]) \in 1 .. MaxBits
    /\ \A r \in DOMAIN c[t] \ {s} : ~IsPrefix(c[t][r], c[t][s])

\* All symbols of an image have codes.
FoundImage(c, im) ==
  \A m \in DOMAIN im.mcus : \A i \in DOMAIN im.mcus[m] :
    LET u == im.mcus[m][i] IN TableOf(u) \in Tables /\ u.symbol \in DOMAIN c[TableOf(u)]

\* The codes cal_new_huffman makes have both properties, for all images.
LEMMA NewCodesRight ==
  ASSUME RecoderTyped, Counted, phase # "count", NEW c,
         c = [t \in Tables |-> [s \in Found(t) |-> NewCode(Rank(t, s))]]
  PROVE  /\ Apart(c)
         /\ \A f \in Files : CodedImage(c, image[f]) /\ FoundImage(c, image[f])
<1>1. /\ huff_val \in [Tables -> [Symbols -> Nat]] /\ image \in [Files -> Images]
  BY DEF RecoderTyped
<1>2. ASSUME NEW t \in Tables, NEW s \in DOMAIN c[t]
      PROVE  /\ s \in Found(t) /\ c[t][s] = NewCode(Rank(t, s))
             /\ Rank(t, s) \in 1 .. Cardinality(Symbols)
             /\ c[t][s] \in Codes /\ Len(c[t][s]) \in 1 .. MaxBits
  <2>1. s \in Found(t) /\ c[t][s] = NewCode(Rank(t, s))
    BY <1>2
  <2>2. Rank(t, s) \in 1 .. Cardinality(Symbols)
    BY <1>1, <2>1, RankInRange DEF Found
  <2> QED
    BY <2>1, <2>2, NewCodeIs
<1>3. ASSUME NEW t \in Tables, NEW s \in DOMAIN c[t], NEW r \in DOMAIN c[t] \ {s}
      PROVE  ~IsPrefix(c[t][r], c[t][s])
  <2> DEFINE p == Rank(t, r)
             q == Rank(t, s)
  <2>1. /\ p \in 1 .. Cardinality(Symbols) /\ q \in 1 .. Cardinality(Symbols)
        /\ c[t][r] = NewCode(p) /\ c[t][s] = NewCode(q)
    BY <1>2
  <2>2. p # q
    BY <1>1, <1>2, RanksApart
  <2> HIDE DEF p, q
  <2>3. p \in Nat /\ q \in Nat
    BY <2>1, MaxBitsIs
  <2>4. p < q \/ q < p
    BY <2>2, <2>3
  <2> QED
    BY <2>1, <2>4, NewCodesApart
<1>4. Apart(c)
  BY <1>2, <1>3 DEF Apart
<1>5. ASSUME NEW f \in Files, NEW m \in DOMAIN image[f].mcus,
             NEW i \in DOMAIN image[f].mcus[m]
      PROVE  LET u == image[f].mcus[m][i]
             IN  /\ TableOf(u) \in Tables /\ u.symbol \in DOMAIN c[TableOf(u)]
                 /\ c[TableOf(u)][u.symbol] \in Seq(Bit) /\ u.bits \in Seq(Bit)
  <2> DEFINE u == image[f].mcus[m][i]
  <2>1. u \in Unit
    BY <1>1, ImagesTyped
  <2>2. huff_val[TableFor(f, m, i)][SymbolOf(f, m, i)] # 0
    BY DEF Counted, Passed
  <2>3. TableFor(f, m, i) = TableOf(u) /\ SymbolOf(f, m, i) = u.symbol
    BY DEF TableFor, SymbolOf
  <2> HIDE DEF u
  <2>4. TableOf(u) \in Tables /\ u.symbol \in Found(TableOf(u))
    BY <2>1, <2>2, <2>3, TablesTyped DEF Found
  <2>5. u.symbol \in DOMAIN c[TableOf(u)]
    BY <2>4
  <2>6. c[TableOf(u)][u.symbol] \in Codes
    BY <1>2, <2>4, <2>5
  <2>7. c[TableOf(u)][u.symbol] \in Seq(Bit) /\ u.bits \in Seq(Bit)
    BY <2>1, <2>6 DEF Codes, Unit
  <2> QED
    BY <2>4, <2>5, <2>7 DEF u
<1>6. \A f \in Files : CodedImage(c, image[f]) /\ FoundImage(c, image[f])
  BY <1>1, <1>5 DEF CodedImage, CodedMCU, FoundImage
<1> QED
  BY <1>4, <1>6

\* What is in front of a symbol and of its magnitude.
LEMMA MCUGrows ==
  ASSUME NEW c, NEW im, CodedImage(c, im), NEW k \in DOMAIN im.mcus,
         NEW n \in DOMAIN im.mcus[k]
  PROVE  LET u == im.mcus[k][n]
             w == c[TableOf(u)][u.symbol]
         IN  /\ w \in Seq(Bit) /\ u.bits \in Seq(Bit)
             /\ InMCU(c, im, k, n, "symbol") \in Seq(Bit)
             /\ InMCU(c, im, k, n, "bits") \in Seq(Bit)
             /\ InMCU(c, im, k, n, "bits") = InMCU(c, im, k, n, "symbol") \o w
             /\ InMCU(c, im, k, n + 1, "symbol") = InMCU(c, im, k, n, "bits") \o u.bits
<1> DEFINE m == im.mcus[k]
           u == m[n]
           w == c[TableOf(u)][u.symbol]
           z == Len(m)
           p == PartBits(c, m, n - 1)
<1>1. CodedMCU(c, m) /\ z \in Nat /\ DOMAIN m = 1 .. z
  BY ImagesTyped DEF CodedImage
<1>2. w \in Seq(Bit) /\ u.bits \in Seq(Bit)
  BY <1>1 DEF CodedMCU
<1>3. n \in 1 .. z /\ n - 1 \in 0 .. z - 1 /\ n - 1 \in 0 .. z /\ (n - 1) + 1 = n
      /\ (n + 1) - 1 = n
  <2>1. z \in Nat /\ n \in 1 .. z
    BY <1>1
  <2> HIDE DEF z
  <2> QED
    BY <2>1
<1>4. p \in Seq(Bit) /\ PartBits(c, m, n) = p \o UnitBits(c, u)
  <2> HIDE DEF m, z
  <2> QED
    BY <1>1, <1>3, PartBitsAre
<1>5. UnitBits(c, u) = w \o u.bits
  BY DEF UnitBits
<1>6. /\ InMCU(c, im, k, n, "symbol") = p
      /\ InMCU(c, im, k, n, "bits") = p \o w
      /\ InMCU(c, im, k, n + 1, "symbol") = PartBits(c, m, n)
  BY <1>3 DEF InMCU
<1> DEFINE b == u.bits
<1>7. b \in Seq(Bit) /\ UnitBits(c, u) = w \o b
  BY <1>2, <1>5
<1> HIDE DEF p, w, b
<1>8. (p \o w) \o b = p \o (w \o b) /\ p \o w \in Seq(Bit)
  BY <1>2, <1>4, <1>7, Regrouped, Joined
<1> QED
  BY <1>2, <1>4, <1>6, <1>7, <1>8 DEF w, b

-----------------------------------------------------------------------------
(* The recoder lays out its files.                                         *)

\* What the coder has written of an image is laid out in frames.
LayingInv ==
  /\ part \in {"symbol", "bits"}
  /\ phase \in {"count", "tables"} =>
       /\ file = <<>> /\ coded = <<>> /\ sent = <<>> /\ pending = <<>>
       /\ seen = 0 /\ unit = 1 /\ part = "symbol"
  /\ phase = "tables" => mcu = 1
  /\ phase = "write" =>
       \E F : Laying(code, image[workon], F, Scan(file), sent, coded,
                     mcu, unit, part, toGo, seen)
  /\ phase = "flushed" =>
       /\ unit = 1 /\ part = "symbol"
       /\ \E F : Laid(code, image[workon], Bytes(file), F)

\* The bits that Write_Stream_To_File is given are laid behind those of the frame.
LEMMA LayingWrites ==
  ASSUME Written, NEW c, NEW im, CodedImage(c, im), NEW k \in DOMAIN im.mcus, NEW F,
         NEW n, NEW p, NEW togo, NEW rst,
         Laying(c, im, F, Scan(file), sent, coded, k, n, p, togo, rst),
         NEW w \in Codes, WriteStream(w),
         NEW n2, NEW p2, n2 \in 1 .. Len(im.mcus[k]) + 1,
         InMCU(c, im, k, n, p) \in Seq(Bit),
         InMCU(c, im, k, n2, p2) = InMCU(c, im, k, n, p) \o w
  PROVE  \E G : Laying(c, im, G, Scan(file'), sent', coded', k, n2, p2, togo, rst)
<1>1. /\ file \in Seq(Item) /\ coded \in Seq(Bit) /\ coded' = coded \o w /\ w \in Seq(Bit)
  BY Joined DEF Written, WriteStream, Codes
<1>2. Scan(file) \in Seq(RawItem)
  BY <1>1, BytesAre
<1> DEFINE f == F[Ledger(c, im)[k - 1].turn]
<1>3. AtEnd(f, Scan(file), sent)
  BY DEF Laying
<1> HIDE DEF f
<1>4. /\ \E more \in Seq(RawItem) : Scan(file') = Scan(file) \o more
      /\ \E g : AtEnd(g, Scan(file'), sent') /\ g.pos[0] = f.pos[0]
  BY <1>3, WriteLays
<1>5. PICK more \in Seq(RawItem) : Scan(file') = Scan(file) \o more
  BY <1>4
<1>6. PICK g : AtEnd(g, Scan(file'), sent') /\ g.pos[0] = f.pos[0]
  BY <1>4
<1> DEFINE s == Scan(file)
           t == Scan(file')
<1>7. /\ AtEnd(g, s \o more, sent') /\ t = s \o more /\ s \in Seq(RawItem)
      /\ g.pos[0] = F[Ledger(c, im)[k - 1].turn].pos[0]
      /\ Laying(c, im, F, s, sent, coded, k, n, p, togo, rst)
  BY <1>2, <1>5, <1>6 DEF f
<1> HIDE DEF s, t
<1>8. \E G : Laying(c, im, G, s \o more, sent', coded \o w, k, n2, p2, togo, rst)
  BY <1>1, <1>7, LayingGrows
<1> QED
  BY <1>1, <1>7, <1>8 DEF t

\* What is written of the bits that wait.
LEMMA MarkerWrites ==
  ASSUME Written
  PROVE  /\ \A n \in 0 .. 7 : WriteRst(n) =>
              \E pad : Padding(pending, pad)
                         /\ Scan(file') = WithMarker(Scan(file), pad, Rst(n))
         /\ Flush =>
              \E pad : Padding(pending, pad)
                         /\ Bytes(file') = WithMarker(Scan(file), pad, End)
<1>1. file \in Seq(Item) /\ pending \in Seq(Bit) /\ Len(pending) <= ByteBits
  BY DEF Written
<1>2. Scan(file) \in Seq(RawItem) /\ Pad(pending) \in Byte
  BY <1>1, BytesAre, PadTyped
<1>3. Scan(file) \o <<>> = Scan(file)
  BY <1>2, ConcatEmptySeq
<1>4. ASSUME NEW n \in 0 .. 7, WriteRst(n)
      PROVE  \E pad : Padding(pending, pad)
                        /\ Scan(file') = WithMarker(Scan(file), pad, Rst(n))
  <2>1. CASE pending = <<>>
    <3>1. file' = file \o <<Rst(n)>>
      BY <1>4, <2>1 DEF WriteRst
    <3>2. Scan(file \o <<Rst(n)>>) = Scan(file) \o <<Data(Ones), Rst(n)>>
      BY <1>1, ScanGrows
    <3>3. Scan(file') = WithMarker(Scan(file), <<>>, Rst(n))
      BY <1>3, <3>1, <3>2, Zenon DEF WithMarker
    <3>4. Padding(pending, <<>>)
      BY <2>1 DEF Padding
    <3> QED
      BY <3>3, <3>4
  <2>2. CASE pending # <<>>
    <3> DEFINE b == Pad(pending)
    <3>0. b \in Byte
      BY <1>2
    <3>1. file' = file \o <<Data(b), Rst(n)>>
      BY <1>4, <2>2 DEF WriteRst
    <3>4. Padding(pending, <<Data(b)>>)
      BY <2>2 DEF Padding
    <3> HIDE DEF b
    <3>2. Scan(file \o <<Data(b), Rst(n)>>) =
            (Scan(file) \o <<Data(b)>>) \o <<Data(Ones), Rst(n)>>
      BY <1>1, <3>0, ScanGrows
    <3>3. Scan(file') = WithMarker(Scan(file), <<Data(b)>>, Rst(n))
      BY <3>1, <3>2, Zenon DEF WithMarker
    <3> QED
      BY <3>3, <3>4
  <2> QED
    BY <2>1, <2>2
<1>5. ASSUME Flush
      PROVE  \E pad : Padding(pending, pad)
                        /\ Bytes(file') = WithMarker(Scan(file), pad, End)
  <2>1. CASE pending = <<>>
    <3>1. file' = file
      <4>1. file' = file \o <<>>
        BY <1>5, <2>1 DEF Flush
      <4> QED
        BY <1>1, <4>1, ConcatEmptySeq
    <3>2. Bytes(file) = Scan(file) \o <<Data(Ones), End>>
      BY <1>1, BytesAre
    <3>3. Bytes(file') = WithMarker(Scan(file), <<>>, End)
      BY <1>3, <3>1, <3>2, Zenon DEF WithMarker
    <3>4. Padding(pending, <<>>)
      BY <2>1 DEF Padding
    <3> QED
      BY <3>3, <3>4
  <2>2. CASE pending # <<>>
    <3> DEFINE b == Pad(pending)
    <3>0. b \in Byte
      BY <1>2
    <3>1. file' = file \o Emit(b)
      BY <1>5, <2>2 DEF Flush
    <3>4. Padding(pending, Emit(b))
      BY <2>2 DEF Padding
    <3> HIDE DEF b
    <3>2. Scan(file \o Emit(b)) = Scan(file) \o Emit(b)
      BY <1>1, <3>0, ScanGrows
    <3>3. file \o Emit(b) \in Seq(Item)
      <4>1. Emit(b) \in Seq(Item)
        BY <3>0, EmitRight
      <4> QED
        BY <1>1, <4>1, ConcatProperties
    <3>5. Bytes(file \o Emit(b)) = Scan(file \o Emit(b)) \o <<Data(Ones), End>>
      BY <3>3, BytesAre
    <3>6. Bytes(file') = WithMarker(Scan(file), Emit(b), End)
      BY <3>1, <3>2, <3>5, Zenon DEF WithMarker
    <3> QED
      BY <3>4, <3>6
  <2> QED
    BY <2>1, <2>2
<1> QED
  BY <1>4, <1>5

\* restarts_to_go behind an MCU
LEMMA ToGoNext ==
  ASSUME NEW c, NEW im, CodedImage(c, im), NEW k \in Nat \ {0}
  PROVE  LET togo == Ledger(c, im)[k - 1].toGo
         IN  Ledger(c, im)[k].toGo = IF togo = 1 THEN RestartsToGo(im)
                                     ELSE IF togo > 0 THEN togo - 1 ELSE togo
<1> DEFINE l == Ledger(c, im)
<1>1. l[k] = NextLedger(c, im, l[k - 1], k)
  BY LedgerIs
<1> HIDE DEF l
<1>2. l[k].toGo = IF l[k - 1].toGo = 1 THEN RestartsToGo(im)
                  ELSE IF l[k - 1].toGo > 0 THEN l[k - 1].toGo - 1 ELSE l[k - 1].toGo
  BY <1>1 DEF NextLedger
<1> QED
  BY <1>2 DEF l

\* The coder writes a symbol or its magnitude.
LEMMA UnitLays ==
  ASSUME RecoderTyped, Counted, Written, LayingInv, WriteSymbol \/ WriteBits
  PROVE  LayingInv'
<1> DEFINE im == image[workon]
           u == im.mcus[mcu][unit]
           w == code[TableOf(u)][u.symbol]
<1>1. /\ phase = "write" /\ mcu \in Nat \ {0} /\ unit \in Nat \ {0}
      /\ mcu <= Len(im.mcus) /\ unit <= Len(im.mcus[mcu])
      /\ UNCHANGED <<phase, image, workon, mcu, toGo, seen, code>>
  <2>1. mcu \in Nat \ {0} /\ unit \in Nat \ {0}
    BY DEF RecoderTyped
  <2>2. CASE WriteSymbol
    BY <2>1, <2>2 DEF WriteSymbol, Writing, CurrentMCU
  <2>3. CASE WriteBits
    <3>1. part = "bits"
      BY <2>3 DEF WriteBits
    <3>2. phase = "write" /\ mcu <= Len(im.mcus) /\ unit <= Len(im.mcus[mcu])
      BY <3>1 DEF RecoderTyped
    <3> QED
      BY <2>1, <2>3, <3>2 DEF WriteBits
  <2> QED
    BY <2>2, <2>3
<1>2. CodedImage(code, im) /\ Apart(code) /\ FoundImage(code, im) /\ im \in Images
  <2>1. code = [t \in Tables |-> [s \in Found(t) |-> NewCode(Rank(t, s))]]
    BY <1>1 DEF Counted
  <2>2. workon \in Files
    BY DEF RecoderTyped
  <2>3. phase # "count"
    BY <1>1
  <2>4. CodedImage(code, im) /\ Apart(code) /\ FoundImage(code, im)
    BY <2>1, <2>2, <2>3, NewCodesRight
  <2> QED
    BY <2>4 DEF CodedImage
<1>3. mcu \in DOMAIN im.mcus /\ unit \in DOMAIN im.mcus[mcu]
  BY <1>1, <1>2, ImagesTyped
<1>4. /\ unit \in 1 .. Len(im.mcus[mcu]) + 1 /\ unit + 1 \in 1 .. Len(im.mcus[mcu]) + 1
  <2> DEFINE z == Len(im.mcus[mcu])
  <2>1. z \in Nat /\ unit \in 1 .. z
    BY <1>2, <1>3, ImagesTyped
  <2> HIDE DEF z
  <2>2. unit \in 1 .. z + 1 /\ unit + 1 \in 1 .. z + 1
    BY <2>1
  <2> QED
    BY <2>2 DEF z
<1>5. PICK F : Laying(code, im, F, Scan(file), sent, coded, mcu, unit, part, toGo, seen)
  BY <1>1 DEF LayingInv
<1>6. /\ w \in Codes /\ w \in Seq(Bit) /\ u.bits \in Seq(Bit)
      /\ Len(u.bits) <= MaxBits
      /\ InMCU(code, im, mcu, unit, "symbol") \in Seq(Bit)
      /\ InMCU(code, im, mcu, unit, "bits") \in Seq(Bit)
      /\ InMCU(code, im, mcu, unit, "bits") = InMCU(code, im, mcu, unit, "symbol") \o w
      /\ InMCU(code, im, mcu, unit + 1, "symbol") =
           InMCU(code, im, mcu, unit, "bits") \o u.bits
  <2>1. TableOf(u) \in Tables /\ u.symbol \in DOMAIN code[TableOf(u)]
    BY <1>2, <1>3 DEF FoundImage
  <2>2. w \in Codes
    BY <1>2, <2>1 DEF Apart
  <2>3. Len(u.bits) <= MaxBits
    BY <1>2, <1>3, MagnitudesAssumption
  <2>4. w \in Seq(Bit)
    BY <2>2 DEF Codes
  <2>5. /\ u.bits \in Seq(Bit)
        /\ InMCU(code, im, mcu, unit, "symbol") \in Seq(Bit)
        /\ InMCU(code, im, mcu, unit, "bits") \in Seq(Bit)
        /\ InMCU(code, im, mcu, unit, "bits") = InMCU(code, im, mcu, unit, "symbol") \o w
        /\ InMCU(code, im, mcu, unit + 1, "symbol") =
             InMCU(code, im, mcu, unit, "bits") \o u.bits
    <3> HIDE DEF im
    <3> QED
      BY <1>2, <1>3, MCUGrows
  <2> QED
    BY <2>2, <2>3, <2>4, <2>5
<1>7. \E G : Laying(code, im, G, Scan(file'), sent', coded', mcu, unit', part', toGo, seen)
      /\ part' \in {"symbol", "bits"}
  <2>1. CASE WriteSymbol
    <3>1. /\ part = "symbol" /\ WriteStream(w)
          /\ IF u.bits = <<>> THEN unit' = unit + 1 /\ part' = part
             ELSE unit' = unit /\ part' = "bits"
      BY <2>1 DEF WriteSymbol, CurrentUnit, CurrentMCU
    <3>2. InMCU(code, im, mcu, unit', part') = InMCU(code, im, mcu, unit, part) \o w
      <4>1. CASE u.bits = <<>>
        <5>1. InMCU(code, im, mcu, unit, "bits") \o u.bits = InMCU(code, im, mcu, unit, "bits")
          BY <1>6, <4>1, ConcatEmptySeq
        <5> QED
          BY <1>6, <3>1, <4>1, <5>1
      <4>2. CASE u.bits # <<>>
        BY <1>6, <3>1, <4>2
      <4> QED
        BY <4>1, <4>2
    <3>3. unit' \in 1 .. Len(im.mcus[mcu]) + 1 /\ part' \in {"symbol", "bits"}
      BY <1>4, <3>1
    <3>4. InMCU(code, im, mcu, unit, part) \in Seq(Bit)
      BY <1>6, <3>1
    <3> HIDE DEF w, u, im
    <3>5. \E G : Laying(code, im, G, Scan(file'), sent', coded', mcu, unit', part', toGo, seen)
      BY <1>2, <1>3, <1>5, <1>6, <3>1, <3>2, <3>3, <3>4, LayingWrites
    <3> QED
      BY <3>3, <3>5
  <2>2. CASE WriteBits
    <3>1. /\ part = "bits" /\ WriteStream(Tobin(ValueOf(u.bits)))
          /\ unit' = unit + 1 /\ part' = "symbol"
      BY <2>2 DEF WriteBits, CurrentUnit, CurrentMCU
    <3>2. u.bits # <<>>
      BY <3>1 DEF RecoderTyped
    <3>3. Tobin(ValueOf(u.bits)) = u.bits
      BY <1>6, <3>2, MagnitudeKept
    <3> DEFINE b == u.bits
    <3>4. b \in Codes /\ WriteStream(b)
      BY <1>6, <3>1, <3>3 DEF Codes, MaxBits
    <3>5. InMCU(code, im, mcu, unit', part') = InMCU(code, im, mcu, unit, part) \o b
      BY <1>6, <3>1
    <3>6. /\ InMCU(code, im, mcu, unit, part) \in Seq(Bit)
          /\ unit' \in 1 .. Len(im.mcus[mcu]) + 1
      BY <1>4, <1>6, <3>1
    <3> HIDE DEF b, w, u, im
    <3>7. \E G : Laying(code, im, G, Scan(file'), sent', coded', mcu, unit', part', toGo, seen)
      BY <1>2, <1>3, <1>5, <3>4, <3>5, <3>6, LayingWrites
    <3> QED
      BY <3>1, <3>7
  <2> QED
    BY <2>1, <2>2
<1>8. image'[workon'] = im /\ mcu' = mcu /\ toGo' = toGo /\ seen' = seen /\ code' = code
      /\ phase' = "write"
  BY <1>1
<1> HIDE DEF im
<1> QED
  BY <1>7, <1>8 DEF LayingInv

\* An MCU ends.
LEMMA MCULays ==
  ASSUME RecoderTyped, Counted, Written, LayingInv, EndMCU
  PROVE  LayingInv'
<1> DEFINE im == image[workon]
           l == Ledger(code, im)
<1>1. /\ phase = "write" /\ mcu \in Nat \ {0} /\ unit \in Nat \ {0}
      /\ mcu <= Len(im.mcus) /\ unit > Len(im.mcus[mcu])
      /\ UNCHANGED <<phase, image, workon, part, code>> /\ mcu' = mcu + 1 /\ unit' = 1
  BY DEF RecoderTyped, EndMCU, Writing, CurrentMCU
<1>2. CodedImage(code, im) /\ im \in Images
  <2>1. code = [t \in Tables |-> [s \in Found(t) |-> NewCode(Rank(t, s))]]
    BY <1>1 DEF Counted
  <2>2. workon \in Files /\ phase # "count"
    BY <1>1 DEF RecoderTyped
  <2>3. CodedImage(code, im)
    BY <2>1, <2>2, NewCodesRight
  <2> QED
    BY <2>3 DEF CodedImage
<1>3. /\ mcu \in DOMAIN im.mcus /\ Len(im.mcus[mcu]) \in Nat /\ Len(im.mcus) \in Nat
      /\ DOMAIN im.mcus[mcu] = 1 .. Len(im.mcus[mcu])
  BY <1>1, <1>2, ImagesTyped
<1>4. part = "symbol"
  <2>1. part # "bits"
    BY <1>1, <1>3 DEF RecoderTyped
  <2> QED
    BY <2>1 DEF LayingInv
<1>5. PICK F : Laying(code, im, F, Scan(file), sent, coded, mcu, unit, part, toGo, seen)
  BY <1>1 DEF LayingInv
<1>6. /\ unit = Len(im.mcus[mcu]) + 1 /\ toGo = l[mcu - 1].toGo
      /\ part # "bits"
  <2>1. unit \in 1 .. Len(im.mcus[mcu]) + 1 /\ toGo = l[mcu - 1].toGo
    BY <1>3, <1>5 DEF Laying
  <2>2. unit = Len(im.mcus[mcu]) + 1
    BY <1>1, <1>3, <2>1
  <2> QED
    BY <1>4, <2>1, <2>2
<1>7. l[mcu].toGo = IF toGo = 1 THEN RestartsToGo(im) ELSE IF toGo > 0 THEN toGo - 1 ELSE toGo
  BY <1>1, <1>2, <1>6, ToGoNext
<1>8. toGo' = l[mcu].toGo
  <2>1. CASE Restart
    BY <1>7, <2>1 DEF Restart
  <2>2. CASE NoRestart
    BY <1>7, <2>2 DEF NoRestart
  <2> QED
    BY <2>1, <2>2 DEF EndMCU
<1>9. file \in Seq(Item) /\ coded \in Seq(Bit) /\ Scan(file) \in Seq(RawItem)
      /\ pending \in Seq(Bit) /\ Len(pending) <= ByteBits /\ coded = sent \o pending
  BY Joined, BytesAre DEF Written
<1> HIDE DEF im, l
<1>10. \E G : Laying(code, im, G, Scan(file'), sent', coded', mcu + 1, 1, part, toGo', seen')
  <2>1. CASE toGo = 1 /\ mcu < Len(im.mcus)
    <3>1. Restart
      BY <2>1 DEF EndMCU, NoRestart
    <3>2. WriteRst(seen) /\ seen' = (seen + 1) % 8
      BY <2>1, <3>1 DEF Restart, im
    <3>3. sent' = <<>> /\ coded' = <<>> /\ seen \in 0 .. 7
      BY <3>2 DEF WriteRst, RecoderTyped
    <3>4. PICK pad : Padding(pending, pad)
                       /\ Scan(file') = WithMarker(Scan(file), pad, Rst(seen))
      BY <3>2, <3>3, MarkerWrites
    <3>5. MarkedBehind(im, Ledger(code, im)[mcu - 1], mcu)
      BY <1>6, <2>1 DEF MarkedBehind, l
    <3>6. \E G : Laying(code, im, G, WithMarker(Scan(file), pad, Rst(seen)), <<>>, <<>>,
                        mcu + 1, 1, part, Ledger(code, im)[mcu].toGo, (seen + 1) % 8)
      BY <1>2, <1>3, <1>5, <1>6, <1>9, <3>4, <3>5, LayingMarks
    <3> QED
      BY <1>8, <3>2, <3>3, <3>4, <3>6 DEF l
  <2>2. CASE ~(toGo = 1 /\ mcu < Len(im.mcus))
    <3>1. UNCHANGED <<seen, writerVars>>
      <4>1. CASE Restart
        BY <2>2, <4>1 DEF Restart, im
      <4>2. CASE NoRestart
        BY <4>2 DEF NoRestart
      <4> QED
        BY <4>1, <4>2 DEF EndMCU
    <3>2. file' = file /\ sent' = sent /\ coded' = coded /\ seen' = seen
      BY <3>1 DEF writerVars
    <3>3. ~MarkedBehind(im, Ledger(code, im)[mcu - 1], mcu)
      BY <1>6, <2>2 DEF MarkedBehind, l
    <3>4. Laying(code, im, F, Scan(file), sent, coded, mcu + 1, 1, part,
                 Ledger(code, im)[mcu].toGo, seen)
      BY <1>2, <1>3, <1>5, <1>6, <3>3, LayingTurns
    <3> QED
      BY <1>8, <3>2, <3>4 DEF l
  <2> QED
    BY <2>1, <2>2
<1>11. image'[workon'] = im /\ mcu' = mcu + 1 /\ unit' = 1 /\ part' = part /\ code' = code
       /\ phase' = "write"
  BY <1>1 DEF im
<1> QED
  BY <1>4, <1>10, <1>11 DEF LayingInv

\* The image ends.
LEMMA ImageLays ==
  ASSUME RecoderTyped, Counted, Written, LayingInv, EndImage
  PROVE  LayingInv'
<1> DEFINE im == image[workon]
<1>1. /\ phase = "write" /\ mcu \in Nat \ {0} /\ mcu > Len(im.mcus) /\ Flush
      /\ UNCHANGED <<image, workon, unit, part, code>> /\ phase' = "flushed"
  BY DEF RecoderTyped, EndImage, place
<1>2. CodedImage(code, im) /\ im \in Images
  <2>1. code = [t \in Tables |-> [s \in Found(t) |-> NewCode(Rank(t, s))]]
    BY <1>1 DEF Counted
  <2>2. workon \in Files /\ phase # "count"
    BY <1>1 DEF RecoderTyped
  <2>3. CodedImage(code, im)
    BY <2>1, <2>2, NewCodesRight
  <2> QED
    BY <2>3 DEF CodedImage
<1>3. PICK F : Laying(code, im, F, Scan(file), sent, coded, mcu, unit, part, toGo, seen)
  BY <1>1 DEF LayingInv
<1>4. mcu \notin DOMAIN im.mcus /\ im.mcus # <<>>
  BY <1>1, <1>2, ImagesTyped, UnitsAssumption
<1>5. unit = 1 /\ part = "symbol"
  <2>1. unit = 1 /\ part # "bits"
    BY <1>3, <1>4 DEF Laying
  <2> QED
    BY <2>1 DEF LayingInv
<1>6. file \in Seq(Item) /\ coded \in Seq(Bit) /\ Scan(file) \in Seq(RawItem)
      /\ pending \in Seq(Bit) /\ Len(pending) <= ByteBits /\ coded = sent \o pending
  BY Joined, BytesAre DEF Written
<1>7. PICK pad : Padding(pending, pad) /\ Bytes(file') = WithMarker(Scan(file), pad, End)
  BY <1>1, MarkerWrites
<1>8. \E G : Laid(code, im, WithMarker(Scan(file), pad, End), G)
  <2> HIDE DEF im
  <2> QED
    BY <1>1, <1>2, <1>3, <1>4, <1>6, <1>7, LayingEnds
<1>9. image'[workon'] = im /\ unit' = 1 /\ part' = "symbol" /\ code' = code
      /\ phase' = "flushed"
  BY <1>1, <1>5
<1> HIDE DEF im
<1> QED
  BY <1>7, <1>8, <1>9 DEF LayingInv

\* Every step of the recoder keeps the layout.
LEMMA LayingStep ==
  RecoderInv /\ LayingInv /\ [RecoderNext]_recoderVars => LayingInv'
<1> SUFFICES ASSUME RecoderInv, LayingInv, [RecoderNext]_recoderVars
             PROVE  LayingInv'
  OBVIOUS
<1>0. RecoderTyped /\ Counted /\ Written
  BY DEF RecoderInv
<1>1. CASE CountMCU \/ CountBeyond
  BY <1>1 DEF CountMCU, CountBeyond, writerVars, LayingInv
<1>2. CASE EndCount
  BY <1>2 DEF EndCount, writerVars, LayingInv
<1>3. CASE BuildTables
  <2>1. /\ phase = "tables" /\ phase' = "write"
        /\ code' = [t \in Tables |-> [s \in Found(t) |-> NewCode(Rank(t, s))]]
        /\ toGo' = RestartsToGo(image[workon])
        /\ UNCHANGED <<image, workon, mcu, unit, part, seen, file, coded, sent>>
    BY <1>3 DEF BuildTables, writerVars
  <2>2. /\ file = <<>> /\ coded = <<>> /\ sent = <<>> /\ seen = 0 /\ unit = 1
        /\ part = "symbol" /\ mcu = 1
    BY <2>1 DEF LayingInv
  <2>3. CodedImage(code', image[workon])
    <3>1. workon \in Files /\ phase # "count"
      BY <1>0, <2>1 DEF RecoderTyped
    <3> QED
      BY <1>0, <2>1, <3>1, NewCodesRight
  <2> DEFINE im == image[workon]
             c  == code'
  <2>4. CodedImage(c, im)
    BY <2>3
  <2>5. image'[workon'] = im
    BY <2>1
  <2> HIDE DEF im, c
  <2>6. \E F : Laying(c, im, F, <<>>, <<>>, <<>>, 1, 1, "symbol", RestartsToGo(im), 0)
    BY <2>4, LayingStarts
  <2>7. Scan(file') = <<>>
    BY <2>1, <2>2, ScanAppend
  <2>8. \E F : Laying(code', image'[workon'], F, Scan(file'), sent', coded',
                      mcu', unit', part', toGo', seen')
    BY <2>1, <2>2, <2>5, <2>6, <2>7 DEF c, im
  <2> QED
    BY <2>1, <2>2, <2>8 DEF LayingInv
<1>4. CASE WriteSymbol \/ WriteBits
  BY <1>0, <1>4, UnitLays
<1>5. CASE EndMCU
  BY <1>0, <1>5, MCULays
<1>6. CASE EndImage
  BY <1>0, <1>6, ImageLays
<1>7. CASE NextImage
  <2>1. /\ phase = "flushed" /\ file' = <<>> /\ sent' = <<>> /\ coded' = <<>>
        /\ mcu' = 1 /\ seen' = 0 /\ UNCHANGED <<image, unit, part, code>>
    BY <1>7 DEF NextImage, NewFile
  <2>2. unit = 1 /\ part = "symbol"
    BY <2>1 DEF LayingInv
  <2>3. CASE workon < JPEGFileNum
    <3>1. workon' = workon + 1 /\ toGo' = RestartsToGo(image[workon + 1]) /\ phase' = "write"
      BY <1>7, <2>3 DEF NextImage
    <3>2. workon + 1 \in Files /\ phase # "count"
      BY <1>0, <2>1, <2>3, RecoderAssumption DEF RecoderTyped, Files
    <3>3. code = [t \in Tables |-> [s \in Found(t) |-> NewCode(Rank(t, s))]]
      BY <1>0, <2>1 DEF Counted
    <3> DEFINE im == image[workon + 1]
    <3>4. CodedImage(code, im)
      BY <1>0, <3>2, <3>3, NewCodesRight
    <3>5. image'[workon'] = im
      BY <2>1, <3>1
    <3> HIDE DEF im
    <3>6. \E F : Laying(code, im, F, <<>>, <<>>, <<>>, 1, 1, "symbol", RestartsToGo(im), 0)
      BY <3>4, LayingStarts
    <3>7. Scan(file') = <<>>
      BY <2>1, ScanAppend
    <3>8. \E F : Laying(code', image'[workon'], F, Scan(file'), sent', coded',
                        mcu', unit', part', toGo', seen')
      BY <2>1, <2>2, <3>1, <3>5, <3>6, <3>7 DEF im
    <3> QED
      BY <2>1, <2>2, <3>1, <3>8 DEF LayingInv
  <2>4. CASE ~(workon < JPEGFileNum)
    <3>1. phase' = "done"
      BY <1>7, <2>4 DEF NextImage
    <3> QED
      BY <2>1, <2>2, <3>1 DEF LayingInv
  <2> QED
    BY <2>3, <2>4
<1>8. CASE UNCHANGED recoderVars
  BY <1>8 DEF LayingInv, recoderVars, place, writerVars
<1> QED
  BY <1>1, <1>2, <1>3, <1>4, <1>5, <1>6, <1>7, <1>8 DEF RecoderNext

\* Whatever the images, their codes and restart intervals: the bits of every file the
\* recoder writes lie in one frame for each interval, each closed by its marker, with
\* less than a byte of padding in front of it, numbered modulo 8, the last one by the
\* end (Write_New_Body, Write_RST, src/main.cpp, 2005 to 2264).
THEOREM LayingInvariant == RecoderSpec => []LayingInv
<1>1. RecoderInit => LayingInv
  BY DEF RecoderInit, WriterInit, LayingInv
<1>2. RecoderInv /\ LayingInv /\ [RecoderNext]_recoderVars => LayingInv'
  BY LayingStep
<1> QED
  BY <1>1, <1>2, RecoderInvariant, PTL DEF RecoderSpec

-----------------------------------------------------------------------------
(* What the decoder reads ahead.                                           *)

\* the place of the next byte, and the bits that are read ahead
Readings == [at : Nat \ {0}, bits : Seq(Bit)]

\* One turn of the loop that reads n bits ahead.
Turned(x, n) ==
  IF Len(x.bits) >= n \/ x.at > Len(raw) THEN x
  ELSE [at |-> x.at + (IF StuffedAt(raw, x.at) THEN 2 ELSE 1),
        bits |-> x.bits \o BitsOf(raw[x.at])]

\* A turn gives a place and bits again.
LEMMA TurnedTyped ==
  ASSUME raw \in Seq(RawItem), NEW x \in Readings, NEW n \in Nat
  PROVE  Turned(x, n) \in Readings
<1>1. x.at \in Nat \ {0} /\ x.bits \in Seq(Bit)
  BY DEF Readings
<1>2. CASE Len(x.bits) >= n \/ x.at > Len(raw)
  BY <1>2 DEF Turned
<1>3. CASE ~(Len(x.bits) >= n \/ x.at > Len(raw))
  <2> DEFINE i == x.at
             y == x.bits \o BitsOf(raw[i])
             z == i + (IF StuffedAt(raw, i) THEN 2 ELSE 1)
  <2>1. i \in 1 .. Len(raw)
    BY <1>1, <1>3
  <2>2. raw[i] \in RawItem
    BY <2>1
  <2>3. y \in Seq(Bit)
    BY <1>1, <2>2, BitsTyped, Joined
  <2>4. z \in Nat \ {0}
    BY <1>1
  <2>5. Turned(x, n) = [at |-> z, bits |-> y]
    BY <1>3 DEF Turned
  <2> HIDE DEF y, z
  <2> QED
    BY <2>3, <2>4, <2>5 DEF Readings
<1> QED
  BY <1>2, <1>3

\* Refill takes n turns.
LEMMA RefillRec ==
  ASSUME raw \in Seq(RawItem), NEW r \in Readings, NEW n \in Nat
  PROVE  \E v : /\ v[0] = r /\ \A k \in 1 .. n : v[k] = Turned(v[k - 1], n)
                /\ Refill(r, n) = v[n]
<1> DEFINE step == [x \in Nat \X Readings |-> Turned(x[2], n)]
           v == CHOOSE f : f = [k \in 0 .. n |-> IF k = 0 THEN r ELSE Turned(f[k - 1], n)]
<1>1. step \in Steps(Readings)
  BY TurnedTyped DEF Steps
<1>2. \A k \in Nat, x \in Readings : step[<<k, x>>] = Turned(x, n)
  OBVIOUS
<1> HIDE DEF step
<1>3. PICK g : Recurses(g, Readings, r, step)
  BY <1>1, Recursion
<1> DEFINE f == [k \in 0 .. n |-> g[k]]
<1>4. ASSUME NEW k \in 0 .. n
      PROVE  f[k] = IF k = 0 THEN r ELSE Turned(f[k - 1], n)
  <2>1. CASE k = 0
    BY <1>3, <2>1 DEF Recurses
  <2>2. CASE k # 0
    <3>1. k - 1 \in Nat /\ (k - 1) + 1 = k /\ k - 1 \in 0 .. n
      BY <2>2
    <3>2. g[k - 1] \in Readings /\ g[(k - 1) + 1] = step[<<k - 1, g[k - 1]>>]
      BY <1>3, <3>1 DEF Recurses
    <3>3. g[k] = Turned(g[k - 1], n)
      BY <1>2, <3>1, <3>2
    <3> QED
      BY <2>2, <3>1, <3>3
  <2> QED
    BY <2>1, <2>2
<1>5. f = [k \in 0 .. n |-> IF k = 0 THEN r ELSE Turned(f[k - 1], n)]
  BY <1>4
<1> HIDE DEF f
<1>6. v = [k \in 0 .. n |-> IF k = 0 THEN r ELSE Turned(v[k - 1], n)]
  BY <1>5, Zenon
<1>7. Refill(r, n) = v[n]
  BY Zenon DEF Refill, Turned, StuffedAt
<1> HIDE DEF v
<1>8. v[0] = r
  BY <1>6
<1>9. ASSUME NEW k \in 1 .. n
      PROVE  v[k] = Turned(v[k - 1], n)
  BY <1>6
<1> QED
  BY <1>7, <1>8, <1>9

\* what is read of the frame f: the bits from a on to o
View(f, a, o) == [at |-> f.pos[o], bits |-> SubSeq(f.bits, a + 1, o)]

\* What is read of a frame is a reading of as many bits.
LEMMA ViewIs ==
  ASSUME NEW scan, NEW f, Frame(f, scan), NEW a \in Nat, NEW o \in DOMAIN f.pos, a <= o
  PROVE  /\ View(f, a, o) \in Readings /\ o \in Nat /\ o <= Len(f.bits)
         /\ Len(View(f, a, o).bits) = o - a
<1>1. f.bits \in Seq(Bit) /\ o \in 0 .. Len(f.bits) /\ f.pos[o] \in Nat \ {0}
  BY DEF Frame
<1>2. Len(f.bits) \in Nat
  BY <1>1
<1>3. o \in Nat /\ o <= Len(f.bits)
  BY <1>1, <1>2
<1> DEFINE p == f.pos[o]
           b == SubSeq(f.bits, a + 1, o)
<1>4. b \in Seq(Bit) /\ Len(b) = o - a
  BY <1>1, <1>3, Piece
<1>5. p \in Nat \ {0}
  BY <1>1
<1>6. View(f, a, o) = [at |-> p, bits |-> b]
  BY DEF View
<1> HIDE DEF p, b
<1> QED
  BY <1>3, <1>4, <1>5, <1>6 DEF Readings

\* One turn in a frame.
LEMMA ViewTurns ==
  ASSUME raw \in Seq(RawItem), NEW f, Frame(f, raw), NEW a \in Nat,
         NEW o \in DOMAIN f.pos, a <= o, NEW n \in Nat, a + n <= Len(f.bits),
         o - a < n
  PROVE  /\ o + ByteBits \in DOMAIN f.pos
         /\ Turned(View(f, a, o), n) = View(f, a, o + ByteBits)
<1>1. /\ View(f, a, o) \in Readings /\ o \in Nat /\ o <= Len(f.bits)
      /\ Len(View(f, a, o).bits) = o - a
  BY ViewIs
<1>2. f.bits \in Seq(Bit) /\ Len(f.bits) \in Nat /\ ByteBits \in Nat \ {0}
  BY ByteBitsAssumption DEF Frame
<1>3. o # Len(f.bits)
  BY <1>1, <1>2
<1>4. Loads(f, raw, o)
  BY <1>3 DEF Frame
<1> DEFINE b == f.bits
           p == f.pos[o]
           e == o + ByteBits
<1>5. /\ e \in DOMAIN f.pos /\ p \in 1 .. Len(raw)
      /\ BitsOf(raw[p]) = SubSeq(b, o + 1, e)
      /\ f.pos[e] = p + (IF StuffedAt(raw, p) THEN 2 ELSE 1)
  BY <1>4 DEF Loads
<1>6. e <= Len(b)
  <2>1. e \in 0 .. Len(f.bits) /\ Len(f.bits) \in Nat
    BY <1>2, <1>5 DEF Frame
  <2> HIDE DEF e
  <2> QED
    BY <2>1
<1>7. SubSeq(b, a + 1, o) \o SubSeq(b, o + 1, e) = SubSeq(b, a + 1, e)
  <2>1. b \in Seq(Bit) /\ e \in Nat /\ o <= e
    BY <1>1, <1>2
  <2> HIDE DEF b, e
  <2> QED
    BY <1>1, <1>6, <2>1, PieceJoin
<1>8. View(f, a, o).at = p /\ View(f, a, o).bits = SubSeq(b, a + 1, o)
  BY DEF View
<1>9. ~(Len(View(f, a, o).bits) >= n \/ View(f, a, o).at > Len(raw))
  <2>1. Len(View(f, a, o).bits) < n /\ o - a \in Nat
    BY <1>1
  <2>2. p <= Len(raw) /\ Len(raw) \in Nat /\ p \in Nat
    BY <1>5
  <2> HIDE DEF p
  <2> QED
    BY <1>1, <1>8, <2>1, <2>2
<1>10. Turned(View(f, a, o), n) =
         [at |-> p + (IF StuffedAt(raw, p) THEN 2 ELSE 1),
          bits |-> SubSeq(b, a + 1, o) \o BitsOf(raw[p])]
  <2> HIDE DEF p, b
  <2> QED
    BY <1>8, <1>9 DEF Turned
<1>11. View(f, a, e) = [at |-> f.pos[e], bits |-> SubSeq(b, a + 1, e)]
  BY DEF View
<1> HIDE DEF b, p
<1> QED
  BY <1>5, <1>7, <1>10, <1>11

\* In a frame, what is read ahead is read to the end of some byte of it.
LEMMA RefillIs ==
  ASSUME raw \in Seq(RawItem), NEW f, Frame(f, raw), NEW a \in Nat,
         NEW o \in DOMAIN f.pos, a <= o, NEW n \in Nat, a + n <= Len(f.bits)
  PROVE  \E e \in DOMAIN f.pos :
           o <= e /\ a + n <= e /\ Refill(View(f, a, o), n) = View(f, a, e)
<1> DEFINE Q(k, e) == o <= e /\ a + k <= e
<1>1. View(f, a, o) \in Readings /\ o \in Nat
  BY ViewIs
<1>2. PICK v : /\ v[0] = View(f, a, o) /\ \A k \in 1 .. n : v[k] = Turned(v[k - 1], n)
               /\ Refill(View(f, a, o), n) = v[n]
  BY <1>1, RefillRec
<1> DEFINE T == {k \in Nat : k <= n =>
                   \E e \in DOMAIN f.pos : o <= e /\ a + k <= e /\ v[k] = View(f, a, e)}
<1>3. 0 \in T
  <2>1. o <= o /\ a + 0 <= o
    BY <1>1
  <2> QED
    BY <1>2, <2>1
<1>4. ASSUME NEW k \in Nat, k \in T
      PROVE  k + 1 \in T
  <2> SUFFICES ASSUME k + 1 <= n
               PROVE  \E e \in DOMAIN f.pos :
                        o <= e /\ a + (k + 1) <= e /\ v[k + 1] = View(f, a, e)
    OBVIOUS
  <2>1. PICK e \in DOMAIN f.pos : o <= e /\ a + k <= e /\ v[k] = View(f, a, e)
    BY <1>4
  <2>2. v[k + 1] = Turned(View(f, a, e), n)
    <3>1. k + 1 \in 1 .. n /\ (k + 1) - 1 = k
      OBVIOUS
    <3> QED
      BY <1>2, <2>1, <3>1
  <2>3. e \in Nat
    BY <2>1 DEF Frame
  <2>4. a <= e
    BY <2>1, <2>3
  <2>5. Len(View(f, a, e).bits) = e - a /\ e - a \in Nat
    BY <2>3, <2>4, ViewIs
  <2>6. CASE e - a >= n
    <3>1. v[k + 1] = View(f, a, e)
      BY <2>2, <2>5, <2>6 DEF Turned
    <3>2. a + (k + 1) <= e
      BY <2>3, <2>6
    <3> QED
      BY <2>1, <3>1, <3>2
  <2>7. CASE e - a < n
    <3>1. e + ByteBits \in DOMAIN f.pos /\ Turned(View(f, a, e), n) = View(f, a, e + ByteBits)
      BY <2>4, <2>7, ViewTurns
    <3>2. o <= e + ByteBits /\ a + (k + 1) <= e + ByteBits
      BY <1>1, <2>1, <2>3, ByteBitsAssumption
    <3> QED
      BY <2>2, <3>1, <3>2
  <2> QED
    BY <2>3, <2>6, <2>7
<1>5. n \in T
  <2> HIDE DEF T
  <2>1. Nat \subseteq T
    BY <1>3, <1>4, SetInduction
  <2> QED
    BY <2>1
<1>6. \E e \in DOMAIN f.pos : o <= e /\ a + n <= e /\ v[n] = View(f, a, e)
  BY <1>5
<1> QED
  BY <1>2, <1>6

-----------------------------------------------------------------------------
(* Codes the decoder finds.                                                *)

\* The next n bits of the frame behind a are taken, and the others read up to o are left.
Takes(t, f, a, n, o, value) ==
  /\ t.value = value /\ t.lost = FALSE
  /\ t.bits = SubSeq(f.bits, a + 1, a + n)
  /\ t.rest = View(f, a + n, o)

\* Bits that are read ahead can be taken.
LEMMA TakenIs ==
  ASSUME NEW scan, NEW f, Frame(f, scan), NEW a \in Nat, NEW o \in DOMAIN f.pos,
         NEW n \in Nat, a + n <= o, NEW value
  PROVE  Takes(Taken(View(f, a, o), n, value), f, a, n, o, value)
<1> DEFINE r == View(f, a, o)
           t == Taken(r, n, value)
           b == f.bits
<1>1. o \in Nat /\ o <= Len(b) /\ b \in Seq(Bit)
  <2>1. b \in Seq(Bit) /\ o \in 0 .. Len(b)
    BY DEF Frame
  <2>2. Len(b) \in Nat
    BY <2>1
  <2> HIDE DEF b
  <2> QED
    BY <2>1, <2>2
<1>2. a <= o /\ n \in Nat /\ n <= o - a
  BY <1>1
<1>3. Len(r.bits) = o - a /\ r.bits = SubSeq(b, a + 1, o) /\ r.at = f.pos[o]
  <2>1. Len(r.bits) = o - a
    BY <1>2, ViewIs
  <2> QED
    BY <2>1 DEF View
<1>4. /\ SubSeq(r.bits, 1, n) = SubSeq(b, a + 1, a + n)
      /\ SubSeq(r.bits, n + 1, Len(r.bits)) = SubSeq(b, (a + n) + 1, o)
  <2> HIDE DEF b, r
  <2> QED
    BY <1>1, <1>2, <1>3, PieceOfPiece
<1>5. ~(Len(r.bits) < n)
  BY <1>1, <1>2, <1>3
<1>6. r = [at |-> f.pos[o], bits |-> SubSeq(b, a + 1, o)]
  BY DEF View
<1>7. [r EXCEPT !.bits = SubSeq(r.bits, n + 1, Len(r.bits))] = View(f, a + n, o)
  <2>1. View(f, a + n, o) = [at |-> f.pos[o], bits |-> SubSeq(b, (a + n) + 1, o)]
    BY DEF View
  <2> DEFINE y == SubSeq(r.bits, n + 1, Len(r.bits))
             z == SubSeq(b, (a + n) + 1, o)
             x == SubSeq(b, a + 1, o)
             i == f.pos[o]
  <2>2. y = z /\ r = [at |-> i, bits |-> x] /\ View(f, a + n, o) = [at |-> i, bits |-> z]
    BY <1>4, <1>6, <2>1
  <2> HIDE DEF x, y, z, i, r
  <2>3. [r EXCEPT !.bits = y] = [at |-> i, bits |-> y]
    BY <2>2
  <2>4. [r EXCEPT !.bits = y] = View(f, a + n, o)
    BY <2>2, <2>3
  <2> QED
    BY <2>4 DEF y
<1>8. /\ t.value = value /\ t.lost = (Len(r.bits) < n) /\ t.bits = SubSeq(r.bits, 1, n)
      /\ t.rest = [r EXCEPT !.bits = SubSeq(r.bits, n + 1, Len(r.bits))]
  <2> HIDE DEF r
  <2> QED
    BY DEF Taken
<1>9. t.lost = FALSE
  <2>1. (Len(r.bits) < n) = FALSE
    BY <1>5
  <2> QED
    BY <1>8, <2>1, Zenon
<1> HIDE DEF t, b
<1>10. /\ t.value = value /\ t.lost = FALSE
       /\ t.bits = SubSeq(b, a + 1, a + n)
       /\ t.rest = View(f, a + n, o)
  BY <1>4, <1>7, <1>8, <1>9
<1> QED
  BY <1>10, Zenon DEF t, b, r, Takes

\* the codes of a table of the decoder
Book(book) ==
  \A s \in DOMAIN book :
    /\ book[s] \in Seq(Bit) /\ Len(book[s]) \in 1 .. MaxBits
    /\ \A r \in DOMAIN book \ {s} : ~IsPrefix(book[r], book[s])

\* A code that fits what is read of a frame where the code s is.
LEMMA MatchIs ==
  ASSUME NEW scan, NEW f, Frame(f, scan), NEW a \in Nat, NEW o \in DOMAIN f.pos,
         NEW book, Book(book), NEW s \in DOMAIN book,
         a + Len(book[s]) <= Len(f.bits),
         \A k \in 1 .. Len(book[s]) : f.bits[a + k] = book[s][k],
         NEW n \in 1 .. Len(book[s]), a + n <= o
  PROVE  Matches(book, View(f, a, o), n) = IF n = Len(book[s]) THEN {s} ELSE {}
<1> DEFINE w == book[s]
           b == f.bits
           x == View(f, a, o).bits
<1>1. w \in Seq(Bit) /\ Len(w) \in Nat \ {0} /\ n \in Nat
  BY DEF Book
<1>2. b \in Seq(Bit) /\ Len(b) \in Nat /\ o \in Nat /\ o <= Len(b)
  <2>1. b \in Seq(Bit) /\ o \in 0 .. Len(b)
    BY DEF Frame
  <2>2. Len(b) \in Nat
    BY <2>1
  <2> HIDE DEF b
  <2> QED
    BY <2>1, <2>2
<1>3. a <= o /\ o - a \in Nat /\ n <= o - a
  BY <1>1, <1>2
<1>4. /\ x = SubSeq(b, a + 1, o) /\ x \in Seq(Bit) /\ Len(x) = o - a
      /\ \A k \in 1 .. o - a : x[k] = b[a + k]
  <2>1. x = SubSeq(b, a + 1, o)
    BY DEF View
  <2> HIDE DEF b, x, w
  <2>2. /\ SubSeq(b, a + 1, o) \in Seq(Bit) /\ Len(SubSeq(b, a + 1, o)) = o - a
        /\ \A k \in 1 .. o - a : SubSeq(b, a + 1, o)[k] = b[a + k]
    BY <1>2, <1>3, Piece
  <2> QED
    BY <2>1, <2>2
<1>5. n <= Len(w) /\ \A k \in 1 .. Len(w) : b[a + k] = w[k]
  BY <1>1
<1>6. ASSUME NEW r \in DOMAIN book, Len(book[r]) = n, IsPrefix(book[r], x)
      PROVE  r = s
  <2> SUFFICES ASSUME r # s
               PROVE  FALSE
    OBVIOUS
  <2> DEFINE y == book[r]
  <2>1. y \in Seq(Bit) /\ Len(y) = n /\ ~IsPrefix(y, w)
    BY <1>6 DEF Book
  <2>2. IsPrefix(y, x)
    BY <1>6
  <2> HIDE DEF y, w, x, b
  <2>3. Begins(y, x)
    BY <1>4, <2>1, <2>2, BeginsIs
  <2>4. ASSUME NEW k \in 1 .. n
        PROVE  y[k] = w[k]
    <3>1. k \in 1 .. o - a /\ k \in 1 .. Len(w)
      BY <1>1, <1>2, <1>3, <1>5
    <3>2. y[k] = x[k]
      BY <2>1, <2>3 DEF Begins
    <3> QED
      BY <1>4, <1>5, <3>1, <3>2
  <2>5. Begins(y, w)
    BY <1>5, <2>1, <2>4 DEF Begins
  <2> QED
    BY <1>1, <2>1, <2>5, BeginsIs
<1>7. ASSUME n = Len(w)
      PROVE  IsPrefix(w, x)
  <2> HIDE DEF w, x, b
  <2>1. ASSUME NEW k \in 1 .. Len(w)
        PROVE  w[k] = x[k]
    <3>1. k \in 1 .. o - a
      BY <1>1, <1>2, <1>3, <1>7
    <3> QED
      BY <1>4, <1>5, <3>1
  <2>2. Begins(w, x)
    BY <1>3, <1>4, <1>7, <2>1 DEF Begins
  <2> QED
    BY <1>1, <1>4, <2>2, BeginsIs
<1>8. Matches(book, View(f, a, o), n) = {r \in DOMAIN book : Len(book[r]) = n /\ IsPrefix(book[r], x)}
  BY DEF Matches
<1>9. CASE n = Len(w)
  <2>1. s \in Matches(book, View(f, a, o), n)
    BY <1>7, <1>8, <1>9
  <2> HIDE DEF x
  <2>2. Matches(book, View(f, a, o), n) = {s}
    BY <1>6, <1>8, <2>1
  <2> QED
    BY <1>9, <2>2
<1>10. CASE n # Len(w)
  <2>1. \A r \in DOMAIN book : Len(book[r]) = n /\ IsPrefix(book[r], x) => FALSE
    BY <1>6, <1>10
  <2> HIDE DEF x
  <2>2. Matches(book, View(f, a, o), n) = {}
    BY <1>8, <2>1
  <2> QED
    BY <1>10, <2>2
<1> QED
  BY <1>9, <1>10

\* The symbol s is decoded, whose code w is next in the frame behind a.
Decodes(t, f, a, o, w, s) ==
  /\ t.value = s /\ t.lost = FALSE
  /\ \E e \in DOMAIN f.pos : /\ o <= e /\ a + Len(w) <= e
                             /\ t.rest = View(f, a + Len(w), e)

\* The code that is next in a frame is found.
LEMMA NextCodeIs ==
  ASSUME raw \in Seq(RawItem), NEW f, Frame(f, raw), NEW a \in Nat,
         NEW o \in DOMAIN f.pos, a <= o, NEW book, Book(book), NEW s \in DOMAIN book,
         a + Len(book[s]) <= Len(f.bits), a + LookBits <= Len(f.bits),
         \A k \in 1 .. Len(book[s]) : f.bits[a + k] = book[s][k]
  PROVE  Decodes(NextCode(View(f, a, o), book), f, a, o, book[s], s)
<1> DEFINE r == View(f, a, o)
           z == Len(book[s])
           look(i) == Refill(r, IF i < LookBits THEN LookBits ELSE i)
           fits == {i \in 1 .. MaxBits : Matches(book, look(i), i) # {}}
           m == CHOOSE i \in fits : \A k \in fits : i <= k
           u == CHOOSE x \in Matches(book, look(m), m) : TRUE
<1>1. z \in 1 .. MaxBits /\ MaxBits \in Nat /\ LookBits \in Nat \ {0}
  BY MaxBitsIs, DecoderAssumption, ByteBitsAssumption DEF Book
<1>2. ASSUME NEW i \in 1 .. z
      PROVE  \E e \in DOMAIN f.pos :
               o <= e /\ a + i <= e /\ a + LookBits <= e /\ look(i) = View(f, a, e)
  <2> DEFINE n == IF i < LookBits THEN LookBits ELSE i
  <2>1. n \in Nat /\ i <= n /\ LookBits <= n /\ (n = LookBits \/ n = i)
    BY <1>1
  <2>2. a + z <= Len(f.bits) /\ Len(f.bits) \in Nat
    BY DEF Frame
  <2>3. a + n <= Len(f.bits)
    <3> HIDE DEF z, n
    <3> QED
      BY <1>1, <2>1, <2>2
  <2>4. look(i) = Refill(View(f, a, o), n)
    OBVIOUS
  <2> HIDE DEF n, look
  <2>5. PICK e \in DOMAIN f.pos : o <= e /\ a + n <= e /\ Refill(View(f, a, o), n) = View(f, a, e)
    BY <2>1, <2>3, RefillIs
  <2>6. e \in Nat
    BY <2>5 DEF Frame
  <2>7. a + i <= e /\ a + LookBits <= e
    BY <1>1, <2>1, <2>5, <2>6
  <2> QED
    BY <2>4, <2>5, <2>7
<1>3. ASSUME NEW i \in 1 .. z
      PROVE  Matches(book, look(i), i) = IF i = z THEN {s} ELSE {}
  <2>1. PICK e \in DOMAIN f.pos : a + i <= e /\ look(i) = View(f, a, e)
    BY <1>2
  <2> HIDE DEF look
  <2>2. Matches(book, View(f, a, e), i) = IF i = z THEN {s} ELSE {}
    BY <2>1, MatchIs
  <2> QED
    BY <2>1, <2>2
<1> HIDE DEF look
<1>4. z \in fits
  <2>1. Matches(book, look(z), z) = {s}
    BY <1>1, <1>3
  <2> HIDE DEF z
  <2> QED
    BY <1>1, <2>1
<1>5. ASSUME NEW k \in fits
      PROVE  z <= k
  <2>1. k \in 1 .. MaxBits /\ Matches(book, look(k), k) # {}
    OBVIOUS
  <2>2. ~(k \in 1 .. z /\ k # z)
    BY <1>3, <2>1
  <2> HIDE DEF z
  <2> QED
    BY <1>1, <2>1, <2>2
<1>6. m = z
  <2>1. fits \subseteq Nat
    BY <1>1
  <2> HIDE DEF z, fits
  <2>2. m \in fits /\ \A k \in fits : m <= k
    <3>1. \E i \in fits : \A k \in fits : i <= k
      BY <1>4, <1>5
    <3> QED
      BY <3>1
  <2>3. m <= z /\ z <= m
    BY <1>4, <1>5, <2>2
  <2> HIDE DEF m
  <2> QED
    BY <1>4, <2>1, <2>2, <2>3
<1>7. PICK e \in DOMAIN f.pos : o <= e /\ a + z <= e /\ look(z) = View(f, a, e)
  BY <1>1, <1>2
<1>8. u = s
  <2>0. z \in 1 .. z
    BY <1>1
  <2>1. Matches(book, look(m), m) = {s}
    <3> HIDE DEF z, m
    <3>1. Matches(book, look(z), z) = {s}
      BY <1>3, <2>0
    <3> QED
      BY <1>6, <3>1, Zenon
  <2> HIDE DEF m
  <2> QED
    BY <2>1
<1>9. ~(Len(look(1).bits) < LookBits)
  <2>1. 1 \in 1 .. z
    BY <1>1
  <2>2. PICK d \in DOMAIN f.pos : o <= d /\ a + LookBits <= d /\ look(1) = View(f, a, d)
    BY <1>2, <2>1
  <2>3. d \in Nat /\ o \in Nat
    BY DEF Frame
  <2>4. a <= d
    BY <2>2, <2>3
  <2>5. Len(View(f, a, d).bits) = d - a
    BY <2>4, ViewIs
  <2> HIDE DEF z
  <2> QED
    BY <1>1, <2>2, <2>3, <2>5
<1>10. NextCode(r, book) = Taken(look(m), m, u)
  <2>1. fits # {}
    BY <1>4
  <2>2. NextCode(r, book) =
          IF Len(look(1).bits) < LookBits THEN Taken(look(1), LookBits, 0)
          ELSE IF fits = {} THEN Taken(look(MaxBits), 0, 0)
          ELSE Taken(look(m), m, u)
    BY Zenon DEF NextCode, look
  <2> HIDE DEF fits, m, u
  <2> QED
    BY <1>9, <2>1, <2>2
<1> HIDE DEF m, u, fits
<1>11. NextCode(r, book) = Taken(View(f, a, e), z, s)
  BY <1>6, <1>7, <1>8, <1>10
<1>12. Takes(Taken(View(f, a, e), z, s), f, a, z, e, s)
  <2>1. z \in Nat
    BY <1>1
  <2> HIDE DEF z
  <2> QED
    BY <1>7, <2>1, TakenIs
<1> DEFINE t == NextCode(r, book)
<1>13. t.value = s /\ t.lost = FALSE /\ t.rest = View(f, a + z, e)
  BY <1>11, <1>12, Zenon DEF Takes
<1> HIDE DEF t
<1>14. t.value = s /\ t.lost = FALSE
       /\ \E d \in DOMAIN f.pos : o <= d /\ a + z <= d /\ t.rest = View(f, a + z, d)
  BY <1>7, <1>13
<1> QED
  BY <1>14, Zenon DEF Decodes, t, r, z

-----------------------------------------------------------------------------
(* The places of the symbols of an image.                                  *)

\* Each of the sequences p[0], ..., p[n] begins the next one.
LEMMA ChainBegins ==
  ASSUME NEW D, NEW n \in Nat, NEW p, \A k \in 0 .. n : p[k] \in Seq(D),
         \A k \in 0 .. n - 1 : \E t \in Seq(D) : p[k + 1] = p[k] \o t
  PROVE  \A k \in 0 .. n : Begins(p[k], p[n])
<1> DEFINE T == {d \in Nat : \A k \in 0 .. n : k + d <= n => Begins(p[k], p[k + d])}
<1>1. 0 \in T
  <2> SUFFICES ASSUME NEW k \in 0 .. n
               PROVE  Begins(p[k], p[k + 0])
    OBVIOUS
  <2>1. k + 0 = k /\ p[k] \in Seq(D)
    OBVIOUS
  <2>2. Begins(p[k], p[k])
    BY <2>1, BeginsJoin
  <2> QED
    BY <2>1, <2>2
<1>2. ASSUME NEW d \in Nat, d \in T
      PROVE  d + 1 \in T
  <2> SUFFICES ASSUME NEW k \in 0 .. n, k + (d + 1) <= n
               PROVE  Begins(p[k], p[k + (d + 1)])
    OBVIOUS
  <2> DEFINE e == k + d
  <2>1. e \in 0 .. n - 1 /\ e \in 0 .. n /\ e <= n /\ k + (d + 1) = e + 1
    OBVIOUS
  <2>2. Begins(p[k], p[e])
    BY <1>2, <2>1
  <2> HIDE DEF e
  <2>3. PICK t \in Seq(D) : p[e + 1] = p[e] \o t
    BY <2>1
  <2>4. p[k] \in Seq(D) /\ p[e] \in Seq(D)
    BY <2>1
  <2>5. Begins(p[k], p[e] \o t)
    BY <2>2, <2>4, BeginsJoin
  <2> QED
    BY <2>1, <2>3, <2>5
<1> HIDE DEF T
<1>3. Nat \subseteq T
  BY <1>1, <1>2, SetInduction
<1>4. ASSUME NEW k \in 0 .. n
      PROVE  Begins(p[k], p[n])
  <2>1. n - k \in Nat /\ k + (n - k) = n /\ k + (n - k) <= n
    OBVIOUS
  <2>2. n - k \in T
    BY <1>3, <2>1
  <2>3. Begins(p[k], p[k + (n - k)])
    BY <2>1, <2>2 DEF T
  <2> QED
    BY <2>1, <2>3
<1> QED
  BY <1>4

\* What is read of an image, MCU by MCU, begins it.
LEMMA ReadBegins ==
  ASSUME NEW im \in Images
  PROVE  LET n == Len(im.mcus)
         IN  /\ FlattenTo(im.mcus, 0) = <<>>
             /\ FlattenTo(im.mcus, n) = FlattenSeq(im.mcus)
             /\ \A k \in 0 .. n : /\ FlattenTo(im.mcus, k) \in Seq(Unit)
                                  /\ Begins(FlattenTo(im.mcus, k), FlattenSeq(im.mcus))
             /\ \A k \in 1 .. n :
                  /\ FlattenTo(im.mcus, k) = FlattenTo(im.mcus, k - 1) \o im.mcus[k]
                  /\ im.mcus[k] \in Seq(Unit)
<1> DEFINE s == im.mcus
           n == Len(s)
           p == [k \in 0 .. n |-> FlattenTo(s, k)]
<1>1. s \in Seq(Seq(Unit)) /\ n \in Nat /\ \A k \in 1 .. n : s[k] \in Seq(Unit)
  BY ImagesTyped
<1> HIDE DEF s
<1>2. /\ FlattenTo(s, 0) = <<>> /\ FlattenTo(s, n) = FlattenSeq(s)
      /\ \A k \in 0 .. n : FlattenTo(s, k) \in Seq(Unit)
      /\ \A k \in 0 .. n - 1 : FlattenTo(s, k + 1) = FlattenTo(s, k) \o s[k + 1]
  BY <1>1, FlattenToIs
<1> HIDE DEF n
<1>3. ASSUME NEW k \in 1 .. n
      PROVE  FlattenTo(s, k) = FlattenTo(s, k - 1) \o s[k]
  <2>1. k - 1 \in 0 .. n - 1 /\ (k - 1) + 1 = k
    BY <1>1
  <2> QED
    BY <1>2, <2>1
<1>4. \A k \in 0 .. n : p[k] = FlattenTo(s, k)
  OBVIOUS
<1>5. \A k \in 0 .. n - 1 : k \in 0 .. n /\ k + 1 \in 0 .. n /\ k + 1 \in 1 .. n
  BY <1>1
<1> HIDE DEF p
<1>6. ASSUME NEW k \in 0 .. n - 1
      PROVE  \E t \in Seq(Unit) : p[k + 1] = p[k] \o t
  <2>1. p[k + 1] = p[k] \o s[k + 1] /\ s[k + 1] \in Seq(Unit)
    BY <1>1, <1>2, <1>4, <1>5
  <2> QED
    BY <2>1
<1>7. \A k \in 0 .. n : p[k] \in Seq(Unit)
  BY <1>2, <1>4
<1>8. \A k \in 0 .. n : Begins(p[k], p[n])
  BY <1>1, <1>6, <1>7, ChainBegins
<1>9. n \in 0 .. n
  BY <1>1
<1> QED
  BY <1>1, <1>2, <1>3, <1>4, <1>8, <1>9 DEF s, n

\* the place of the symbol behind the symbol u at place x
NextPlace(x, u) ==
  LET next == Behind(x.j, u.symbol)
  IN  IF next < 64 THEN [x EXCEPT !.j = next]
      ELSE [component |-> x.component + 1, j |-> 0]

\* places of symbols in an MCU
PlaceOf == [component : Nat, j : Nat]

\* The place behind a symbol is one.
LEMMA NextPlaceTyped ==
  ASSUME NEW x \in PlaceOf, NEW u \in Unit
  PROVE  NextPlace(x, u) \in PlaceOf /\ Behind(x.j, u.symbol) \in Nat
<1>1. u.symbol \in Nat /\ x.j \in Nat /\ x.component \in Nat
  BY RecoderAssumption DEF Unit, PlaceOf
<1> DEFINE a == x.j
           b == u.symbol
<1>2. a \in Nat /\ b \in Nat /\ b \div 16 \in Nat
  <2>1. a \in Nat /\ b \in Nat
    BY <1>1
  <2> HIDE DEF a, b
  <2> QED
    BY <2>1
<1> HIDE DEF a, b
<1>3. Behind(a, b) \in Nat
  BY <1>2 DEF Behind
<1>4. Behind(x.j, u.symbol) \in Nat
  BY <1>3 DEF a, b
<1> QED
  BY <1>1, <1>4 DEF NextPlace, PlaceOf

\* The places of the symbols of an MCU follow each other.
LEMMA PlacesAre ==
  ASSUME NEW m \in Seq(Unit)
  PROVE  /\ Places(m)[1] = [component |-> 0, j |-> 0]
         /\ \A i \in 1 .. Len(m) : /\ Places(m)[i] \in PlaceOf
                                   /\ Places(m)[i + 1] = NextPlace(Places(m)[i], m[i])
<1> DEFINE n == Len(m)
           b == [component |-> 0, j |-> 0]
           step == [x \in Nat \X PlaceOf |->
                      IF x[1] \in 1 .. n THEN NextPlace(x[2], m[x[1]]) ELSE b]
           at == CHOOSE f : f = [i \in 1 .. n + 1 |->
                   IF i = 1 THEN [component |-> 0, j |-> 0]
                   ELSE LET next == Behind(f[i - 1].j, m[i - 1].symbol)
                        IN  IF next < 64 THEN [f[i - 1] EXCEPT !.j = next]
                            ELSE [component |-> f[i - 1].component + 1, j |-> 0]]
<1>0. n \in Nat /\ n + 1 \in Nat /\ \A i \in 1 .. n : m[i] \in Unit
  OBVIOUS
<1>1. b \in PlaceOf
  BY DEF PlaceOf
<1> HIDE DEF n, b
<1>2. \A i \in 1 .. n, x \in PlaceOf : NextPlace(x, m[i]) \in PlaceOf
  BY <1>0, NextPlaceTyped
<1>3. step \in Steps(PlaceOf)
  BY <1>1, <1>2 DEF Steps
<1>4. \A i \in 1 .. n, x \in PlaceOf : step[<<i, x>>] = NextPlace(x, m[i])
  BY <1>0
<1> HIDE DEF step
<1>5. PICK f : RecursesTo(f, n + 1, PlaceOf, b, step)
  BY <1>0, <1>1, <1>3, RecursionTo
<1>6. \A i \in 1 .. n + 1 : f[i] \in PlaceOf
  BY <1>5, Zenon DEF RecursesTo
<1>7. f = [i \in 1 .. n + 1 |-> IF i = 1 THEN b ELSE step[<<i - 1, f[i - 1]>>]]
  BY <1>5, Zenon DEF RecursesTo
<1>8. ASSUME NEW i \in 1 .. n + 1
      PROVE  f[i] = IF i = 1 THEN b ELSE NextPlace(f[i - 1], m[i - 1])
  <2>1. f[i] = IF i = 1 THEN b ELSE step[<<i - 1, f[i - 1]>>]
    BY <1>7
  <2>2. CASE i = 1
    BY <2>1, <2>2
  <2>3. CASE i # 1
    <3>1. i - 1 \in 1 .. n /\ i - 1 \in 1 .. n + 1
      BY <1>0, <2>3
    <3>2. f[i - 1] \in PlaceOf
      BY <1>6, <3>1
    <3> QED
      BY <1>4, <2>1, <2>3, <3>1, <3>2
  <2> QED
    BY <2>2, <2>3
<1>9. f = [i \in 1 .. n + 1 |-> IF i = 1 THEN b ELSE NextPlace(f[i - 1], m[i - 1])]
  <2>1. DOMAIN f = 1 .. n + 1 /\ f = [i \in 1 .. n + 1 |-> f[i]]
    BY <1>7
  <2> QED
    BY <1>8, <2>1
<1>10. at = CHOOSE g : g = [i \in 1 .. n + 1 |-> IF i = 1 THEN b ELSE NextPlace(g[i - 1], m[i - 1])]
  BY Zenon DEF NextPlace, b
<1>11. at = [i \in 1 .. n + 1 |-> IF i = 1 THEN b ELSE NextPlace(at[i - 1], m[i - 1])]
  <2> HIDE DEF at
  <2> QED
    BY <1>9, <1>10, Zenon
<1>12. Places(m) = at
  BY Zenon DEF Places, n
<1> HIDE DEF at
<1>13. \A i \in 1 .. n + 1 : at[i] = IF i = 1 THEN b ELSE NextPlace(at[i - 1], m[i - 1])
  BY <1>11
<1>14. at[1] = b
  BY <1>0, <1>13
<1>15. ASSUME NEW i \in 1 .. n
       PROVE  at[i + 1] = NextPlace(at[i], m[i])
  <2>1. i + 1 \in 1 .. n + 1 /\ i + 1 # 1 /\ (i + 1) - 1 = i
    BY <1>0
  <2> QED
    BY <1>13, <2>1
<1> DEFINE T == {i \in Nat : i + 1 <= n => at[i + 1] \in PlaceOf}
<1>16. 0 \in T
  BY <1>1, <1>14
<1>17. ASSUME NEW i \in Nat, i \in T
       PROVE  i + 1 \in T
  <2> SUFFICES ASSUME (i + 1) + 1 <= n
               PROVE  at[(i + 1) + 1] \in PlaceOf
    OBVIOUS
  <2>1. i + 1 \in 1 .. n
    BY <1>0
  <2>2. at[i + 1] \in PlaceOf
    BY <1>0, <1>17
  <2> QED
    BY <1>2, <1>15, <2>1, <2>2
<1> HIDE DEF T
<1>18. Nat \subseteq T
  BY <1>16, <1>17, SetInduction
<1>19. ASSUME NEW i \in 1 .. n
       PROVE  at[i] \in PlaceOf
  <2>1. i - 1 \in Nat /\ (i - 1) + 1 = i /\ (i - 1) + 1 <= n
    BY <1>0
  <2>2. i - 1 \in T
    BY <1>18, <2>1
  <2> QED
    BY <2>1, <2>2 DEF T
<1> QED
  BY <1>12, <1>14, <1>15, <1>19 DEF b, n

\* The decoder is at place x: behind coefficient 63 of a unit is in front of the next one.
Stands(x, comp, jj) ==
  x = IF jj < 64 THEN [component |-> comp, j |-> jj]
      ELSE [component |-> comp + 1, j |-> 0]

\* Symbol i of the MCU m is what the decoder takes it for: of coefficient jj of unit comp.
UnitAt(m, i, comp, jj) ==
  LET u == m[i]
      class == IF jj = 0 THEN "DC" ELSE "AC"
  IN  /\ i \in DOMAIN m
      /\ u = [component |-> comp, class |-> class,
              symbol |-> u.symbol, bits |-> u.bits]
      /\ TableOf(u) = <<class, IF comp = 0 THEN 0 ELSE 1>>
      /\ u.bits \in Seq(Bit)
      /\ Len(u.bits) = IF HasMagnitude(jj, u.symbol) THEN u.symbol % 16 ELSE 0
      /\ Stands(Places(m)[i + 1], comp, Behind(jj, u.symbol))
      /\ Behind(jj, u.symbol) \in Nat

\* Where the decoder stands, it meets the symbol it takes for that place.
LEMMA UnitIs ==
  ASSUME NEW im \in Images, NEW n \in DOMAIN im.mcus, NEW i \in 1 .. Len(im.mcus[n]) + 1,
         NEW comp \in 0 .. 2, NEW jj \in Nat, jj < 64,
         Stands(Places(im.mcus[n])[i], comp, jj)
  PROVE  UnitAt(im.mcus[n], i, comp, jj)
<1> DEFINE m == im.mcus[n]
           u == m[i]
           at == Places(m)
           class == IF jj = 0 THEN "DC" ELSE "AC"
<1>1. /\ m \in Seq(Unit) /\ Len(m) \in Nat /\ DOMAIN m = 1 .. Len(m)
      /\ \A k \in DOMAIN m : m[k] \in Unit
  BY ImagesTyped
<1>2. /\ at[Len(m) + 1] = [component |-> 3, j |-> 0]
      /\ \A k \in DOMAIN m :
           /\ m[k].component = at[k].component
           /\ m[k].class = IF at[k].j = 0 THEN "DC" ELSE "AC"
           /\ m[k].bits # <<>> => HasMagnitude(at[k].j, m[k].symbol)
  BY UnitsAssumption
<1>3. \A k \in DOMAIN m : Len(m[k].bits) = m[k].symbol % 16
  BY MagnitudesAssumption
<1>4. /\ \A k \in 1 .. Len(m) : /\ at[k] \in PlaceOf
                                /\ at[k + 1] = NextPlace(at[k], m[k])
  BY <1>1, PlacesAre
<1> HIDE DEF m, at
<1>5. at[i] = [component |-> comp, j |-> jj]
  BY DEF Stands, m, at
<1>6. at[i].component = comp /\ at[i].j = jj
  BY <1>5
<1>7. i # Len(m) + 1
  BY <1>2, <1>6
<1>8. i \in DOMAIN m /\ i \in 1 .. Len(m)
  BY <1>1, <1>7 DEF m
<1>9. u \in Unit /\ u.component = comp /\ u.class = class
      /\ (u.bits # <<>> => HasMagnitude(jj, u.symbol)) /\ Len(u.bits) = u.symbol % 16
  BY <1>1, <1>2, <1>3, <1>6, <1>8
<1>10. at[i + 1] = NextPlace(at[i], u)
  BY <1>4, <1>8
<1>11. Behind(jj, u.symbol) \in Nat
  BY <1>4, <1>6, <1>8, <1>9, NextPlaceTyped
<1> HIDE DEF u, class
<1>12. u.bits \in Seq(Bit)
  BY <1>9 DEF Unit
<1>13. u = [component |-> comp, class |-> class, symbol |-> u.symbol, bits |-> u.bits]
  BY <1>9 DEF Unit
<1>14. TableOf(u) = <<class, IF comp = 0 THEN 0 ELSE 1>>
  BY <1>9 DEF TableOf
<1>15. Len(u.bits) = IF HasMagnitude(jj, u.symbol) THEN u.symbol % 16 ELSE 0
  <2>1. CASE u.bits = <<>>
    <3>1. Len(u.bits) = 0
      BY <2>1
    <3> QED
      BY <1>9, <3>1
  <2>2. CASE u.bits # <<>>
    BY <1>9, <2>2
  <2> QED
    BY <2>1, <2>2
<1>16. Stands(at[i + 1], comp, Behind(jj, u.symbol))
  <2> DEFINE next == Behind(jj, u.symbol)
  <2>1. NextPlace(at[i], u) =
          IF next < 64 THEN [at[i] EXCEPT !.j = next]
          ELSE [component |-> at[i].component + 1, j |-> 0]
    BY <1>6 DEF NextPlace
  <2> HIDE DEF next
  <2>2. [at[i] EXCEPT !.j = next] = [component |-> comp, j |-> next]
    BY <1>5
  <2>3. at[i + 1] = IF next < 64 THEN [component |-> comp, j |-> next]
                    ELSE [component |-> comp + 1, j |-> 0]
    BY <1>6, <1>10, <2>1, <2>2
  <2> QED
    BY <2>3 DEF Stands, next
<1> QED
  BY <1>8, <1>11, <1>12, <1>13, <1>14, <1>15, <1>16 DEF UnitAt, m, u, at, class

\* The decoder is behind the third unit only behind the last symbol of an MCU.
LEMMA MCUEnds ==
  ASSUME NEW im \in Images, NEW n \in DOMAIN im.mcus, NEW i \in 1 .. Len(im.mcus[n]) + 1,
         NEW jj \in Nat, jj >= 64, Stands(Places(im.mcus[n])[i], 2, jj)
  PROVE  i = Len(im.mcus[n]) + 1
<1> DEFINE m == im.mcus[n]
           at == Places(m)
<1>1. /\ Len(m) \in Nat /\ DOMAIN m = 1 .. Len(m)
      /\ \A k \in DOMAIN m : m[k].component \in 0 .. 2
  <2>1. /\ Len(m) \in Nat /\ DOMAIN m = 1 .. Len(m) /\ \A k \in DOMAIN m : m[k] \in Unit
    BY ImagesTyped
  <2> QED
    BY <2>1 DEF Unit
<1>2. \A k \in DOMAIN m : m[k].component = at[k].component
  BY UnitsAssumption
<1>3. at[i] = [component |-> 3, j |-> 0]
  BY DEF Stands
<1> HIDE DEF at, m
<1>4. at[i].component = 3
  BY <1>3
<1>5. i \notin DOMAIN m
  BY <1>1, <1>2, <1>4
<1> QED
  BY <1>1, <1>5 DEF m

\* The bits of a frame in front of symbol i of MCU n.
InFront(c, im, n, i) ==
  Ledger(c, im)[n - 1].before \o PartBits(c, im.mcus[n], i - 1)

\* d are the bits in front of the end of the MCU.
FrontsRight(c, im, n, m, d) ==
  /\ InFront(c, im, n, 1) = Ledger(c, im)[n - 1].before
  /\ InFront(c, im, n, Len(m) + 1) = d
  /\ \A i \in 1 .. Len(m) + 1 :
       InFront(c, im, n, i) \in Seq(Bit) /\ Begins(InFront(c, im, n, i), d)
  /\ \A i \in DOMAIN m :
       /\ c[TableOf(m[i])][m[i].symbol] \in Seq(Bit) /\ m[i].bits \in Seq(Bit)
       /\ InFront(c, im, n, i + 1) =
            (InFront(c, im, n, i) \o c[TableOf(m[i])][m[i].symbol]) \o m[i].bits

\* They grow by the code and the magnitude of each symbol.
LEMMA InFrontIs ==
  ASSUME NEW c, NEW im, CodedImage(c, im), NEW n \in DOMAIN im.mcus
  PROVE  FrontsRight(c, im, n, im.mcus[n], AfterMCU(c, im, Ledger(c, im)[n - 1], n))
<1> DEFINE m == im.mcus[n]
           z == Len(m)
           a == Ledger(c, im)[n - 1].before
           d == AfterMCU(c, im, Ledger(c, im)[n - 1], n)
           p == [k \in 0 .. z |-> a \o PartBits(c, m, k)]
<1>1. /\ CodedMCU(c, m) /\ z \in Nat /\ DOMAIN m = 1 .. z
      /\ n \in Nat \ {0}
  BY ImagesTyped DEF CodedImage
<1>2. a \in Seq(Bit)
  <2>1. n - 1 \in Nat
    BY <1>1
  <2>2. Ledger(c, im)[n - 1] \in Ledgers
    BY <2>1, LedgerIs
  <2> QED
    BY <2>2 DEF Ledgers
<1>3. d = a \o PartBits(c, m, z)
  BY DEF AfterMCU
<1>4. \A i \in DOMAIN m : c[TableOf(m[i])][m[i].symbol] \in Seq(Bit) /\ m[i].bits \in Seq(Bit)
  BY <1>1 DEF CodedMCU
<1>5. \A i : InFront(c, im, n, i) = a \o PartBits(c, m, i - 1)
  BY DEF InFront
<1> HIDE DEF m, z, a, d
<1>6. /\ \A k \in 0 .. z : PartBits(c, m, k) \in Seq(Bit)
      /\ \A k \in 0 .. z - 1 :
              PartBits(c, m, k + 1) = PartBits(c, m, k) \o UnitBits(c, m[k + 1])
  BY <1>1, PartBitsAre
<1>7. /\ \A k \in 0 .. z : p[k] = a \o PartBits(c, m, k)
      /\ \A k \in 0 .. z - 1 : k \in 0 .. z /\ k + 1 \in 0 .. z /\ k + 1 \in DOMAIN m
  BY <1>1
<1>8. \A k \in 0 .. z : p[k] \in Seq(Bit)
  BY <1>2, <1>6, <1>7, Joined
<1> HIDE DEF p
<1>9. ASSUME NEW k \in 0 .. z - 1
      PROVE  LET u == m[k + 1]
                 w == c[TableOf(u)][u.symbol]
             IN  p[k + 1] = (p[k] \o w) \o u.bits /\ w \o u.bits \in Seq(Bit)
                 /\ p[k + 1] = p[k] \o (w \o u.bits)
  <2> DEFINE u == m[k + 1]
             w == c[TableOf(u)][u.symbol]
             b == u.bits
             q == PartBits(c, m, k)
  <2>1. k \in 0 .. z /\ k + 1 \in 0 .. z /\ k + 1 \in DOMAIN m
    BY <1>7
  <2>2. w \in Seq(Bit) /\ b \in Seq(Bit) /\ q \in Seq(Bit)
    BY <1>4, <1>6, <2>1
  <2>3. p[k] = a \o q /\ p[k + 1] = a \o (q \o (w \o b))
    BY <1>6, <1>7, <2>1 DEF UnitBits
  <2> HIDE DEF w, b, q
  <2>4. w \o b \in Seq(Bit) /\ a \o q \in Seq(Bit)
    BY <1>2, <2>2, Joined
  <2>5. (a \o q) \o (w \o b) = a \o (q \o (w \o b))
    BY <1>2, <2>2, <2>4, Regrouped
  <2>6. ((a \o q) \o w) \o b = (a \o q) \o (w \o b)
    BY <2>2, <2>4, Regrouped
  <2>7. p[k + 1] = (p[k] \o w) \o b /\ p[k + 1] = p[k] \o (w \o b)
    BY <2>3, <2>5, <2>6
  <2> QED
    BY <2>4, <2>7 DEF w, b
<1>10. ASSUME NEW k \in 0 .. z - 1
       PROVE  \E t \in Seq(Bit) : p[k + 1] = p[k] \o t
  BY <1>9
<1>11. \A k \in 0 .. z : Begins(p[k], p[z])
  BY <1>1, <1>8, <1>10, ChainBegins
<1>12. ASSUME NEW i \in 1 .. z + 1
       PROVE  InFront(c, im, n, i) = p[i - 1] /\ i - 1 \in 0 .. z
  <2>1. i - 1 \in 0 .. z
    BY <1>1
  <2> QED
    BY <1>5, <1>7, <2>1
<1>13. p[z] = d /\ 1 \in 1 .. z + 1 /\ z + 1 \in 1 .. z + 1 /\ (z + 1) - 1 = z /\ 1 - 1 = 0
       /\ 0 \in 0 .. z /\ z \in 0 .. z
  <2>1. /\ 1 \in 1 .. z + 1 /\ z + 1 \in 1 .. z + 1 /\ (z + 1) - 1 = z /\ 1 - 1 = 0
        /\ 0 \in 0 .. z /\ z \in 0 .. z
    BY <1>1
  <2> QED
    BY <1>3, <1>7, <2>1
<1>14. InFront(c, im, n, 1) = a
  <2>1. PartBits(c, m, 0) = <<>>
    BY NoPartBits
  <2>2. a \o <<>> = a
    BY <1>2, ConcatEmptySeq
  <2> QED
    BY <1>5, <1>13, <2>1, <2>2
<1>15. InFront(c, im, n, z + 1) = d
  BY <1>12, <1>13
<1>16. ASSUME NEW i \in 1 .. z + 1
       PROVE  InFront(c, im, n, i) \in Seq(Bit) /\ Begins(InFront(c, im, n, i), d)
  BY <1>8, <1>11, <1>12, <1>13
<1>17. ASSUME NEW i \in DOMAIN m
       PROVE  InFront(c, im, n, i + 1) =
                (InFront(c, im, n, i) \o c[TableOf(m[i])][m[i].symbol]) \o m[i].bits
  <2>1. /\ i - 1 \in 0 .. z - 1 /\ (i - 1) + 1 = i /\ i \in 1 .. z + 1
        /\ i + 1 \in 1 .. z + 1 /\ (i + 1) - 1 = i
    BY <1>1
  <2>2. InFront(c, im, n, i) = p[i - 1] /\ InFront(c, im, n, i + 1) = p[i]
    BY <1>12, <2>1
  <2>3. p[(i - 1) + 1] = (p[i - 1] \o c[TableOf(m[(i - 1) + 1])][m[(i - 1) + 1].symbol])
                            \o m[(i - 1) + 1].bits
    BY <1>9, <2>1
  <2> QED
    BY <2>1, <2>2, <2>3
<1> QED
  BY <1>4, <1>14, <1>15, <1>16, <1>17 DEF FrontsRight, m, z, a, d

-----------------------------------------------------------------------------
(* The decoder in a frame.                                                 *)

\* What begins a beginning begins the whole.
LEMMA BeginsOn ==
  ASSUME NEW D, NEW r \in Seq(D), NEW s \in Seq(D), NEW t \in Seq(D),
         Begins(r, s), Begins(s, t)
  PROVE  Begins(r, t)
<1>1. Len(r) \in Nat /\ Len(s) \in Nat /\ Len(t) \in Nat
  OBVIOUS
<1>2. Len(r) <= Len(s) /\ \A k \in 1 .. Len(r) : r[k] = s[k]
  BY DEF Begins
<1>3. Len(s) <= Len(t) /\ \A k \in 1 .. Len(s) : s[k] = t[k]
  BY DEF Begins
<1>4. ASSUME NEW k \in 1 .. Len(r)
      PROVE  r[k] = t[k]
  <2>1. k \in 1 .. Len(s)
    BY <1>1, <1>2
  <2> QED
    BY <1>2, <1>3, <2>1
<1>5. Len(r) <= Len(t)
  BY <1>1, <1>2, <1>3
<1> QED
  BY <1>4, <1>5 DEF Begins

\* A code and a magnitude that are next in a frame.
Holds(f, C, w, b) ==
  /\ Len((C \o w) \o b) = (Len(C) + Len(w)) + Len(b)
  /\ (Len(C) + Len(w)) + Len(b) <= Whole(f)
  /\ \A k \in 1 .. Len(w) : f.bits[Len(C) + k] = w[k]
  /\ SubSeq(f.bits, (Len(C) + Len(w)) + 1, (Len(C) + Len(w)) + Len(b)) = b

\* What is in front of the end of the bits d is next in a frame that begins with d.
LEMMA FrameHolds ==
  ASSUME NEW scan, NEW f, ClosedAtMarker(f, scan), NEW C \in Seq(Bit), NEW w \in Seq(Bit),
         NEW b \in Seq(Bit), NEW d \in Seq(Bit), Begins((C \o w) \o b, d),
         Begins(d, f.bits), Len(d) <= Whole(f)
  PROVE  Holds(f, C, w, b)
<1> DEFINE x == f.bits
           y == C \o w
<1>1. x \in Seq(Bit) /\ Len(x) \in Nat /\ Whole(f) \in Nat
  BY WholeIs
<1>2. y \in Seq(Bit) /\ Len(y) = Len(C) + Len(w)
  BY Joined
<1>3. y \o b \in Seq(Bit) /\ Len(y \o b) = Len(y) + Len(b)
  <2> HIDE DEF y
  <2> QED
    BY <1>2, Joined
<1>4. Len(C) \in Nat /\ Len(w) \in Nat /\ Len(b) \in Nat /\ Len(d) \in Nat
  OBVIOUS
<1>5. Len(y \o b) <= Len(d) /\ Begins(y \o b, x)
  <2>1. Begins(y \o b, d) /\ Begins(d, x)
    OBVIOUS
  <2> HIDE DEF x, y
  <2>2. Begins(y \o b, x)
    BY <1>1, <1>3, <2>1, BeginsOn
  <2> QED
    BY <2>1, <2>2 DEF Begins
<1> HIDE DEF x
<1>6. /\ Len(y) + Len(b) <= Len(x) /\ Begins(y, x)
      /\ \A k \in 1 .. Len(b) : x[Len(y) + k] = b[k]
  <2> HIDE DEF y
  <2> QED
    BY <1>1, <1>2, <1>5, BeginsBehind
<1>7. \A k \in 1 .. Len(w) : x[Len(C) + k] = w[k]
  BY <1>1, <1>6, BeginsBehind
<1> HIDE DEF y
<1>8. SubSeq(x, Len(y) + 1, Len(y) + Len(b)) = b
  <2>1. Len(y) \in Nat
    BY <1>2
  <2> QED
    BY <1>1, <1>6, <2>1, PieceIs
<1>9. Len(y) + Len(b) <= Whole(f)
  <2>1. Len(y) \in Nat
    BY <1>2
  <2> QED
    BY <1>1, <1>3, <1>4, <1>5, <2>1
<1> QED
  BY <1>2, <1>3, <1>7, <1>8, <1>9 DEF Holds, x, y

\* Symbol i of MCU n is next: what the decoder has read of the frame, and got.
Within(c, im, F, n, i, comp, jj, st, res, go, ex, gt) ==
  LET s == Ledger(c, im)[n - 1]
      f == F[s.turn]
      m == im.mcus[n]
      a == Len(InFront(c, im, n, i))
  IN  /\ n \in DOMAIN im.mcus /\ i \in 1 .. Len(m) + 1
      /\ comp \in 0 .. 2 /\ jj \in Nat /\ Stands(Places(m)[i], comp, jj)
      /\ \E o \in DOMAIN f.pos : a <= o /\ [at |-> st, bits |-> res] = View(f, a, o)
      /\ go = s.toGo /\ ex = s.turn % 8
      /\ gt = FlattenTo(im.mcus, n - 1) \o SubSeq(m, 1, i - 1)

\* The frame an MCU is in.
LEMMA FrameOf ==
  ASSUME NEW c, NEW im, CodedImage(c, im), NEW scan, NEW F, Laid(c, im, scan, F),
         NEW n \in DOMAIN im.mcus
  PROVE  LET s == Ledger(c, im)[n - 1]
             f == F[s.turn]
             d == AfterMCU(c, im, s, n)
         IN  /\ s \in Ledgers /\ d \in Seq(Bit)
             /\ ClosedAtMarker(f, scan) /\ Frame(f, scan) /\ Begins(d, f.bits) /\ Len(d) <= Whole(f)
             /\ n \in Nat \ {0} /\ n <= Len(im.mcus)
<1>1. /\ n \in Nat \ {0} /\ n <= Len(im.mcus) /\ n \in 1 .. Len(im.mcus)
  BY ImagesTyped DEF CodedImage
<1>2. n - 1 \in Nat
  BY <1>1
<1> DEFINE s == Ledger(c, im)[n - 1]
<1>3. s \in Ledgers
  BY <1>2, LedgerIs
<1>4. Closed(c, im, scan, F, n)
  BY <1>1 DEF Laid
<1> HIDE DEF s
<1>5. AfterMCU(c, im, s, n) \in Seq(Bit)
  BY <1>1, <1>3, LedgerTyped
<1>6. /\ ClosedAtMarker(F[s.turn], scan) /\ Begins(AfterMCU(c, im, s, n), F[s.turn].bits)
      /\ Len(AfterMCU(c, im, s, n)) <= Whole(F[s.turn])
  BY <1>4 DEF Closed, s
<1>7. Frame(F[s.turn], scan)
  BY <1>6 DEF ClosedAtMarker
<1> QED
  BY <1>1, <1>3, <1>5, <1>6, <1>7 DEF s

\* What the decoder makes of a symbol and its magnitude.
Turn(c, comp, jj, st, res) ==
  LET class == IF jj = 0 THEN "DC" ELSE "AC"
      t == NextCode([at |-> st, bits |-> res], c[<<class, IF comp = 0 THEN 0 ELSE 1>>])
      k == IF HasMagnitude(jj, t.value) THEN t.value % 16 ELSE 0
      q == Taken(Refill(t.rest, k), k, t.value)
  IN  [lost |-> t.lost \/ q.lost, rest |-> q.rest, value |-> t.value, bits |-> q.bits,
       unit |-> [component |-> comp, class |-> class,
                 symbol |-> t.value, bits |-> q.bits]]

\* That is symbol i of MCU n, and what is read is behind it.
Turns(c, im, F, n, i, t) ==
  LET u == im.mcus[n][i]
      f == F[Ledger(c, im)[n - 1].turn]
      a == Len(InFront(c, im, n, i + 1))
  IN  /\ t.lost = FALSE /\ t.value = u.symbol /\ t.unit = u
      /\ \E o \in DOMAIN f.pos : a <= o /\ t.rest = View(f, a, o)

\* The decoder gets the symbol that is next, and the magnitude behind it.
LEMMA TurnIs ==
  ASSUME raw \in Seq(RawItem), NEW c, NEW im, CodedImage(c, im), Apart(c),
         FoundImage(c, im), NEW F, Laid(c, im, raw, F),
         NEW n, NEW i, NEW comp, NEW jj, NEW st, NEW res, NEW go, NEW ex, NEW gt,
         Within(c, im, F, n, i, comp, jj, st, res, go, ex, gt), jj < 64
  PROVE  Turns(c, im, F, n, i, Turn(c, comp, jj, st, res))
<1> DEFINE m == im.mcus[n]
           u == m[i]
           f == F[Ledger(c, im)[n - 1].turn]
           C == InFront(c, im, n, i)
           d == AfterMCU(c, im, Ledger(c, im)[n - 1], n)
           class == IF jj = 0 THEN "DC" ELSE "AC"
           table == <<class, IF comp = 0 THEN 0 ELSE 1>>
           book == c[table]
           w == book[u.symbol]
           b == u.bits
           a == Len(C)
           x == [at |-> st, bits |-> res]
           t == NextCode(x, book)
           k == IF HasMagnitude(jj, t.value) THEN t.value % 16 ELSE 0
           q == Taken(Refill(t.rest, k), k, t.value)
<1>1. /\ n \in DOMAIN im.mcus /\ i \in 1 .. Len(m) + 1
      /\ comp \in 0 .. 2 /\ jj \in Nat /\ Stands(Places(m)[i], comp, jj)
      /\ \E o \in DOMAIN f.pos : a <= o /\ x = View(f, a, o)
  BY DEF Within
<1>2. PICK o \in DOMAIN f.pos : a <= o /\ x = View(f, a, o)
  BY <1>1
<1>3. im \in Images
  BY DEF CodedImage
<1>4. /\ i \in DOMAIN m
      /\ u = [component |-> comp, class |-> class, symbol |-> u.symbol, bits |-> u.bits]
      /\ TableOf(u) = table /\ b \in Seq(Bit)
      /\ Len(b) = IF HasMagnitude(jj, u.symbol) THEN u.symbol % 16 ELSE 0
  <2>1. UnitAt(m, i, comp, jj)
    BY <1>1, <1>3, UnitIs
  <2> QED
    BY <2>1 DEF UnitAt
<1>5. /\ d \in Seq(Bit) /\ ClosedAtMarker(f, raw) /\ Frame(f, raw)
      /\ Begins(d, f.bits) /\ Len(d) <= Whole(f)
  BY <1>1, FrameOf
<1>6. /\ table \in Tables /\ u.symbol \in DOMAIN book
  BY <1>1, <1>4 DEF FoundImage
<1>7. Book(book)
  <2> HIDE DEF table
  <2> QED
    BY <1>6 DEF Apart, Book, Codes
<1>8. /\ C \in Seq(Bit) /\ w \in Seq(Bit)
      /\ InFront(c, im, n, i + 1) = (C \o w) \o b
      /\ Begins((C \o w) \o b, d)
  <2>1. /\ \A e \in 1 .. Len(m) + 1 :
             InFront(c, im, n, e) \in Seq(Bit) /\ Begins(InFront(c, im, n, e), d)
        /\ \A e \in DOMAIN m :
             /\ c[TableOf(m[e])][m[e].symbol] \in Seq(Bit)
             /\ InFront(c, im, n, e + 1) =
                  (InFront(c, im, n, e) \o c[TableOf(m[e])][m[e].symbol]) \o m[e].bits
    <3>1. FrontsRight(c, im, n, m, d)
      BY <1>1, InFrontIs
    <3> HIDE DEF m, d
    <3> QED
      BY <3>1 DEF FrontsRight
  <2>2. i + 1 \in 1 .. Len(m) + 1
    <3>1. Len(m) \in Nat /\ DOMAIN m = 1 .. Len(m)
      BY <1>1, <1>3, ImagesTyped
    <3> HIDE DEF m
    <3> QED
      BY <1>4, <3>1
  <2>3. c[TableOf(u)][u.symbol] = w
    BY <1>4
  <2> HIDE DEF w, C, d, m
  <2>4. C \in Seq(Bit) /\ InFront(c, im, n, i + 1) = (C \o w) \o b
    BY <1>1, <1>4, <2>1, <2>3 DEF C
  <2>5. w \in Seq(Bit) /\ Begins(InFront(c, im, n, i + 1), d)
    BY <1>4, <2>1, <2>2, <2>3
  <2> QED
    BY <2>4, <2>5
<1> HIDE DEF m, u, C, d, b, f
<1>9. /\ Len((C \o w) \o b) = (a + Len(w)) + Len(b)
      /\ (a + Len(w)) + Len(b) <= Whole(f)
      /\ \A e \in 1 .. Len(w) : f.bits[a + e] = w[e]
      /\ SubSeq(f.bits, (a + Len(w)) + 1, (a + Len(w)) + Len(b)) = b
  <2> HIDE DEF w
  <2>1. Holds(f, C, w, b)
    BY <1>4, <1>5, <1>8, FrameHolds
  <2> QED
    BY <2>1 DEF Holds
<1>10. /\ a \in Nat /\ Len(w) \in Nat /\ Len(b) \in Nat /\ Whole(f) \in Nat
       /\ Len(f.bits) \in Nat /\ Len(f.bits) = Whole(f) + MaxBits
       /\ LookBits \in Nat /\ LookBits <= MaxBits /\ MaxBits \in Nat
  <2>1. /\ Len(f.bits) \in Nat /\ Whole(f) \in Nat
        /\ Len(f.bits) = Whole(f) + 2 * ByteBits
    BY <1>5, WholeIs
  <2>2. LookBits \in Nat /\ LookBits <= MaxBits /\ MaxBits \in Nat
    BY MaxBitsIs, DecoderAssumption, ByteBitsAssumption
  <2>3. a \in Nat /\ Len(w) \in Nat /\ Len(b) \in Nat
    <3> HIDE DEF w
    <3> QED
      BY <1>4, <1>8
  <2> QED
    BY <2>1, <2>2, <2>3 DEF MaxBits
<1> DEFINE y == Len(w)
           z == Len(b)
           h == Len(f.bits)
<1>11. a + y <= h /\ a + LookBits <= h /\ (a + y) + z <= h
  <2>1. (a + y) + z <= Whole(f)
    BY <1>9
  <2> HIDE DEF a, y, z, h
  <2> QED
    BY <1>10, <2>1 DEF y, z, h
<1>12. /\ t.value = u.symbol /\ t.lost = FALSE
       /\ \E e \in DOMAIN f.pos : o <= e /\ a + y <= e /\ t.rest = View(f, a + y, e)
  <2> HIDE DEF book, x, a
  <2>1. Decodes(NextCode(View(f, a, o), book), f, a, o, book[u.symbol], u.symbol)
    BY <1>2, <1>5, <1>6, <1>7, <1>9, <1>10, <1>11, NextCodeIs DEF a
  <2>2. Decodes(t, f, a, o, w, u.symbol)
    BY <1>2, <2>1
  <2> QED
    BY <2>2 DEF Decodes
<1>13. PICK e \in DOMAIN f.pos : a + y <= e /\ t.rest = View(f, a + y, e)
  BY <1>12
<1> HIDE DEF t, a, w
<1>14. k = z
  BY <1>4, <1>12
<1> HIDE DEF z, y, k
<1>15. a + y \in Nat /\ z \in Nat
  BY <1>10 DEF y, z
<1>16. PICK g \in DOMAIN f.pos :
         (a + y) + z <= g /\ Refill(View(f, a + y, e), z) = View(f, a + y, g)
  BY <1>5, <1>11, <1>13, <1>15, RefillIs DEF h
<1>17. q = Taken(View(f, a + y, g), z, t.value)
  BY <1>13, <1>14, <1>16
<1>18. Takes(q, f, a + y, z, g, t.value)
  BY <1>5, <1>15, <1>16, <1>17, TakenIs
<1>19. /\ q.lost = FALSE /\ q.bits = b /\ q.rest = View(f, (a + y) + z, g)
  BY <1>9, <1>18, Zenon DEF Takes, y, z, a
<1> DEFINE T == Turn(c, comp, jj, st, res)
<1>20. T = [lost |-> t.lost \/ q.lost, rest |-> q.rest, value |-> t.value, bits |-> q.bits,
            unit |-> [component |-> comp, class |-> class,
                      symbol |-> t.value, bits |-> q.bits]]
  BY Zenon DEF Turn, t, k
<1> HIDE DEF q, T, class
<1>21. T.rest = q.rest /\ T.value = t.value /\ T.lost = (t.lost \/ q.lost)
       /\ T.unit = [component |-> comp, class |-> class, symbol |-> t.value, bits |-> q.bits]
  BY <1>20
<1>22. T.lost = FALSE
  <2>1. (t.lost \/ q.lost) = FALSE
    BY <1>12, <1>19
  <2> QED
    BY <1>21, <2>1, Zenon
<1>23. T.unit = u
  BY <1>4, <1>12, <1>19, <1>21 DEF b, class
<1>24. Len(InFront(c, im, n, i + 1)) = (a + y) + z
  BY <1>8, <1>9 DEF y, z, a
<1>25. \E v \in DOMAIN f.pos :
          /\ Len(InFront(c, im, n, i + 1)) <= v
          /\ T.rest = View(f, Len(InFront(c, im, n, i + 1)), v)
  BY <1>16, <1>19, <1>21, <1>24
<1> QED
  BY <1>12, <1>21, <1>22, <1>23, <1>25 DEF Turns, T, f, u, m

\* In front of the first symbol of a frame.
LEMMA WithinFresh ==
  ASSUME NEW c, NEW im, CodedImage(c, im), NEW scan, NEW F, Laid(c, im, scan, F),
         NEW n \in DOMAIN im.mcus, Ledger(c, im)[n - 1].before = <<>>,
         NEW st, NEW go, NEW ex, NEW gt,
         st = F[Ledger(c, im)[n - 1].turn].pos[0], go = Ledger(c, im)[n - 1].toGo,
         ex = Ledger(c, im)[n - 1].turn % 8, gt = FlattenTo(im.mcus, n - 1)
  PROVE  Within(c, im, F, n, 1, 0, 0, st, <<>>, go, ex, gt)
<1> DEFINE s == Ledger(c, im)[n - 1]
           f == F[s.turn]
           m == im.mcus[n]
           C == InFront(c, im, n, 1)
<1>1. /\ n \in Nat \ {0} /\ n \in 1 .. Len(im.mcus) /\ m \in Seq(Unit) /\ Len(m) \in Nat
      /\ im \in Images /\ gt \in Seq(Unit)
  <2>1. im \in Images
    BY DEF CodedImage
  <2>2. /\ n \in Nat \ {0} /\ n \in 1 .. Len(im.mcus) /\ m \in Seq(Unit) /\ Len(m) \in Nat
    BY <2>1, ImagesTyped
  <2>3. n - 1 \in 0 .. Len(im.mcus)
    BY <2>2
  <2> QED
    BY <2>1, <2>2, <2>3, ReadBegins
<1>2. Frame(f, scan)
  BY FrameOf
<1>3. C = <<>>
  <2>1. FrontsRight(c, im, n, m, AfterMCU(c, im, s, n))
    BY InFrontIs
  <2> QED
    BY <2>1 DEF FrontsRight
<1>4. Places(m)[1] = [component |-> 0, j |-> 0]
  BY <1>1, PlacesAre
<1>5. 1 \in 1 .. Len(m) + 1 /\ 0 \in 0 .. 2 /\ 0 \in Nat
  BY <1>1
<1> HIDE DEF C, f, m
<1>6. Stands(Places(m)[1], 0, 0)
  BY <1>4 DEF Stands
<1>7. \E o \in DOMAIN f.pos : Len(C) <= o /\ [at |-> st, bits |-> <<>>] = View(f, Len(C), o)
  <2>1. 0 \in DOMAIN f.pos /\ f.bits \in Seq(Bit) /\ Len(C) = 0
    BY <1>2, <1>3 DEF Frame
  <2>2. SubSeq(f.bits, 0 + 1, 0) = <<>>
    BY <2>1
  <2>3. View(f, 0, 0) = [at |-> f.pos[0], bits |-> <<>>]
    BY <2>2 DEF View
  <2>4. [at |-> st, bits |-> <<>>] = View(f, Len(C), 0) /\ Len(C) <= 0
    BY <2>1, <2>3 DEF f
  <2> QED
    BY <2>1, <2>4
<1>8. gt = FlattenTo(im.mcus, n - 1) \o SubSeq(m, 1, 1 - 1)
  <2>1. SubSeq(m, 1, 1 - 1) = <<>>
    BY <1>1 DEF m
  <2>2. gt \o <<>> = gt
    BY <1>1, ConcatEmptySeq
  <2> QED
    BY <2>1, <2>2
<1> QED
  BY <1>5, <1>6, <1>7, <1>8, Zenon DEF Within, C, f, m, s

\* A symbol and its magnitude are read.
LEMMA WithinReads ==
  ASSUME raw \in Seq(RawItem), NEW c, NEW im, CodedImage(c, im), Apart(c),
         FoundImage(c, im), NEW F, Laid(c, im, raw, F),
         NEW n, NEW i, NEW comp, NEW jj, NEW st, NEW res, NEW go, NEW ex, NEW gt,
         Within(c, im, F, n, i, comp, jj, st, res, go, ex, gt), jj < 64
  PROVE  LET t == Turn(c, comp, jj, st, res)
         IN  /\ t.lost = FALSE
             /\ Within(c, im, F, n, i + 1, comp, Behind(jj, t.value), t.rest.at, t.rest.bits,
                       go, ex, Append(gt, t.unit))
<1> DEFINE s == Ledger(c, im)[n - 1]
           f == F[s.turn]
           m == im.mcus[n]
           u == m[i]
           a == Len(InFront(c, im, n, i + 1))
           t == Turn(c, comp, jj, st, res)
           fl == FlattenTo(im.mcus, n - 1)
<1>1. /\ n \in DOMAIN im.mcus /\ i \in 1 .. Len(m) + 1
      /\ comp \in 0 .. 2 /\ jj \in Nat /\ Stands(Places(m)[i], comp, jj)
      /\ go = s.toGo /\ ex = s.turn % 8
      /\ gt = fl \o SubSeq(m, 1, i - 1)
  BY DEF Within
<1>2. /\ t.lost = FALSE /\ t.value = u.symbol /\ t.unit = u
      /\ \E o \in DOMAIN f.pos : a <= o /\ t.rest = View(f, a, o)
  <2>1. Turns(c, im, F, n, i, Turn(c, comp, jj, st, res))
    BY TurnIs
  <2> QED
    BY <2>1 DEF Turns
<1>3. im \in Images
  BY DEF CodedImage
<1>4. /\ i \in DOMAIN m /\ Stands(Places(m)[i + 1], comp, Behind(jj, u.symbol))
      /\ Behind(jj, u.symbol) \in Nat
  <2>1. UnitAt(m, i, comp, jj)
    BY <1>1, <1>3, UnitIs
  <2> QED
    BY <2>1 DEF UnitAt
<1>5. /\ m \in Seq(Unit) /\ Len(m) \in Nat /\ DOMAIN m = 1 .. Len(m) /\ fl \in Seq(Unit)
  <2>1. n - 1 \in 0 .. Len(im.mcus)
    <3>1. n \in 1 .. Len(im.mcus) /\ Len(im.mcus) \in Nat
      BY <1>1, <1>3, ImagesTyped
    <3> QED
      BY <3>1
  <2> QED
    BY <1>1, <1>3, <2>1, ImagesTyped, ReadBegins
<1> HIDE DEF m, f, t, fl, a, u
<1>6. i + 1 \in 1 .. Len(m) + 1 /\ i - 1 \in Nat /\ i \in Nat /\ i <= Len(m)
      /\ (i + 1) - 1 = i /\ (i - 1) + 1 = i
  BY <1>4, <1>5
<1>7. Append(gt, u) = fl \o SubSeq(m, 1, (i + 1) - 1)
  <2> DEFINE p == SubSeq(m, 1, i - 1)
  <2>1. SubSeq(m, 1, i) = Append(p, m[i])
    BY <1>5, <1>6
  <2>2. p \in Seq(Unit) /\ m[i] \in Unit
    BY <1>4, <1>5, <1>6
  <2> HIDE DEF p
  <2>3. Append(fl \o p, m[i]) = fl \o Append(p, m[i])
    <3>1. <<m[i]>> \in Seq(Unit) /\ Append(p, m[i]) = p \o <<m[i]>>
      BY <2>2
    <3>2. Append(fl \o p, m[i]) = (fl \o p) \o <<m[i]>>
      BY <1>5, <2>2
    <3>3. (fl \o p) \o <<m[i]>> = fl \o (p \o <<m[i]>>)
      BY <1>5, <2>2, <3>1, ConcatAssociative
    <3> QED
      BY <3>1, <3>2, <3>3
  <2> QED
    BY <1>1, <1>6, <2>1, <2>3 DEF u, p
<1>8. \E o \in DOMAIN f.pos : a <= o /\ [at |-> t.rest.at, bits |-> t.rest.bits] = View(f, a, o)
  <2>1. PICK o \in DOMAIN f.pos : a <= o /\ t.rest = View(f, a, o)
    BY <1>2
  <2>2. [at |-> t.rest.at, bits |-> t.rest.bits] = View(f, a, o)
    BY <2>1 DEF View
  <2> QED
    BY <2>1, <2>2
<1>9. Within(c, im, F, n, i + 1, comp, Behind(jj, u.symbol), t.rest.at, t.rest.bits,
             go, ex, Append(gt, u))
  BY <1>1, <1>4, <1>6, <1>7, <1>8, Zenon DEF Within, a, f, m, fl
<1> QED
  BY <1>2, <1>9 DEF t

\* A data unit is read.
LEMMA WithinUnit ==
  ASSUME NEW c, NEW im, NEW F, NEW n, NEW i, NEW comp, NEW jj, NEW st, NEW res, NEW go,
         NEW ex, NEW gt, Within(c, im, F, n, i, comp, jj, st, res, go, ex, gt),
         jj >= 64, comp < 2
  PROVE  Within(c, im, F, n, i, comp + 1, 0, st, res, go, ex, gt)
<1> DEFINE at == Places(im.mcus[n])[i]
<1>1. comp \in 0 .. 2 /\ jj \in Nat /\ Stands(at, comp, jj)
  BY DEF Within
<1>2. comp + 1 \in 0 .. 2 /\ 0 \in Nat /\ ~(jj < 64)
  BY <1>1
<1> HIDE DEF at
<1>3. Stands(at, comp + 1, 0)
  BY <1>1, <1>2 DEF Stands
<1> QED
  BY <1>2, <1>3, Zenon DEF Within, at

-----------------------------------------------------------------------------
(* The decoder behind an MCU.                                              *)

\* All of MCU n is read.
ReadThrough(c, im, F, n, st, res, go, ex, gt) ==
  LET s == Ledger(c, im)[n - 1]
      f == F[s.turn]
      a == Len(AfterMCU(c, im, s, n))
  IN  /\ n \in DOMAIN im.mcus
      /\ \E o \in DOMAIN f.pos : a <= o /\ [at |-> st, bits |-> res] = View(f, a, o)
      /\ go = s.toGo /\ ex = s.turn % 8
      /\ gt = FlattenTo(im.mcus, n)

\* Behind the third data unit, all of the MCU is read.
LEMMA WithinEnds ==
  ASSUME NEW c, NEW im, CodedImage(c, im), NEW F,
         NEW n, NEW i, NEW jj, NEW st, NEW res, NEW go, NEW ex, NEW gt,
         Within(c, im, F, n, i, 2, jj, st, res, go, ex, gt), jj >= 64
  PROVE  ReadThrough(c, im, F, n, st, res, go, ex, gt)
<1> DEFINE s == Ledger(c, im)[n - 1]
           f == F[s.turn]
           m == im.mcus[n]
           d == AfterMCU(c, im, s, n)
           a == Len(InFront(c, im, n, i))
           fl == FlattenTo(im.mcus, n - 1)
<1>1. /\ n \in DOMAIN im.mcus /\ i \in 1 .. Len(m) + 1
      /\ jj \in Nat /\ Stands(Places(m)[i], 2, jj)
      /\ \E o \in DOMAIN f.pos : a <= o /\ [at |-> st, bits |-> res] = View(f, a, o)
      /\ go = s.toGo /\ ex = s.turn % 8
      /\ gt = fl \o SubSeq(m, 1, i - 1)
  BY DEF Within
<1>2. im \in Images
  BY DEF CodedImage
<1>3. i = Len(m) + 1
  BY <1>1, <1>2, MCUEnds
<1>4. a = Len(d)
  <2>1. FrontsRight(c, im, n, m, d)
    BY <1>1, InFrontIs
  <2> HIDE DEF m, d
  <2> QED
    BY <1>3, <2>1 DEF FrontsRight
<1>5. /\ m \in Seq(Unit) /\ Len(m) \in Nat /\ n \in 1 .. Len(im.mcus)
      /\ FlattenTo(im.mcus, n) = fl \o m
  <2>1. m \in Seq(Unit) /\ Len(m) \in Nat /\ n \in 1 .. Len(im.mcus)
    BY <1>1, <1>2, ImagesTyped
  <2>2. \A k \in 1 .. Len(im.mcus) :
           FlattenTo(im.mcus, k) = FlattenTo(im.mcus, k - 1) \o im.mcus[k]
    BY <1>2, ReadBegins
  <2> QED
    BY <2>1, <2>2
<1> HIDE DEF m, d, f, fl, a
<1>6. SubSeq(m, 1, i - 1) = m
  <2>1. i - 1 = Len(m)
    BY <1>3, <1>5
  <2>2. SubSeq(m, 1, Len(m)) = m
    BY <1>5
  <2> QED
    BY <2>1, <2>2
<1>7. gt = FlattenTo(im.mcus, n)
  BY <1>1, <1>5, <1>6
<1>8. \E o \in DOMAIN f.pos : Len(d) <= o /\ [at |-> st, bits |-> res] = View(f, Len(d), o)
  BY <1>1, <1>4
<1> QED
  BY <1>1, <1>7, <1>8, Zenon DEF ReadThrough, d, f, s

\* What the coder knows behind an MCU.
LEMMA LedgerGoesOn ==
  ASSUME NEW c, NEW im, CodedImage(c, im), NEW n \in Nat \ {0}
  PROVE  LET s == Ledger(c, im)[n - 1]
             l == Ledger(c, im)[n]
         IN  IF MarkedBehind(im, s, n)
             THEN l.turn = s.turn + 1 /\ l.before = <<>>
             ELSE l.turn = s.turn /\ l.before = AfterMCU(c, im, s, n)
<1>1. Ledger(c, im)[n] = NextLedger(c, im, Ledger(c, im)[n - 1], n)
  BY LedgerIs
<1> QED
  BY <1>1 DEF NextLedger

\* The next MCU is in the same frame.
LEMMA BehindTurns ==
  ASSUME NEW c, NEW im, CodedImage(c, im), NEW F, NEW n, NEW st, NEW res, NEW go,
         NEW ex, NEW gt, ReadThrough(c, im, F, n, st, res, go, ex, gt),
         n + 1 \in DOMAIN im.mcus, go # 1
  PROVE  Within(c, im, F, n + 1, 1, 0, 0, st, res, IF go > 0 THEN go - 1 ELSE go, ex, gt)
<1> DEFINE s == Ledger(c, im)[n - 1]
           l == Ledger(c, im)[n]
           f == F[s.turn]
           d == AfterMCU(c, im, s, n)
           m == im.mcus[n + 1]
           C == InFront(c, im, n + 1, 1)
<1>1. /\ n \in DOMAIN im.mcus
      /\ \E o \in DOMAIN f.pos : Len(d) <= o /\ [at |-> st, bits |-> res] = View(f, Len(d), o)
      /\ go = s.toGo /\ ex = s.turn % 8
      /\ gt = FlattenTo(im.mcus, n)
  BY DEF ReadThrough
<1>2. im \in Images
  BY DEF CodedImage
<1>3. /\ n \in Nat \ {0} /\ n \in 0 .. Len(im.mcus) /\ (n + 1) - 1 = n
      /\ m \in Seq(Unit) /\ Len(m) \in Nat
  <2>1. n \in 1 .. Len(im.mcus) /\ Len(im.mcus) \in Nat
    BY <1>1, <1>2, ImagesTyped
  <2>2. m \in Seq(Unit) /\ Len(m) \in Nat
    BY <1>2, ImagesTyped
  <2> QED
    BY <2>1, <2>2
<1>4. l.turn = s.turn /\ l.before = d
  <2>1. ~MarkedBehind(im, s, n)
    BY <1>1 DEF MarkedBehind
  <2> QED
    BY <1>3, <2>1, LedgerGoesOn
<1>5. l.toGo = IF go > 0 THEN go - 1 ELSE go
  BY <1>1, <1>3, ToGoNext
<1>6. C = l.before
  <2>1. FrontsRight(c, im, n + 1, m, AfterMCU(c, im, Ledger(c, im)[(n + 1) - 1], n + 1))
    BY InFrontIs
  <2> QED
    BY <1>3, <2>1 DEF FrontsRight
<1>7. gt \in Seq(Unit)
  BY <1>1, <1>2, <1>3, ReadBegins
<1>8. Places(m)[1] = [component |-> 0, j |-> 0]
  BY <1>3, PlacesAre
<1> HIDE DEF C, d, m
<1>9. gt = FlattenTo(im.mcus, (n + 1) - 1) \o SubSeq(m, 1, 1 - 1)
  <2>1. SubSeq(m, 1, 1 - 1) = <<>>
    BY <1>3
  <2>2. gt \o <<>> = gt
    BY <1>7, ConcatEmptySeq
  <2> QED
    BY <1>1, <1>3, <2>1, <2>2
<1>10. Stands(Places(m)[1], 0, 0) /\ 1 \in 1 .. Len(m) + 1 /\ 0 \in 0 .. 2 /\ 0 \in Nat
  BY <1>3, <1>8 DEF Stands
<1>11. \E o \in DOMAIN F[l.turn].pos :
          Len(C) <= o /\ [at |-> st, bits |-> res] = View(F[l.turn], Len(C), o)
  BY <1>1, <1>4, <1>6
<1>12. l = Ledger(c, im)[(n + 1) - 1]
  BY <1>3
<1>13. (IF go > 0 THEN go - 1 ELSE go) = l.toGo /\ ex = l.turn % 8
  BY <1>1, <1>4, <1>5
<1> HIDE DEF l
<1> QED
  BY <1>9, <1>10, <1>11, <1>12, <1>13, Zenon DEF Within, m, C

\* The place of the marker, when what is read ahead is given back.
LEMMA GivesBack ==
  ASSUME NEW scan, NEW f, ClosedAtMarker(f, scan), NEW a \in Nat, a <= Whole(f),
         a > Whole(f) - ByteBits, NEW o \in DOMAIN f.pos, a <= o,
         NEW st, NEW res, [at |-> st, bits |-> res] = View(f, a, o)
  PROVE  st - Len(res) \div ByteBits = f.pos[Whole(f)]
<1> DEFINE w == Whole(f)
           b == ByteBits
           z == Len(f.bits)
<1>1. w \in Nat /\ b \in Nat \ {0} /\ z = w + 2 * b /\ z \in Nat
  BY WholeIs
<1>2. /\ Frame(f, scan) /\ w \in DOMAIN f.pos
      /\ f.pos[w + b] = f.pos[w] + 1 /\ f.pos[z] = f.pos[w] + 2
      /\ o <= w - b \/ o = w \/ o = w + b \/ o = z
  BY DEF ClosedAtMarker
<1>3. o \in Nat /\ Len(View(f, a, o).bits) = o - a
  BY <1>2, ViewIs
<1>4. st = f.pos[o] /\ res = View(f, a, o).bits
  BY DEF View
<1>5. f.pos[w] \in Nat
  BY <1>2 DEF Frame
<1> DEFINE q == w - a
<1> HIDE DEF w, b, z
<1>6. q \in 0 .. b - 1 /\ (o = w \/ o = w + b \/ o = w + 2 * b)
  BY <1>1, <1>2, <1>3 DEF w, b
<1>7. q \div b = 0 /\ (q + b) \div b = 1 /\ (q + 2 * b) \div b = 2
  <2> HIDE DEF q
  <2> QED
    BY <1>1, <1>6
<1>8. Len(res) = o - a
  BY <1>3, <1>4
<1>9. CASE o = w
  <2>1. Len(res) = q
    BY <1>8, <1>9
  <2> HIDE DEF q
  <2> QED
    BY <1>4, <1>5, <1>7, <1>9, <2>1 DEF w, b
<1>10. CASE o = w + b
  <2>1. Len(res) = q + b
    BY <1>1, <1>3, <1>8, <1>10
  <2> HIDE DEF q
  <2> QED
    BY <1>2, <1>4, <1>5, <1>7, <1>10, <2>1 DEF w, b
<1>11. CASE o = w + 2 * b
  <2>1. Len(res) = q + 2 * b
    BY <1>1, <1>3, <1>8, <1>11
  <2> HIDE DEF q
  <2> QED
    BY <1>1, <1>2, <1>4, <1>5, <1>7, <1>11, <2>1 DEF w, b, z
<1> QED
  BY <1>6, <1>9, <1>10, <1>11

\* Behind the bits of an MCU with a marker behind it, what is read ahead is given back.
LEMMA AtMarker ==
  ASSUME NEW c, NEW im, CodedImage(c, im), NEW F, NEW scan, Laid(c, im, scan, F),
         NEW n, NEW st, NEW res, NEW go, NEW ex, NEW gt,
         ReadThrough(c, im, F, n, st, res, go, ex, gt), go = 1 \/ n = Len(im.mcus)
  PROVE  LET f == F[Ledger(c, im)[n - 1].turn]
             from == f.pos[Whole(f)]
         IN  /\ st - Len(res) \div ByteBits = from
             /\ from \in 1 .. Len(scan) - 1 /\ scan[from] = Data(Ones)
             /\ f.pos[0] <= st /\ f.pos[0] <= from
             /\ IF n = Len(im.mcus) THEN scan[from + 1] = End
                ELSE scan[from + 1] = Rst(ex)
<1> DEFINE s == Ledger(c, im)[n - 1]
           f == F[s.turn]
           d == AfterMCU(c, im, s, n)
           N == Len(im.mcus)
           from == f.pos[Whole(f)]
<1>1. /\ n \in DOMAIN im.mcus
      /\ \E o \in DOMAIN f.pos : Len(d) <= o /\ [at |-> st, bits |-> res] = View(f, Len(d), o)
      /\ go = s.toGo /\ ex = s.turn % 8
  BY DEF ReadThrough
<1>2. im \in Images
  BY DEF CodedImage
<1>3. /\ n \in 1 .. N /\ N \in Nat /\ n \in Nat \ {0} /\ n - 1 \in Nat
  BY <1>1, <1>2, ImagesTyped
<1>4. Closed(c, im, scan, F, n)
  BY <1>3 DEF Laid
<1>5. ClosedAtMarker(f, scan) /\ Len(d) <= Whole(f)
  BY <1>4 DEF Closed
<1>6. d \in Seq(Bit)
  <2>1. s \in Ledgers
    BY <1>3, LedgerIs
  <2> HIDE DEF s
  <2> QED
    BY <1>3, <2>1, LedgerTyped
<1>7. CASE n = N
  <2>1. Len(d) > Whole(f) - ByteBits /\ scan[from + 1] = End
    BY <1>7 DEF Laid
  <2> HIDE DEF d, f
  <2> QED
    <3>1. PICK o \in DOMAIN f.pos : Len(d) <= o /\ [at |-> st, bits |-> res] = View(f, Len(d), o)
      BY <1>1
    <3>2. Len(d) \in Nat
      BY <1>6
    <3>3. st - Len(res) \div ByteBits = f.pos[Whole(f)]
      BY <1>5, <2>1, <3>1, <3>2, GivesBack
    <3>4. /\ from \in 1 .. Len(scan) - 1 /\ scan[from] = Data(Ones) /\ Frame(f, scan)
          /\ Whole(f) \in DOMAIN f.pos
      BY <1>5 DEF ClosedAtMarker
    <3>5. f.pos[0] <= f.pos[o] /\ f.pos[0] <= from
      BY <3>4 DEF Frame
    <3>6. st = f.pos[o]
      BY <3>1 DEF View
    <3> QED
      BY <1>7, <2>1, <3>3, <3>4, <3>5, <3>6 DEF f, s
<1>8. CASE n # N
  <2>1. MarkedBehind(im, s, n)
    BY <1>1, <1>3, <1>8 DEF MarkedBehind
  <2>2. Len(d) > Whole(f) - ByteBits /\ scan[from + 1] = Rst(ex)
    BY <1>1, <1>4, <2>1 DEF Closed
  <2> HIDE DEF d, f
  <2> QED
    <3>1. PICK o \in DOMAIN f.pos : Len(d) <= o /\ [at |-> st, bits |-> res] = View(f, Len(d), o)
      BY <1>1
    <3>2. Len(d) \in Nat
      BY <1>6
    <3>3. st - Len(res) \div ByteBits = f.pos[Whole(f)]
      BY <1>5, <2>2, <3>1, <3>2, GivesBack
    <3>4. /\ from \in 1 .. Len(scan) - 1 /\ scan[from] = Data(Ones) /\ Frame(f, scan)
          /\ Whole(f) \in DOMAIN f.pos
      BY <1>5 DEF ClosedAtMarker
    <3>5. f.pos[0] <= f.pos[o] /\ f.pos[0] <= from
      BY <3>4 DEF Frame
    <3>6. st = f.pos[o]
      BY <3>1 DEF View
    <3> QED
      BY <1>8, <2>2, <3>3, <3>4, <3>5, <3>6 DEF f, s
<1> QED
  BY <1>7, <1>8

\* The next MCU is behind the marker.
LEMMA BehindMarker ==
  ASSUME NEW c, NEW im, CodedImage(c, im), NEW F, Laid(c, im, raw, F),
         NEW n, NEW st, NEW res, NEW go, NEW ex, NEW gt,
         ReadThrough(c, im, F, n, st, res, go, ex, gt), go = 1, n + 1 \in DOMAIN im.mcus
  PROVE  Within(c, im, F, n + 1, 1, 0, 0, (st - Len(res) \div ByteBits) + 2, <<>>,
                RestartsToGo(im), (ex + 1) % 8, gt)
<1> DEFINE s == Ledger(c, im)[n - 1]
           l == Ledger(c, im)[n]
           f == F[s.turn]
           d == AfterMCU(c, im, s, n)
           N == Len(im.mcus)
           from == f.pos[Whole(f)]
<1>1. /\ n \in DOMAIN im.mcus /\ go = s.toGo /\ ex = s.turn % 8
      /\ gt = FlattenTo(im.mcus, n)
  BY DEF ReadThrough
<1>2. im \in Images
  BY DEF CodedImage
<1>3. n \in 1 .. N /\ N \in Nat /\ n \in Nat \ {0} /\ n < N /\ (n + 1) - 1 = n
  <2>1. n \in 1 .. N /\ N \in Nat /\ n + 1 \in 1 .. N
    BY <1>1, <1>2, ImagesTyped
  <2> QED
    BY <2>1
<1>4. MarkedBehind(im, s, n)
  BY <1>1, <1>3 DEF MarkedBehind
<1>5. l.turn = s.turn + 1 /\ l.before = <<>>
  BY <1>3, <1>4, LedgerGoesOn
<1>6. l.toGo = RestartsToGo(im)
  BY <1>1, <1>3, ToGoNext
<1>7. s.turn \in Nat
  <2>1. n - 1 \in Nat
    BY <1>3
  <2>2. s \in Ledgers
    BY <2>1, LedgerIs
  <2> HIDE DEF s
  <2> QED
    BY <2>2 DEF Ledgers
<1>8. F[s.turn + 1].pos[0] = from + 2
  <2>1. Closed(c, im, raw, F, n)
    BY <1>3 DEF Laid
  <2> QED
    BY <1>4, <2>1 DEF Closed
<1>9. st - Len(res) \div ByteBits = from
  BY AtMarker
<1> HIDE DEF s, from
<1>10. (ex + 1) % 8 = l.turn % 8
  <2>1. l.turn = s.turn + 1
    BY <1>5
  <2> QED
    BY <1>1, <1>7, <2>1, MarksWrap
<1>11. F[l.turn].pos[0] = (st - Len(res) \div ByteBits) + 2
  BY <1>5, <1>8, <1>9
<1>12. l = Ledger(c, im)[(n + 1) - 1] /\ gt = FlattenTo(im.mcus, (n + 1) - 1)
  BY <1>1, <1>3
<1> HIDE DEF l
<1> QED
  BY <1>5, <1>6, <1>10, <1>11, <1>12, WithinFresh

\* The image ends.
LEMMA ReadAll ==
  ASSUME NEW c, NEW im, CodedImage(c, im), NEW F, Laid(c, im, raw, F),
         NEW n, NEW st, NEW res, NEW go, NEW ex, NEW gt,
         ReadThrough(c, im, F, n, st, res, go, ex, gt), n = Len(im.mcus)
  PROVE  /\ gt = FlattenSeq(im.mcus)
         /\ NoMarks(raw, st) /\ NoMarks(raw, st - Len(res) \div ByteBits)
<1> DEFINE f == F[Ledger(c, im)[n - 1].turn]
           from == f.pos[Whole(f)]
<1>1. gt = FlattenTo(im.mcus, n)
  BY DEF ReadThrough
<1>2. im \in Images
  BY DEF CodedImage
<1>3. gt = FlattenSeq(im.mcus)
  BY <1>1, <1>2, ReadBegins
<1>4. st - Len(res) \div ByteBits = from /\ f.pos[0] <= st /\ f.pos[0] <= from
  BY AtMarker
<1>5. NoMarks(raw, f.pos[0])
  BY DEF Laid
<1>6. f.pos[0] \in Nat /\ from \in Nat /\ st \in Nat
  <2>1. n \in DOMAIN im.mcus
        /\ \E o \in DOMAIN f.pos :
             [at |-> st, bits |-> res] = View(f, Len(AfterMCU(c, im, Ledger(c, im)[n - 1], n)), o)
    BY DEF ReadThrough
  <2>2. ClosedAtMarker(f, raw) /\ Frame(f, raw)
    BY <2>1, FrameOf
  <2> HIDE DEF f
  <2>3. \A o \in DOMAIN f.pos : f.pos[o] \in Nat
    BY <2>2 DEF Frame
  <2>4. 0 \in DOMAIN f.pos /\ Whole(f) \in DOMAIN f.pos
    BY <2>2 DEF Frame, ClosedAtMarker
  <2> QED
    BY <2>1, <2>3, <2>4 DEF View
<1> HIDE DEF f, from
<1>7. \A x \in Nat : f.pos[0] <= x => NoMarks(raw, x)
  BY <1>5, <1>6 DEF NoMarks
<1> QED
  BY <1>3, <1>4, <1>6, <1>7

-----------------------------------------------------------------------------
(* The decoder keeps its place.                                            *)

\* The decoder is in an image, of which it has read some MCUs.
Midway(c, im, scan, n, comp, jj, st, res, go, ex, gt) ==
  \E F : /\ Laid(c, im, scan, F)
         /\ \E i : Within(c, im, F, n + 1, i, comp, jj, st, res, go, ex, gt)

\* The decoder has read all of an image.
Through(im, scan, st, gt) == gt = FlattenSeq(im.mcus) /\ NoMarks(scan, st)

\* The decoder of a file is always at a symbol of it, with the bits in front of that
\* read and some bytes behind it read ahead; or through all of the image.
DecoderInv ==
  /\ reading \in {"no", "unit", "done"}
  /\ reading = "no" =>
       /\ stream = 1 /\ reservoir = <<>> /\ component = 0 /\ j = 0 /\ turns = 0
       /\ expects = 0 /\ got = <<>>
  /\ reading # "no" => raw \in Seq(RawItem)
  /\ reading = "unit" => Midway(code, image[workon], raw, turns, component, j, stream,
                                reservoir, goesTo, expects, got)
  /\ reading = "done" => Through(image[workon], raw, stream, got)

\* What the recoder knows when a file is written.
LEMMA FlushedRight ==
  ASSUME RecoderInv, phase = "flushed"
  PROVE  /\ Apart(code) /\ CodedImage(code, image[workon]) /\ FoundImage(code, image[workon])
         /\ image[workon] \in Images /\ file \in Seq(Item)
<1>1. RecoderTyped /\ Counted /\ file \in Seq(Item)
  BY DEF RecoderInv, Written
<1>2. code = [t \in Tables |-> [s \in Found(t) |-> NewCode(Rank(t, s))]]
  BY <1>1 DEF Counted
<1>3. workon \in Files
  BY <1>1 DEF RecoderTyped
<1>4. Apart(code) /\ \A f \in Files : CodedImage(code, image[f]) /\ FoundImage(code, image[f])
  BY <1>1, <1>2, NewCodesRight
<1> QED
  BY <1>1, <1>3, <1>4 DEF CodedImage

\* The file that was written is opened.
LEMMA OpensRight ==
  ASSUME RecoderInv, LayingInv, DecoderInv, OpenRecoded
  PROVE  DecoderInv'
<1> DEFINE im == image[workon]
           scan == Bytes(file)
           l == Ledger(code, im)[0]
<1>1. /\ phase = "flushed" /\ reading = "no" /\ reading' = "unit" /\ raw' = scan
      /\ goesTo' = RestartsToGo(im) /\ code' = code /\ image'[workon'] = im
      /\ UNCHANGED <<stream, reservoir, component, j, turns, expects, got>>
  BY DEF OpenRecoded, recoderVars, place
<1>2. /\ stream = 1 /\ reservoir = <<>> /\ component = 0 /\ j = 0 /\ turns = 0
      /\ expects = 0 /\ got = <<>>
  BY <1>1 DEF DecoderInv
<1>3. CodedImage(code, im) /\ im \in Images /\ file \in Seq(Item)
  BY <1>1, FlushedRight
<1>4. PICK F : Laid(code, im, scan, F)
  BY <1>1 DEF LayingInv
<1>5. 1 \in DOMAIN im.mcus
  <2>1. Len(im.mcus) \in Nat /\ DOMAIN im.mcus = 1 .. Len(im.mcus) /\ im.mcus \in Seq(Seq(Unit))
    BY <1>3, ImagesTyped
  <2>2. im.mcus # <<>>
    BY <1>3, UnitsAssumption
  <2> HIDE DEF im
  <2> QED
    BY <2>1, <2>2
<1>6. scan \in Seq(RawItem)
  <2>1. Scan(file) \in Seq(RawItem) /\ scan = Scan(file) \o <<Data(Ones), End>>
    BY <1>3, BytesAre
  <2>2. <<Data(Ones), End>> \in Seq(RawItem)
    BY ItemsApart
  <2> HIDE DEF scan
  <2> QED
    BY <2>1, <2>2, ConcatProperties
<1>7. l = FirstLedger(im)
  BY <1>3, LedgerIs
<1> HIDE DEF im, scan, l
<1>8. l.toGo = RestartsToGo(im) /\ l.turn = 0 /\ l.before = <<>> /\ F[0].pos[0] = 1
      /\ 1 - 1 = 0 /\ 0 + 1 = 1 /\ 0 % 8 = 0
  <2>1. l.toGo = RestartsToGo(im) /\ l.turn = 0 /\ l.before = <<>>
    BY <1>7 DEF FirstLedger
  <2>2. F[0].pos[0] = 1
    BY <1>4 DEF Laid
  <2> QED
    BY <2>1, <2>2
<1>9. FlattenTo(im.mcus, 0) = <<>>
  BY <1>3, ReadBegins
<1>10. Within(code, im, F, 1, 1, 0, 0, 1, <<>>, RestartsToGo(im), 0, <<>>)
  BY <1>3, <1>4, <1>5, <1>8, <1>9, WithinFresh DEF l
<1>11. Midway(code, im, scan, 0, 0, 0, 1, <<>>, RestartsToGo(im), 0, <<>>)
  <2>1. 0 + 1 = 1
    OBVIOUS
  <2> QED
    BY <1>4, <1>10, <2>1 DEF Midway
<1>12. Midway(code', image'[workon'], raw', turns', component', j', stream', reservoir',
              goesTo', expects', got')
  BY <1>1, <1>2, <1>11 DEF im, scan
<1> QED
  BY <1>1, <1>6, <1>12 DEF DecoderInv

\* A symbol is read.
LEMMA ReadsRight ==
  ASSUME RecoderInv, Rebuilt, DecoderInv, ReadCoefficient
  PROVE  DecoderInv'
<1> DEFINE im == image[workon]
           t == Turn(code, component, j, stream, reservoir)
<1>1. reading = "unit" /\ phase = "flushed" /\ tables = code /\ j < 64 /\ j \in Nat
      /\ raw \in Seq(RawItem)
      /\ Midway(code, im, raw, turns, component, j, stream, reservoir, goesTo, expects, got)
  <2>1. reading = "unit" /\ j < 64
    BY DEF ReadCoefficient
  <2>2. phase = "flushed" /\ tables = code
    BY <2>1 DEF Rebuilt
  <2>3. raw \in Seq(RawItem)
        /\ Midway(code, im, raw, turns, component, j, stream, reservoir, goesTo, expects, got)
    BY <2>1 DEF DecoderInv
  <2>4. j \in Nat
    BY <2>3 DEF Midway, Within
  <2> QED
    BY <2>1, <2>2, <2>3, <2>4
<1>2. /\ UNCHANGED <<raw, component, turns, goesTo, expects>>
      /\ code' = code /\ image'[workon'] = im
  BY DEF ReadCoefficient, recoderVars, place
<1>3. /\ stream' = t.rest.at /\ reservoir' = t.rest.bits
      /\ reading' = (IF t.lost THEN "lost" ELSE reading)
      /\ j' = Behind(j, t.value) /\ got' = Append(got, t.unit)
  <2> DEFINE class == IF j = 0 THEN "DC" ELSE "AC"
             e == NextCode([at |-> stream, bits |-> reservoir],
                           code[<<class, IF component = 0 THEN 0 ELSE 1>>])
             k == IF HasMagnitude(j, e.value) THEN e.value % 16 ELSE 0
             q == Taken(Refill(e.rest, k), k, e.value)
  <2>1. /\ stream' = q.rest.at /\ reservoir' = q.rest.bits
        /\ reading' = (IF e.lost \/ q.lost THEN "lost" ELSE reading)
        /\ j' = Behind(j, e.value)
        /\ got' = Append(got, [component |-> component, class |-> class,
                               symbol |-> e.value, bits |-> q.bits])
    <3>1. tables = code
      BY <1>1
    <3> QED
      BY <3>1, Zenon DEF ReadCoefficient
  <2>2. t = [lost |-> e.lost \/ q.lost, rest |-> q.rest, value |-> e.value, bits |-> q.bits,
             unit |-> [component |-> component, class |-> class,
                       symbol |-> e.value, bits |-> q.bits]]
    BY Zenon DEF Turn
  <2> HIDE DEF e, q, k, t, class
  <2>3. /\ t.rest = q.rest /\ t.lost = (e.lost \/ q.lost) /\ t.value = e.value
        /\ t.unit = [component |-> component, class |-> class,
                     symbol |-> e.value, bits |-> q.bits]
    BY <2>2
  <2>4. reading' = (IF t.lost THEN "lost" ELSE reading)
    BY <2>1, <2>3, Zenon
  <2> QED
    BY <2>1, <2>3, <2>4, Zenon
<1>4. Apart(code) /\ CodedImage(code, im) /\ FoundImage(code, im)
  BY <1>1, FlushedRight
<1>5. PICK F, i : /\ Laid(code, im, raw, F)
                  /\ Within(code, im, F, turns + 1, i, component, j, stream, reservoir,
                            goesTo, expects, got)
  BY <1>1 DEF Midway
<1> HIDE DEF im
<1>6. /\ t.lost = FALSE
      /\ Within(code, im, F, turns + 1, i + 1, component, Behind(j, t.value), t.rest.at,
                t.rest.bits, goesTo, expects, Append(got, t.unit))
  BY <1>1, <1>4, <1>5, WithinReads
<1> HIDE DEF t
<1>7. Within(code, im, F, turns + 1, i + 1, component, j', stream', reservoir',
             goesTo, expects, got')
  BY <1>3, <1>6
<1>8. Midway(code, im, raw, turns, component, j', stream', reservoir', goesTo, expects, got')
  BY <1>5, <1>7 DEF Midway
<1>9. reading' = "unit"
  BY <1>1, <1>3, <1>6
<1>10. Midway(code', image'[workon'], raw', turns', component', j', stream', reservoir',
              goesTo', expects', got')
  BY <1>2, <1>8
<1>11. raw' \in Seq(RawItem)
  BY <1>1, <1>2
<1> QED
  BY <1>9, <1>10, <1>11 DEF DecoderInv

\* A data unit is read.
LEMMA UnitsRight ==
  ASSUME DecoderInv, NextUnit
  PROVE  DecoderInv'
<1> DEFINE im == image[workon]
<1>1. /\ reading = "unit" /\ j >= 64 /\ component < 2 /\ component' = component + 1 /\ j' = 0
      /\ UNCHANGED <<reading, raw, stream, reservoir, turns, goesTo, expects, got>>
      /\ code' = code /\ image'[workon'] = im
  BY DEF NextUnit, recoderVars, place
<1>2. raw \in Seq(RawItem)
      /\ Midway(code, im, raw, turns, component, j, stream, reservoir, goesTo, expects, got)
  BY <1>1 DEF DecoderInv
<1>3. PICK F, i : /\ Laid(code, im, raw, F)
                  /\ Within(code, im, F, turns + 1, i, component, j, stream, reservoir,
                            goesTo, expects, got)
  BY <1>2 DEF Midway
<1> HIDE DEF im
<1>4. Within(code, im, F, turns + 1, i, component + 1, 0, stream, reservoir,
             goesTo, expects, got)
  BY <1>1, <1>3, WithinUnit
<1>5. Midway(code, im, raw, turns, component + 1, 0, stream, reservoir, goesTo, expects, got)
  BY <1>3, <1>4 DEF Midway
<1>6. Midway(code', image'[workon'], raw', turns', component', j', stream', reservoir',
              goesTo', expects', got')
  BY <1>1, <1>5
<1>7. reading' = "unit" /\ raw' \in Seq(RawItem)
  BY <1>1, <1>2
<1> QED
  BY <1>6, <1>7 DEF DecoderInv

\* The marker is found at the place the search starts from.
LEMMA FindsMarker ==
  ASSUME NEW from, from \in 1 .. Len(raw) - 1, Len(raw) \in Nat, raw[from] = Data(Ones),
         raw[from + 1] \in {Rst(expects), End}, FindMarker(from)
  PROVE  /\ reading' = IF turns' = Len(image[workon].mcus) THEN "done" ELSE reading
         /\ IF raw[from + 1] = End THEN stream' = from /\ expects' = expects
            ELSE stream' = from + 2 /\ expects' = (expects + 1) % 8
<1> DEFINE marks == {i \in from .. Len(raw) - 1 :
                       raw[i] = Data(Ones) /\ raw[i + 1] \in {Rst(expects), End}}
           mark == CHOOSE i \in marks : \A k \in marks : i <= k
<1>1. from \in marks /\ \A k \in marks : from <= k /\ k \in Int
  <2>1. from \in from .. Len(raw) - 1
    OBVIOUS
  <2> QED
    BY <2>1
<1> HIDE DEF marks
<1>2. mark \in marks /\ \A k \in marks : mark <= k
  <2>1. \E i \in marks : \A k \in marks : i <= k
    BY <1>1
  <2> QED
    BY <2>1
<1>3. mark = from
  <2> HIDE DEF mark
  <2> QED
    BY <1>1, <1>2
<1>4. marks # {}
  BY <1>1
<1>5. /\ reading' = (IF turns' = Len(image[workon].mcus) THEN "done" ELSE reading)
      /\ IF raw[mark + 1] = End THEN stream' = from /\ UNCHANGED expects
         ELSE stream' = mark + 2 /\ expects' = (expects + 1) % 8
  BY <1>4, Zenon DEF FindMarker, marks, mark
<1> HIDE DEF mark
<1> QED
  BY <1>3, <1>5

\* An MCU is read.
LEMMA MCUsRight ==
  ASSUME RecoderInv, Rebuilt, DecoderInv, NextMCU
  PROVE  DecoderInv'
<1> DEFINE im == image[workon]
           N == Len(im.mcus)
           from == stream - Len(reservoir) \div ByteBits
<1>1. reading = "unit" /\ phase = "flushed" /\ j >= 64 /\ component = 2
      /\ raw \in Seq(RawItem)
      /\ Midway(code, im, raw, turns, component, j, stream, reservoir, goesTo, expects, got)
  <2>1. reading = "unit" /\ j >= 64 /\ component = 2
    BY DEF NextMCU
  <2> QED
    BY <2>1 DEF Rebuilt, DecoderInv
<1>2. /\ UNCHANGED <<raw, got>> /\ code' = code /\ image'[workon'] = im
      /\ component' = 0 /\ j' = 0 /\ turns' = turns + 1
  BY DEF NextMCU, recoderVars, place
<1>3. /\ goesTo = 1 => /\ reservoir' = <<>> /\ goesTo' = RestartsToGo(im)
                       /\ FindMarker(from)
      /\ goesTo # 1 => /\ goesTo' = (IF goesTo > 0 THEN goesTo - 1 ELSE goesTo)
                       /\ reading' = (IF turns' = N THEN "done" ELSE reading)
                       /\ UNCHANGED <<stream, reservoir, expects>>
  BY DEF NextMCU, GivenBack
<1>4. CodedImage(code, im) /\ im \in Images
  BY <1>1, FlushedRight
<1>5. PICK F, i : /\ Laid(code, im, raw, F)
                  /\ Within(code, im, F, turns + 1, i, component, j, stream, reservoir,
                            goesTo, expects, got)
  BY <1>1 DEF Midway
<1>6. Len(raw) \in Nat
  BY <1>1
<1>7. image[workon] = im
  OBVIOUS
<1> DEFINE n == turns + 1
<1> HIDE DEF im
<1>8. j \in Nat /\ n \in DOMAIN im.mcus
  BY <1>5 DEF Within
<1>9. n \in 1 .. N /\ N \in Nat /\ DOMAIN im.mcus = 1 .. N
  BY <1>4, <1>8, ImagesTyped
<1> HIDE DEF n
<1>10. ReadThrough(code, im, F, n, stream, reservoir, goesTo, expects, got)
  <2>1. Within(code, im, F, n, i, 2, j, stream, reservoir, goesTo, expects, got)
    BY <1>1, <1>5 DEF n
  <2> QED
    BY <1>1, <1>4, <1>8, <2>1, WithinEnds
<1> DEFINE f == F[Ledger(code, im)[n - 1].turn]
<1>11. goesTo = 1 \/ n = N =>
         /\ from \in 1 .. Len(raw) - 1 /\ raw[from] = Data(Ones)
         /\ IF n = N THEN raw[from + 1] = End ELSE raw[from + 1] = Rst(expects)
  BY <1>4, <1>5, <1>10, AtMarker
<1>12. expects \in 0 .. 7
  <2>1. expects = Ledger(code, im)[n - 1].turn % 8
    BY <1>10 DEF ReadThrough
  <2>2. Ledger(code, im)[n - 1].turn \in Nat
    <3>1. n - 1 \in Nat
      BY <1>9
    <3>2. Ledger(code, im)[n - 1] \in Ledgers
      BY <1>4, <3>1, LedgerIs
    <3> QED
      BY <3>2 DEF Ledgers
  <2> QED
    BY <2>1, <2>2, MarksWrap
<1>13. Rst(expects) # End
  BY <1>12, ItemsApart
<1> HIDE DEF from, f
<1>14. raw' = raw /\ raw' \in Seq(RawItem) /\ turns' = n
  BY <1>1, <1>2 DEF n
<1>15. CASE n # N /\ goesTo # 1
  <2>1. n + 1 \in DOMAIN im.mcus
    BY <1>9, <1>15
  <2>2. Within(code, im, F, n + 1, 1, 0, 0, stream, reservoir,
               IF goesTo > 0 THEN goesTo - 1 ELSE goesTo, expects, got)
    BY <1>4, <1>10, <1>15, <2>1, BehindTurns
  <2>3. reading' = "unit"
    BY <1>1, <1>3, <1>14, <1>15
  <2>4. Within(code, im, F, n + 1, 1, component', j', stream', reservoir', goesTo',
               expects', got')
    BY <1>2, <1>3, <1>15, <2>2
  <2>5. Midway(code, im, raw, n, component', j', stream', reservoir', goesTo', expects', got')
    BY <1>5, <2>4 DEF Midway
  <2>6. Midway(code', image'[workon'], raw', turns', component', j', stream', reservoir',
               goesTo', expects', got')
    BY <1>2, <1>14, <2>5
  <2> QED
    BY <1>14, <2>3, <2>6 DEF DecoderInv
<1>16. CASE n # N /\ goesTo = 1
  <2>1. n + 1 \in DOMAIN im.mcus
    BY <1>9, <1>16
  <2>2. Within(code, im, F, n + 1, 1, 0, 0, from + 2, <<>>, RestartsToGo(im),
               (expects + 1) % 8, got)
    BY <1>4, <1>5, <1>10, <1>16, <2>1, BehindMarker DEF from
  <2>3. /\ reading' = (IF turns' = N THEN "done" ELSE reading)
        /\ stream' = from + 2 /\ expects' = (expects + 1) % 8
    <3>1. raw[from + 1] = Rst(expects) /\ raw[from + 1] # End
      BY <1>11, <1>13, <1>16
    <3>2. from \in 1 .. Len(raw) - 1 /\ raw[from] = Data(Ones) /\ FindMarker(from)
      BY <1>3, <1>11, <1>16
    <3>3. /\ reading' = (IF turns' = Len(image[workon].mcus) THEN "done" ELSE reading)
          /\ IF raw[from + 1] = End THEN stream' = from /\ expects' = expects
             ELSE stream' = from + 2 /\ expects' = (expects + 1) % 8
      BY <1>6, <3>1, <3>2, FindsMarker
    <3> QED
      BY <1>7, <3>1, <3>3
  <2>4. reading' = "unit"
    BY <1>1, <1>14, <1>16, <2>3
  <2>5. Within(code, im, F, n + 1, 1, component', j', stream', reservoir', goesTo',
               expects', got')
    BY <1>2, <1>3, <1>16, <2>2, <2>3
  <2>6. Midway(code, im, raw, n, component', j', stream', reservoir', goesTo', expects', got')
    BY <1>5, <2>5 DEF Midway
  <2>7. Midway(code', image'[workon'], raw', turns', component', j', stream', reservoir',
               goesTo', expects', got')
    BY <1>2, <1>14, <2>6
  <2> QED
    BY <1>14, <2>4, <2>7 DEF DecoderInv
<1>17. CASE n = N
  <2>1. got = FlattenSeq(im.mcus) /\ NoMarks(raw, stream) /\ NoMarks(raw, from)
    BY <1>4, <1>5, <1>10, <1>17, ReadAll DEF from
  <2>2. reading' = "done" /\ (stream' = stream \/ stream' = from)
    <3>1. CASE goesTo = 1
      <4>1. raw[from + 1] = End /\ FindMarker(from)
            /\ from \in 1 .. Len(raw) - 1 /\ raw[from] = Data(Ones)
        BY <1>3, <1>11, <1>17, <3>1
      <4>2. /\ reading' = (IF turns' = Len(image[workon].mcus) THEN "done" ELSE reading)
            /\ IF raw[from + 1] = End THEN stream' = from /\ expects' = expects
               ELSE stream' = from + 2 /\ expects' = (expects + 1) % 8
        BY <1>6, <4>1, FindsMarker
      <4> QED
        BY <1>7, <1>14, <1>17, <4>1, <4>2
    <3>2. CASE goesTo # 1
      BY <1>3, <1>14, <1>17, <3>2
    <3> QED
      BY <3>1, <3>2
  <2>3. Through(im, raw, stream', got)
    BY <2>1, <2>2 DEF Through
  <2>4. Through(image'[workon'], raw', stream', got')
    BY <1>2, <1>14, <2>3
  <2> QED
    BY <1>14, <2>2, <2>4 DEF DecoderInv
<1> QED
  BY <1>15, <1>16, <1>17

\* Every step keeps the place of the decoder.
LEMMA DecoderStep ==
  RecoderInv /\ LayingInv /\ Rebuilt /\ DecoderInv
    /\ [RereadNext]_<<recoderVars, decoderVars>> => DecoderInv'
<1> SUFFICES ASSUME RecoderInv, LayingInv, Rebuilt, DecoderInv,
                    [RereadNext]_<<recoderVars, decoderVars>>
             PROVE  DecoderInv'
  OBVIOUS
<1>1. CASE RecoderNext /\ phase # "flushed" /\ UNCHANGED decoderVars
  <2>1. reading = "no"
    BY <1>1 DEF Rebuilt
  <2> QED
    BY <1>1, <2>1 DEF DecoderInv, decoderVars
<1>2. CASE OpenRecoded
  BY <1>2, OpensRight
<1>3. CASE ReadCoefficient
  BY <1>3, ReadsRight
<1>4. CASE NextUnit
  BY <1>4, UnitsRight
<1>5. CASE NextMCU
  BY <1>5, MCUsRight
<1>6. CASE NextImage /\ CloseRecoded
  BY <1>6 DEF CloseRecoded, DecoderInv
<1>7. CASE UNCHANGED <<recoderVars, decoderVars>>
  BY <1>7 DEF DecoderInv, decoderVars, recoderVars, place, writerVars
<1> QED
  BY <1>1, <1>2, <1>3, <1>4, <1>5, <1>6, <1>7 DEF RereadNext

-----------------------------------------------------------------------------
(* What is delivered.                                                      *)

\* What is read so far begins the image.
LEMMA WithinBegins ==
  ASSUME NEW c, NEW im, CodedImage(c, im), NEW F,
         NEW n, NEW i, NEW comp, NEW jj, NEW st, NEW res, NEW go, NEW ex, NEW gt,
         Within(c, im, F, n, i, comp, jj, st, res, go, ex, gt)
  PROVE  IsPrefix(gt, FlattenSeq(im.mcus))
<1> DEFINE m == im.mcus[n]
           fl == FlattenTo(im.mcus, n - 1)
           fn == FlattenTo(im.mcus, n)
           all == FlattenSeq(im.mcus)
           p == SubSeq(m, 0 + 1, i - 1)
           q == SubSeq(m, (i - 1) + 1, Len(m))
<1>1. n \in DOMAIN im.mcus /\ i \in 1 .. Len(m) + 1 /\ gt = fl \o p
  <2>1. 0 + 1 = 1
    OBVIOUS
  <2> QED
    BY <2>1 DEF Within
<1>2. im \in Images
  BY DEF CodedImage
<1>3. /\ m \in Seq(Unit) /\ Len(m) \in Nat /\ n \in 1 .. Len(im.mcus) /\ Len(im.mcus) \in Nat
  BY <1>1, <1>2, ImagesTyped
<1>4. /\ fl \in Seq(Unit) /\ fn = fl \o m /\ fn \in Seq(Unit) /\ Begins(fn, all)
      /\ all \in Seq(Unit)
  <2>1. n - 1 \in 0 .. Len(im.mcus) /\ n \in 0 .. Len(im.mcus)
        /\ Len(im.mcus) \in 0 .. Len(im.mcus)
    BY <1>3
  <2>2. /\ \A k \in 0 .. Len(im.mcus) :
             FlattenTo(im.mcus, k) \in Seq(Unit) /\ Begins(FlattenTo(im.mcus, k), all)
        /\ \A k \in 1 .. Len(im.mcus) :
             FlattenTo(im.mcus, k) = FlattenTo(im.mcus, k - 1) \o im.mcus[k]
        /\ FlattenTo(im.mcus, Len(im.mcus)) = all
    BY <1>2, ReadBegins
  <2> HIDE DEF all
  <2>3. all \in Seq(Unit)
    BY <2>1, <2>2
  <2> QED
    BY <1>3, <2>1, <2>2, <2>3
<1> HIDE DEF m, fl, fn, all
<1>5. i - 1 \in Nat /\ 0 \in Nat /\ 0 <= i - 1 /\ i - 1 <= Len(m) /\ Len(m) <= Len(m)
  BY <1>1, <1>3
<1>6. p \o q = m /\ p \in Seq(Unit) /\ q \in Seq(Unit)
  <2>1. p \in Seq(Unit)
    BY <1>3, <1>5, Piece
  <2>2. q \in Seq(Unit)
    BY <1>3, <1>5, Piece
  <2>3. p \o q = SubSeq(m, 0 + 1, Len(m))
    BY <1>3, <1>5, PieceJoin
  <2>4. SubSeq(m, 0 + 1, Len(m)) = m
    BY <1>3
  <2> QED
    BY <2>1, <2>2, <2>3, <2>4
<1> HIDE DEF p, q
<1>7. fn = gt \o q
  <2>0. fl \in Seq(Unit) /\ p \in Seq(Unit) /\ q \in Seq(Unit)
    BY <1>4, <1>6
  <2>1. (fl \o p) \o q = fl \o (p \o q)
    BY <2>0, ConcatAssociative
  <2> QED
    BY <1>1, <1>4, <1>6, <2>1
<1>8. gt \in Seq(Unit)
  BY <1>1, <1>4, <1>6, ConcatProperties
<1>9. Begins(gt, fn)
  BY <1>6, <1>7, <1>8, BeginsJoin
<1>10. Begins(gt, all)
  BY <1>4, <1>8, <1>9, BeginsOn
<1> QED
  BY <1>4, <1>8, <1>10, BeginsIs DEF all

\* A decoder at its place delivers.
LEMMA DeliveredIs ==
  ASSUME RecoderInv, Rebuilt, DecoderInv
  PROVE  Delivered
<1> DEFINE im == image[workon]
<1>1. reading # "lost"
  BY DEF DecoderInv
<1>2. ASSUME reading # "no"
      PROVE  CodedImage(code, im) /\ FlattenSeq(im.mcus) \in Seq(Unit)
  <2>1. CodedImage(code, im) /\ im \in Images
    BY <1>2, FlushedRight DEF Rebuilt
  <2>2. Len(im.mcus) \in 0 .. Len(im.mcus)
    BY <2>1, ImagesTyped
  <2>3. FlattenSeq(im.mcus) \in Seq(Unit)
    BY <2>1, <2>2, ReadBegins
  <2> QED
    BY <2>1, <2>3
<1>3. ASSUME reading = "done"
      PROVE  /\ got = FlattenSeq(im.mcus) /\ NoMarks(raw, stream)
             /\ IsPrefix(got, FlattenSeq(im.mcus))
  <2>1. got = FlattenSeq(im.mcus) /\ NoMarks(raw, stream)
    BY <1>3 DEF DecoderInv, Through
  <2>2. Begins(got, got) /\ got \in Seq(Unit)
    BY <1>2, <1>3, <2>1, BeginsJoin
  <2> HIDE DEF im
  <2>3. IsPrefix(got, got)
    BY <2>2, BeginsIs
  <2> QED
    BY <2>1, <2>3
<1>4. ASSUME reading = "unit"
      PROVE  IsPrefix(got, FlattenSeq(im.mcus))
  <2>1. CodedImage(code, im)
    BY <1>2, <1>4
  <2>2. PICK F, i : Within(code, im, F, turns + 1, i, component, j, stream, reservoir,
                           goesTo, expects, got)
    BY <1>4 DEF DecoderInv, Midway
  <2> HIDE DEF im
  <2> QED
    BY <2>1, <2>2, WithinBegins
<1>5. reading \in {"no", "unit", "done"}
  BY DEF DecoderInv
<1>6. reading # "no" => IsPrefix(got, FlattenSeq(im.mcus))
  BY <1>3, <1>4, <1>5
<1>7. reading = "done" =>
        /\ got = FlattenSeq(im.mcus)
        /\ \A x \in stream .. Len(raw) : raw[x] \notin {Rst(n) : n \in 0 .. 7}
  BY <1>3 DEF NoMarks
<1> QED
  BY <1>1, <1>6, <1>7 DEF Delivered

\* For any images of whole data units, any symbols, restart intervals and byte size, and
\* any one_size_max with codes for all symbols: the decoder (process_Huffman_data_unit,
\* find_next_rst_marker, tinyjpeg_decode, src/main.cpp, 85, 736, 1035) gets from a file
\* the recoder wrote the symbols and magnitudes of the image, one by one, never lacks a
\* byte, though it reads ahead over markers, and leaves no restart marker unread.
THEOREM AlwaysDelivered == RereadSpec => []Delivered
<1>1. RereadInit => DecoderInv
  BY DEF RereadInit, DecoderInit, DecoderInv
<1>2. RecoderInv /\ LayingInv /\ Rebuilt /\ DecoderInv
        /\ [RereadNext]_<<recoderVars, decoderVars>> => DecoderInv'
  BY DecoderStep
<1>3. RecoderInv /\ Rebuilt /\ DecoderInv => Delivered
  BY DeliveredIs
<1> QED
  BY <1>1, <1>2, <1>3, RereadIsRecoder, RecoderInvariant, LayingInvariant,
     RebuiltInvariant, PTL DEF RereadSpec

=============================================================================
