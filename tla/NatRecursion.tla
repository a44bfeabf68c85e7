---------------------------- MODULE NatRecursion ----------------------------
(***************************************************************************)
(* Induction and recursion over the naturals for first-order provers: the  *)
(* property is given as the set of the numbers that have it, the step of a *)
(* recursion as a function.  Both come from the well-foundedness of < on   *)
(* Nat.  FlattenSeq of the community modules is such a recursion.          *)
(***************************************************************************)
EXTENDS Integers, SequencesExt, SequenceTheorems, WellFoundedInduction, TLAPS

\* A nonempty set of naturals has a least element.
LEMMA Least ==
  ASSUME NEW T \in SUBSET Nat, T # {}
  PROVE  \E n \in T : \A m \in T : n <= m
<1> DEFINE R == OpToRel(<, Nat)
<1>1. IsWellFoundedOn(R, Nat)
  BY NatLessThanWellFounded, Zenon
<1>2. \A m, n \in Nat : m < n => <<m, n>> \in R
  BY DEF OpToRel
<1> HIDE DEF R
<1>3. PICK n \in T : \A m \in T : ~(<<m, n>> \in R)
  BY <1>1, WFMin
<1>4. ASSUME NEW m \in T PROVE n <= m
  <2>1. m \in Nat /\ n \in Nat /\ ~(<<m, n>> \in R)
    BY <1>3
  <2>2. ~(m < n)
    BY <1>2, <2>1, Zenon
  <2> QED
    BY <2>1, <2>2
<1> QED
  BY <1>4

\* A set that holds 0 and, with every natural, the next one, holds them all.
LEMMA SetInduction ==
  ASSUME NEW S, 0 \in S, \A n \in Nat : n \in S => n + 1 \in S
  PROVE  Nat \subseteq S
<1> SUFFICES ASSUME Nat \ S # {} PROVE FALSE
  OBVIOUS
<1>1. PICK n \in Nat \ S : \A m \in Nat \ S : n <= m
  BY Least, Zenon
<1>2. n # 0 /\ n - 1 \in Nat /\ n - 1 \in S
  BY <1>1
<1>3. (n - 1) + 1 \in S
  BY <1>2
<1> QED
  BY <1>1, <1>2, <1>3

\* The steps of a recursion with values in S: the next value from the last one.
Steps(S) == [Nat \X S -> S]

\* f is defined by the recursion from b by step.
Recurses(f, S, b, step) ==
  /\ f \in [Nat -> S]
  /\ f[0] = b
  /\ \A n \in Nat : f[n + 1] = step[<<n, f[n]>>]

\* g is what the recursion from b by step has computed up to k.
Computes(g, k, S, b, step) ==
  /\ g \in [0 .. k -> S]
  /\ g[0] = b
  /\ \A n \in 0 .. k - 1 : g[n + 1] = step[<<n, g[n]>>]

LEMMA ComputesExists ==
  ASSUME NEW S, NEW b \in S, NEW step \in Steps(S), NEW k \in Nat
  PROVE  \E g : Computes(g, k, S, b, step)
<1> DEFINE T == {n \in Nat : \E g : Computes(g, n, S, b, step)}
<1>1. 0 \in T
  <2>1. Computes([n \in 0 .. 0 |-> b], 0, S, b, step)
    BY DEF Computes
  <2> QED
    BY <2>1
<1>2. ASSUME NEW n \in Nat, n \in T
      PROVE  n + 1 \in T
  <2>1. PICK g : Computes(g, n, S, b, step)
    BY <1>2
  <2> DEFINE h == [m \in 0 .. n + 1 |-> IF m <= n THEN g[m] ELSE step[<<n, g[n]>>]]
  <2>2. g[n] \in S /\ step[<<n, g[n]>>] \in S
    BY <2>1 DEF Computes, Steps
  <2>3. h \in [0 .. n + 1 -> S]
    BY <2>1, <2>2 DEF Computes
  <2>4. h[0] = b
    BY <2>1 DEF Computes
  <2>5. ASSUME NEW m \in 0 .. (n + 1) - 1
        PROVE  h[m + 1] = step[<<m, h[m]>>]
    <3>1. CASE m = n
      <4>1. h[n + 1] = step[<<n, g[n]>>] /\ h[n] = g[n]
        OBVIOUS
      <4> QED
        BY <3>1, <4>1, Zenon
    <3>2. CASE m \in 0 .. n - 1
      <4>1. h[m + 1] = g[m + 1] /\ h[m] = g[m]
        BY <3>2
      <4>2. g[m + 1] = step[<<m, g[m]>>]
        BY <2>1, <3>2 DEF Computes
      <4> QED
        BY <4>1, <4>2, Zenon
    <3> QED
      BY <3>1, <3>2
  <2>6. Computes(h, n + 1, S, b, step)
    BY <2>3, <2>4, <2>5, Zenon DEF Computes
  <2> QED
    BY <2>6
<1> HIDE DEF T
<1>3. Nat \subseteq T
  BY <1>1, <1>2, SetInduction
<1> QED
  BY <1>3 DEF T

LEMMA ComputesAgree ==
  ASSUME NEW S, NEW b, NEW step
  PROVE  \A k, j \in Nat : \A g, h :
           Computes(g, k, S, b, step) /\ Computes(h, j, S, b, step)
             => \A n \in Nat : n <= k /\ n <= j => g[n] = h[n]
<1> TAKE k, j \in Nat
<1> TAKE g, h
<1> HAVE Computes(g, k, S, b, step) /\ Computes(h, j, S, b, step)
<1> DEFINE T == {n \in Nat : n <= k /\ n <= j => g[n] = h[n]}
<1>1. 0 \in T
  BY DEF Computes
<1>2. ASSUME NEW n \in Nat, n \in T
      PROVE  n + 1 \in T
  <2> SUFFICES ASSUME n + 1 <= k, n + 1 <= j
               PROVE  g[n + 1] = h[n + 1]
    OBVIOUS
  <2>1. n \in 0 .. k - 1 /\ n \in 0 .. j - 1 /\ g[n] = h[n]
    BY <1>2
  <2>2. g[n + 1] = step[<<n, g[n]>>] /\ h[n + 1] = step[<<n, h[n]>>]
    BY <2>1, Zenon DEF Computes
  <2> QED
    BY <2>1, <2>2, Zenon
<1> HIDE DEF T
<1>3. Nat \subseteq T
  BY <1>1, <1>2, SetInduction
<1> QED
  BY <1>3 DEF T

\* The recursion from b by step defines a function on the naturals.
LEMMA Recursion ==
  ASSUME NEW S, NEW b \in S, NEW step \in Steps(S)
  PROVE  \E f : Recurses(f, S, b, step)
<1> DEFINE G(k) == CHOOSE g : Computes(g, k, S, b, step)
           f == [k \in Nat |-> G(k)[k]]
<1>1. \A k \in Nat : Computes(G(k), k, S, b, step)
  BY ComputesExists
<1> HIDE DEF G
<1>2. f \in [Nat -> S]
  BY <1>1 DEF Computes
<1>3. f[0] = b
  BY <1>1 DEF Computes
<1>4. ASSUME NEW n \in Nat
      PROVE  f[n + 1] = step[<<n, f[n]>>]
  <2>1. /\ Computes(G(n), n, S, b, step) /\ Computes(G(n + 1), n + 1, S, b, step)
        /\ n \in 0 .. (n + 1) - 1 /\ n <= n /\ n <= n + 1 /\ n + 1 \in Nat
    BY <1>1
  <2>2. G(n + 1)[n] = G(n)[n]
    <3>1. ASSUME NEW g, NEW h, Computes(g, n + 1, S, b, step), Computes(h, n, S, b, step)
          PROVE  g[n] = h[n]
      BY <3>1, <2>1, ComputesAgree, SMT
    <3> QED
      BY <2>1, <3>1, Zenon
  <2>3. G(n + 1)[n + 1] = step[<<n, G(n + 1)[n]>>]
    BY <2>1, Zenon DEF Computes
  <2>4. f[n + 1] = G(n + 1)[n + 1] /\ f[n] = G(n)[n]
    BY <2>1
  <2> QED
    BY <2>2, <2>3, <2>4, Zenon
<1>5. Recurses(f, S, b, step)
  BY <1>2, <1>3, <1>4, Zenon DEF Recurses
<1> QED
  BY <1>5

\* f is defined on the numbers from 1 to m by the recursion from b by step.
RecursesTo(f, m, S, b, step) ==
  /\ \A k \in 1 .. m : f[k] \in S
  /\ f = [k \in 1 .. m |-> IF k = 1 THEN b ELSE step[<<k - 1, f[k - 1]>>]]

LEMMA RecursionTo ==
  ASSUME NEW S, NEW b \in S, NEW step \in Steps(S), NEW m \in Nat
  PROVE  \E f : RecursesTo(f, m, S, b, step)
<1> DEFINE first == [x \in Nat \X S |-> IF x[1] = 0 THEN b ELSE step[x]]
<1>1. /\ first \in Steps(S)
      /\ \A n \in Nat, v \in S : first[<<n, v>>] = IF n = 0 THEN b ELSE step[<<n, v>>]
  BY DEF Steps
<1> HIDE DEF first
<1>2. PICK g : Recurses(g, S, b, first)
  BY <1>1, Recursion
<1> DEFINE f == [k \in 1 .. m |-> g[k]]
<1>3. \A k \in 1 .. m : f[k] \in S
  BY <1>2 DEF Recurses
<1>4. ASSUME NEW k \in 1 .. m
      PROVE  f[k] = IF k = 1 THEN b ELSE step[<<k - 1, f[k - 1]>>]
  <2>1. k - 1 \in Nat /\ (k - 1) + 1 = k /\ g[k - 1] \in S
    BY <1>2 DEF Recurses
  <2>2. f[k] = IF k - 1 = 0 THEN b ELSE step[<<k - 1, g[k - 1]>>]
    BY <1>1, <1>2, <2>1 DEF Recurses
  <2>3. k # 1 => g[k - 1] = f[k - 1]
    OBVIOUS
  <2> QED
    BY <2>1, <2>2, <2>3
<1>5. f = [k \in 1 .. m |-> IF k = 1 THEN b ELSE step[<<k - 1, f[k - 1]>>]]
  BY <1>4
<1>6. RecursesTo(f, m, S, b, step)
  BY <1>3, <1>5, Zenon DEF RecursesTo
<1> QED
  BY <1>6

-----------------------------------------------------------------------------
(* FlattenSeq.                                                             *)

\* What FlattenSeq has concatenated of s up to place k.
IsFlattening(f, s) ==
  \A k \in 1 .. Len(s) : f[k] = IF k = 1 THEN s[k] ELSE f[k - 1] \o s[k]

LEMMA FlattenRec ==
  ASSUME NEW D, NEW s \in Seq(Seq(D)), s # <<>>
  PROVE  \E f : IsFlattening(f, s) /\ FlattenSeq(s) = f[Len(s)]
<1> DEFINE flatten[k \in 1 .. Len(s)] == IF k = 1 THEN s[k] ELSE flatten[k - 1] \o s[k]
<1>0. Len(s) \in Nat \ {0}
  BY EmptySeq
<1>1. FlattenSeq(s) = flatten[Len(s)]
  BY <1>0 DEF FlattenSeq
<1>2. \E f : f = [k \in 1 .. Len(s) |-> IF k = 1 THEN s[k] ELSE f[k - 1] \o s[k]]
  <2> DEFINE At(k) == IF k \in 1 .. Len(s) THEN s[k] ELSE <<>>
             step == [x \in Nat \X Seq(D) |-> x[2] \o At(x[1] + 1)]
  <2>1. \A k \in Nat : At(k) \in Seq(D)
    BY <1>0, ElementOfSeq
  <2> HIDE DEF At
  <2>2. \A n \in Nat, t \in Seq(D) : step[<<n, t>>] = t \o At(n + 1)
    OBVIOUS
  <2>3. step \in Steps(Seq(D))
    <3>1. ASSUME NEW x \in Nat \X Seq(D)
          PROVE  x[2] \o At(x[1] + 1) \in Seq(D)
      BY <2>1, ConcatProperties
    <3> QED
      BY <3>1, Zenon DEF Steps
  <2> HIDE DEF step
  <2>4. PICK g : Recurses(g, Seq(D), <<>>, step)
    <3>1. <<>> \in Seq(D)
      OBVIOUS
    <3> QED
      BY <2>3, <3>1, Recursion
  <2>5. ASSUME NEW n \in Nat
        PROVE  g[n + 1] = g[n] \o At(n + 1)
    BY <2>2, <2>4 DEF Recurses
  <2> DEFINE f == [k \in 1 .. Len(s) |-> g[k]]
  <2>6. ASSUME NEW k \in 1 .. Len(s)
        PROVE  g[k] = IF k = 1 THEN s[k] ELSE f[k - 1] \o s[k]
    <3>1. k - 1 \in Nat /\ (k - 1) + 1 = k
      BY <1>0
    <3>2. g[k] = g[k - 1] \o At(k) /\ At(k) = s[k]
      BY <2>5, <3>1 DEF At
    <3>3. CASE k = 1
      <4>1. g[k - 1] = <<>> /\ s[k] \in Seq(D)
        BY <2>4, <3>3, ElementOfSeq DEF Recurses
      <4> QED
        BY <3>2, <3>3, <4>1
    <3>4. CASE k # 1
      <4>1. k - 1 \in 1 .. Len(s)
        BY <1>0, <3>4
      <4> QED
        BY <3>2, <3>4, <4>1
    <3> QED
      BY <3>3, <3>4
  <2>7. f = [k \in 1 .. Len(s) |-> IF k = 1 THEN s[k] ELSE f[k - 1] \o s[k]]
    BY <2>6
  <2> QED
    BY <2>7
<1>3. flatten = [k \in 1 .. Len(s) |-> IF k = 1 THEN s[k] ELSE flatten[k - 1] \o s[k]]
  BY <1>2
<1> HIDE DEF flatten
<1>4. IsFlattening(flatten, s)
  BY <1>3 DEF IsFlattening
<1> QED
  BY <1>1, <1>4

\* Two functions that concatenate agree where both do.
LEMMA FlatteningsAgree ==
  ASSUME NEW D, NEW s \in Seq(Seq(D)), NEW c \in Seq(D), NEW f, NEW g,
         IsFlattening(f, s), IsFlattening(g, Append(s, c))
  PROVE  \A k \in 1 .. Len(s) : f[k] = g[k] /\ f[k] \in Seq(D)
<1> DEFINE T == {k \in Nat : k \in 1 .. Len(s) => f[k] = g[k] /\ f[k] \in Seq(D)}
<1>1. 0 \in T
  OBVIOUS
<1>2. ASSUME NEW k \in Nat, k \in T
      PROVE  k + 1 \in T
  <2> SUFFICES ASSUME k + 1 \in 1 .. Len(s)
               PROVE  f[k + 1] = g[k + 1] /\ f[k + 1] \in Seq(D)
    OBVIOUS
  <2>1. /\ Append(s, c)[k + 1] = s[k + 1] /\ s[k + 1] \in Seq(D)
        /\ k + 1 \in 1 .. Len(Append(s, c))
    BY AppendProperties, ElementOfSeq
  <2>2. /\ f[k + 1] = IF k + 1 = 1 THEN s[k + 1] ELSE f[(k + 1) - 1] \o s[k + 1]
        /\ g[k + 1] = IF k + 1 = 1 THEN s[k + 1] ELSE g[(k + 1) - 1] \o s[k + 1]
    BY <2>1, Zenon DEF IsFlattening
  <2>3. CASE k = 0
    BY <2>1, <2>2, <2>3
  <2>4. CASE k # 0
    <3>1. k \in 1 .. Len(s) /\ (k + 1) - 1 = k /\ k + 1 # 1
      BY <2>4
    <3>2. f[k] = g[k] /\ f[k] \in Seq(D)
      BY <1>2, <3>1
    <3>3. f[k + 1] = f[k] \o s[k + 1] /\ g[k + 1] = g[k] \o s[k + 1]
      BY <2>2, <3>1, Zenon
    <3>4. f[k] \o s[k + 1] \in Seq(D)
      BY <2>1, <3>2, ConcatProperties
    <3> QED
      BY <3>2, <3>3, <3>4, Zenon
  <2> QED
    BY <2>3, <2>4
<1> HIDE DEF T
<1>3. Nat \subseteq T
  BY <1>1, <1>2, SetInduction
<1> QED
  BY <1>3 DEF T

\* One more sequence is concatenated to the others.
LEMMA FlattenAppend ==
  ASSUME NEW D, NEW s \in Seq(Seq(D)), NEW c \in Seq(D)
  PROVE  FlattenSeq(Append(s, c)) = FlattenSeq(s) \o c /\ FlattenSeq(s) \in Seq(D)
<1> DEFINE n == Len(s)
<1>1. /\ Append(s, c) \in Seq(Seq(D)) /\ Append(s, c) # <<>>
      /\ Len(Append(s, c)) = n + 1 /\ n \in Nat /\ Append(s, c)[n + 1] = c
  <2>1. /\ Append(s, c) \in Seq(Seq(D)) /\ Len(Append(s, c)) = n + 1 /\ n \in Nat
        /\ Append(s, c)[n + 1] = c
    BY AppendProperties
  <2>2. Append(s, c) # <<>>
    <3>1. Len(<<>>) = 0 /\ n + 1 # 0
      BY <2>1
    <3> QED
      BY <2>1, <3>1, Zenon
  <2> QED
    BY <2>1, <2>2
<1>2. PICK g : IsFlattening(g, Append(s, c)) /\ FlattenSeq(Append(s, c)) = g[n + 1]
  BY <1>1, FlattenRec
<1>3. g[n + 1] = IF n + 1 = 1 THEN c ELSE g[(n + 1) - 1] \o c
  <2>1. n + 1 \in 1 .. Len(Append(s, c))
    BY <1>1
  <2> QED
    BY <1>1, <1>2, <2>1, Zenon DEF IsFlattening
<1>4. CASE s = <<>>
  <2>1. FlattenSeq(s) = <<>> /\ n = 0
    BY <1>4 DEF FlattenSeq
  <2>2. g[n + 1] = c /\ <<>> \o c = c /\ <<>> \in Seq(D)
    BY <1>3, <2>1
  <2> QED
    BY <1>2, <2>1, <2>2, Zenon
<1>5. CASE s # <<>>
  <2>1. n \in 1 .. Len(s) /\ (n + 1) - 1 = n /\ n + 1 # 1
    BY <1>5, EmptySeq
  <2>2. PICK f : IsFlattening(f, s) /\ FlattenSeq(s) = f[n]
    BY <1>5, FlattenRec
  <2>3. f[n] = g[n] /\ f[n] \in Seq(D)
    BY <1>2, <2>1, <2>2, FlatteningsAgree
  <2> QED
    BY <1>2, <1>3, <2>1, <2>2, <2>3
<1> QED
  BY <1>4, <1>5

LEMMA FlattenType ==
  ASSUME NEW D, NEW s \in Seq(Seq(D))
  PROVE  FlattenSeq(s) \in Seq(D)
<1>1. <<>> \in Seq(D)
  OBVIOUS
<1> QED
  BY <1>1, FlattenAppend
=============================================================================
