------------------------ MODULE AuditedServer_proofs -------------------------
(***************************************************************************)
(* Proofs about the audit gate of AuditedServer and the files of AuditLog: *)
(* no effect without a stored attempt, no outcome ahead of its attempt,    *)
(* and bounded files that are, for every number and size of files, a       *)
(* window of one append-only log without gaps.                             *)
(*                                                                         *)
(* Retention is a flattened sequence of files, a recursive function: its   *)
(* first section proves what flattening does, by induction over the        *)
(* segments in the form of the least element of a set of numbers.          *)
(***************************************************************************)
EXTENDS AuditedServer, WellFoundedInduction, SequenceTheorems, TLAPS

-----------------------------------------------------------------------------
(* Flattening.                                                             *)

\* A set of naturals that is not empty has a least element: the form of induction used
\* below.
LEMMA Least ==
  ASSUME NEW T, T \subseteq Nat, T # {}
  PROVE  \E x \in T : \A y \in T : x <= y
<1> DEFINE R == {ss \in Nat \X Nat : ss[1] < ss[2]}
<1>1. \A x, y \in Nat : x < y => <<x, y>> \in R
  OBVIOUS
<1>2. IsWellFoundedOn(R, Nat)
  BY NatLessThanWellFounded DEF OpToRel
<1> HIDE DEF R
<1>3. PICK x \in T : \A y \in T : ~(<<y, x>> \in R)
  BY <1>2, WFMin
<1>4. ASSUME NEW y \in T PROVE x <= y
  <2>1. x \in Nat /\ y \in Nat /\ ~(y < x)
    BY <1>1, <1>3
  <2> QED BY <2>1
<1> QED BY <1>4

\* f gives the flattened initial parts of s.
IsFlat(f, s) == /\ f[1] = s[1]
                /\ \A i \in 2..Len(s) : f[i] = f[i - 1] \o s[i]

Segments(s, U) == /\ Len(s) \in Nat \ {0}
                  /\ \A i \in 1..Len(s) : s[i] \in Seq(U)

\* The recursive function that FlattenSeq chooses exists: were there no such function up
\* to some segment, the first such segment would have one.
LEMMA FlatExists ==
  ASSUME NEW s, Len(s) \in Nat \ {0}
  PROVE  \E f : f = [i \in 1..Len(s) |-> IF i = 1 THEN s[i] ELSE f[i - 1] \o s[i]]
<1> DEFINE Upto(f, n) == /\ DOMAIN f = 1..n
                         /\ f = [i \in DOMAIN f |-> f[i]]
                         /\ \A i \in 1..n : f[i] = IF i = 1 THEN s[i] ELSE f[i - 1] \o s[i]
           Bad == {n \in Nat \ {0} : ~\E f : Upto(f, n)}
<1>1. ASSUME Bad # {} PROVE FALSE
  <2>1. PICK n \in Bad : \A m \in Bad : n <= m
    <3> HIDE DEF Bad
    <3>1. Bad \subseteq Nat
      BY DEF Bad
    <3> QED BY <1>1, <3>1, Least
  <2>2. n # 1
    <3> DEFINE e == [i \in 1..1 |-> s[1]]
    <3>1. Upto(e, 1)
      OBVIOUS
    <3> QED BY <3>1, <2>1
  <2>3. PICK g : Upto(g, n - 1)
    BY <2>1, <2>2
  <2> DEFINE h == [i \in 1..n |-> IF i = n THEN g[n - 1] \o s[n] ELSE g[i]]
  <2>4. \A i \in 1..n : h[i] = IF i = 1 THEN s[i] ELSE h[i - 1] \o s[i]
    <3> SUFFICES ASSUME NEW i \in 1..n
                 PROVE  h[i] = IF i = 1 THEN s[i] ELSE h[i - 1] \o s[i]
      OBVIOUS
    <3>1. CASE i = n
      <4>1. n \in Nat /\ i - 1 # n /\ i - 1 \in 1..n
        BY <3>1, <2>1, <2>2
      <4>2. h[i] = g[n - 1] \o s[n] /\ h[i - 1] = g[i - 1]
        BY <4>1, <3>1
      <4> QED BY <4>2, <3>1, <2>2
    <3>2. CASE i # n
      <4>1. i \in 1..n-1
        BY <3>2, <2>1, <2>2
      <4>2. g[i] = IF i = 1 THEN s[i] ELSE g[i - 1] \o s[i]
        BY <2>3, <4>1
      <4>3. h[i] = g[i] /\ (i # 1 => h[i - 1] = g[i - 1])
        BY <4>1, <2>1
      <4> QED BY <4>2, <4>3
    <3> QED BY <3>1, <3>2
  <2>5. Upto(h, n)
    BY <2>4
  <2> QED BY <2>1, <2>5
<1>2. PICK f : Upto(f, Len(s))
  BY <1>1
<1>3. f = [i \in 1..Len(s) |-> IF i = 1 THEN s[i] ELSE f[i - 1] \o s[i]]
  <2> DEFINE e == [i \in 1..Len(s) |-> IF i = 1 THEN s[i] ELSE f[i - 1] \o s[i]]
  <2>1. DOMAIN f = DOMAIN e /\ \A i \in DOMAIN e : f[i] = e[i]
    BY <1>2
  <2>2. f = [i \in 1..Len(s) |-> f[i]]
    BY <1>2
  <2>3. e = [i \in 1..Len(s) |-> f[i]]
    BY <2>1
  <2> QED BY <2>2, <2>3
<1> QED BY <1>3

\* The value of FlattenSeq is the last of the flattened initial parts.
LEMMA FlattenIsFlat ==
  ASSUME NEW s, NEW n \in Nat \ {0}, Len(s) = n
  PROVE  \E f : IsFlat(f, s) /\ FlattenSeq(s) = f[n]
<1> DEFINE c == CHOOSE f : f = [i \in 1..Len(s) |-> IF i = 1 THEN s[i] ELSE f[i - 1] \o s[i]]
           e == [i \in 1..n |-> IF i = 1 THEN s[i] ELSE c[i - 1] \o s[i]]
<1>1. c = e
  BY FlatExists
<1>2. e[1] = s[1]
  OBVIOUS
<1>3. ASSUME NEW i \in 2..n PROVE e[i] = c[i - 1] \o s[i]
  <2> HIDE DEF c
  <2>1. i \in 1..n /\ i # 1
    OBVIOUS
  <2> QED BY <2>1
<1>4. FlattenSeq(s) = c[n]
  BY DEF FlattenSeq
<1> HIDE DEF c, e
<1> QED BY <1>1, <1>2, <1>3, <1>4 DEF IsFlat

\* Induction from k up to n.
LEMMA InductUpto ==
  ASSUME NEW k \in Nat, NEW n \in Nat, NEW S,
         k \in S, \A i \in k+1..n : i - 1 \in S => i \in S
  PROVE  k..n \subseteq S
<1> DEFINE Bad == (k..n) \ S
<1>1. ASSUME Bad # {} PROVE FALSE
  <2>1. PICK m \in Bad : \A i \in Bad : m <= i
    <3>1. Bad \subseteq Nat
      OBVIOUS
    <3> HIDE DEF Bad
    <3> QED BY <1>1, <3>1, Least
  <2>2. m \in k+1..n
    BY <2>1
  <2>3. m - 1 \in Bad
    BY <2>1, <2>2
  <2>4. m \in Nat /\ m <= m - 1
    BY <2>1, <2>3
  <2> QED BY <2>4
<1> QED BY <1>1

\* Flattening yields sequences over the same elements.
LEMMA FlatTyped ==
  ASSUME NEW U, NEW s, Segments(s, U), NEW f, IsFlat(f, s)
  PROVE  \A i \in 1..Len(s) : f[i] \in Seq(U)
<1> DEFINE n == Len(s)
           S == {i \in 1..n : f[i] \in Seq(U)}
<1>1. n \in Nat \ {0} /\ \A i \in 1..n : s[i] \in Seq(U)
  BY DEF Segments
<1>2. f[1] = s[1] /\ \A i \in 2..n : f[i] = f[i - 1] \o s[i]
  BY <1>1 DEF IsFlat
<1> HIDE DEF n
<1>3. 1 \in S
  BY <1>1, <1>2
<1>4. ASSUME NEW i \in 2..n, i - 1 \in S PROVE i \in S
  <2>1. f[i - 1] \in Seq(U) /\ s[i] \in Seq(U) /\ i \in 1..n
    BY <1>1, <1>4
  <2>2. f[i] \in Seq(U)
    BY <1>2, <2>1, ConcatProperties
  <2> QED BY <2>1, <2>2
<1> HIDE DEF S
<1>5. \A i \in 1+1..n : i - 1 \in S => i \in S
  BY <1>4
<1>6. 1..n \subseteq S
  BY <1>1, <1>3, <1>5, InductUpto
<1> QED BY <1>6 DEF S, n

\* Two sequences that agree from a segment on are flattened alike from there on,
\* if they are up to that segment.
LEMMA FlatAgrees ==
  ASSUME NEW n \in Nat \ {0}, NEW s, NEW t, Len(s) = n, Len(t) = n,
         NEW f, IsFlat(f, s), NEW g, IsFlat(g, t),
         NEW k \in 1..n, NEW m \in k..n, f[k] = g[k],
         \A i \in k+1..m : s[i] = t[i]
  PROVE  f[m] = g[m]
<1> DEFINE S == {i \in k..m : f[i] = g[i]}
<1>1. f[1] = s[1] /\ \A i \in 2..n : f[i] = f[i - 1] \o s[i]
  BY DEF IsFlat
<1>2. g[1] = t[1] /\ \A i \in 2..n : g[i] = g[i - 1] \o t[i]
  BY DEF IsFlat
<1>3. k \in S
  OBVIOUS
<1>4. ASSUME NEW i \in k+1..m, i - 1 \in S PROVE i \in S
  <2>1. i \in 2..n /\ i \in k..m
    OBVIOUS
  <2>2. f[i - 1] = g[i - 1] /\ s[i] = t[i]
    BY <1>4
  <2> QED BY <1>1, <1>2, <2>1, <2>2
<1>5. k \in Nat /\ m \in Nat /\ m \in k..m
  OBVIOUS
<1> HIDE DEF S
<1>6. k..m \subseteq S
  BY <1>3, <1>4, <1>5, InductUpto
<1> QED BY <1>5, <1>6 DEF S

\* Empty segments flatten to nothing.
LEMMA FlattenNothing ==
  ASSUME NEW s, Len(s) \in Nat \ {0}, \A i \in 1..Len(s) : s[i] = <<>>
  PROVE  FlattenSeq(s) = <<>>
<1>1. PICK f : IsFlat(f, s) /\ FlattenSeq(s) = f[Len(s)]
  BY FlattenIsFlat
<1> DEFINE S == {i \in 1..Len(s) : f[i] = <<>>}
<1>2. f[1] = s[1] /\ \A i \in 2..Len(s) : f[i] = f[i - 1] \o s[i]
  BY <1>1 DEF IsFlat
<1>3. 1 \in S
  BY <1>2
<1>4. ASSUME NEW i \in 1+1..Len(s), i - 1 \in S PROVE i \in S
  <2>1. i \in 2..Len(s) /\ i \in 1..Len(s)
    OBVIOUS
  <2>2. f[i] = <<>> \o <<>>
    BY <1>2, <1>4, <2>1
  <2>3. <<>> \o <<>> = <<>>
    OBVIOUS
  <2> QED BY <2>1, <2>2, <2>3
<1> HIDE DEF S
<1>5. 1..Len(s) \subseteq S
  BY <1>3, <1>4, InductUpto
<1> QED BY <1>1, <1>5 DEF S

\* What is appended to the last segment is appended to the flattened sequence.
LEMMA FlattenAppends ==
  ASSUME NEW U, NEW s, NEW t, Segments(s, U), Segments(t, U),
         NEW n \in Nat \ {0}, Len(s) = n, Len(t) = n,
         NEW x \in Seq(U),
         \A i \in 1..n-1 : t[i] = s[i], t[n] = s[n] \o x
  PROVE  FlattenSeq(t) = FlattenSeq(s) \o x
<1>1. s[n] \in Seq(U)
  BY DEF Segments
<1>2. PICK f : IsFlat(f, s) /\ FlattenSeq(s) = f[n]
  BY FlattenIsFlat
<1>3. PICK g : IsFlat(g, t) /\ FlattenSeq(t) = g[n]
  BY FlattenIsFlat
<1>4. f[1] = s[1] /\ \A i \in 2..n : f[i] = f[i - 1] \o s[i]
  BY <1>2 DEF IsFlat
<1>5. g[1] = t[1] /\ \A i \in 2..n : g[i] = g[i - 1] \o t[i]
  BY <1>3 DEF IsFlat
<1>6. CASE n = 1
  BY <1>2, <1>3, <1>4, <1>5, <1>6
<1>7. CASE n # 1
  <2>1. n \in 2..n /\ n - 1 \in 1..n /\ 1 \in 1..n /\ n - 1 \in 1..n-1
    BY <1>7
  <2>2. f[1] = g[1]
    BY <1>4, <1>5, <2>1
  <2>3. \A i \in 1+1..n-1 : s[i] = t[i]
    OBVIOUS
  <2>4. f[n - 1] = g[n - 1]
    BY <1>2, <1>3, <2>1, <2>2, <2>3, FlatAgrees
  <2>5. f[n - 1] \in Seq(U)
    BY <1>2, <2>1, FlatTyped
  <2>7. g[n] = f[n - 1] \o (s[n] \o x)
    BY <1>5, <2>1, <2>4
  <2>8. f[n] \o x = (f[n - 1] \o s[n]) \o x
    BY <1>4, <2>1
  <2>6. \A a, b \in Seq(U) : (a \o b) \o x = a \o (b \o x)
    BY ConcatAssociative
  <2> QED BY <1>1, <1>2, <1>3, <2>5, <2>6, <2>7, <2>8
<1> QED BY <1>6, <1>7

\* An empty segment changes places with the next one.
LEMMA FlattenMoves ==
  ASSUME NEW U, NEW s, NEW t, Segments(s, U), Segments(t, U),
         NEW n \in Nat \ {0}, Len(s) = n, Len(t) = n,
         NEW k \in 1..n-1, s[k] = <<>>, t[k + 1] = <<>>, t[k] = s[k + 1],
         \A i \in 1..n : i \notin {k, k + 1} => t[i] = s[i]
  PROVE  FlattenSeq(t) = FlattenSeq(s)
<1>1. s[k + 1] \in Seq(U)
  BY DEF Segments
<1>2. PICK f : IsFlat(f, s) /\ FlattenSeq(s) = f[n]
  BY FlattenIsFlat
<1>3. PICK g : IsFlat(g, t) /\ FlattenSeq(t) = g[n]
  BY FlattenIsFlat
<1>4. f[1] = s[1] /\ \A i \in 2..n : f[i] = f[i - 1] \o s[i]
  BY <1>2 DEF IsFlat
<1>5. g[1] = t[1] /\ \A i \in 2..n : g[i] = g[i - 1] \o t[i]
  BY <1>3 DEF IsFlat
<1>6. f[k + 1] = g[k + 1]
  <2>1. f[k + 1] = f[k] \o s[k + 1] /\ g[k + 1] = g[k] \o <<>>
    <3>1. k + 1 \in 2..n /\ (k + 1) - 1 = k
      OBVIOUS
    <3> QED BY <1>4, <1>5, <3>1
  <2>2. CASE k = 1
    <3>1. f[k] = <<>> /\ g[k] = s[k + 1]
      BY <1>4, <1>5, <2>2
    <3> QED BY <1>1, <2>1, <3>1, ConcatEmptySeq
  <2>3. CASE k # 1
    <3>1. k - 1 \in 1..n /\ k \in 2..n /\ 1 \in 1..n /\ k - 1 \in 1..k-1
      BY <2>3
    <3>2. \A i \in 1..k-1 : s[i] = t[i]
      OBVIOUS
    <3>3. f[1] = g[1]
      BY <1>4, <1>5, <3>1, <3>2
    <3>4. f[k - 1] = g[k - 1]
      BY <1>2, <1>3, <3>1, <3>2, <3>3, FlatAgrees
    <3>5. f[k - 1] \in Seq(U)
      BY <1>2, <3>1, FlatTyped
    <3>6. f[k] = f[k - 1] \o <<>> /\ g[k] = f[k - 1] \o s[k + 1]
      BY <1>4, <1>5, <3>1, <3>4
    <3>7. f[k] = f[k - 1]
      BY <3>5, <3>6, ConcatEmptySeq
    <3>8. g[k] \in Seq(U)
      BY <1>1, <3>5, <3>6, ConcatProperties
    <3>9. g[k + 1] = g[k]
      BY <2>1, <3>8, ConcatEmptySeq
    <3> QED BY <2>1, <3>6, <3>7, <3>9
  <2> QED BY <2>2, <2>3
<1>7. PICK q \in 1..n : q = k + 1
  OBVIOUS
<1>8. f[n] = g[n]
  <2>1. n \in q..n /\ f[q] = g[q] /\ \A i \in q+1..n : s[i] = t[i]
    BY <1>6, <1>7
  <2> QED BY <1>2, <1>3, <1>7, <2>1, FlatAgrees
<1> QED BY <1>2, <1>3, <1>8

\* Emptying the first segment removes the front of the flattened sequence.
LEMMA FlattenDrops ==
  ASSUME NEW U, NEW s, NEW t, Segments(s, U), Segments(t, U),
         NEW n \in Nat \ {0}, Len(s) = n, Len(t) = n,
         t[1] = <<>>, \A i \in 2..n : t[i] = s[i]
  PROVE  FlattenSeq(s) = s[1] \o FlattenSeq(t)
<1>1. PICK f : IsFlat(f, s) /\ FlattenSeq(s) = f[n]
  BY FlattenIsFlat
<1>2. PICK g : IsFlat(g, t) /\ FlattenSeq(t) = g[n]
  BY FlattenIsFlat
<1>3. f[1] = s[1] /\ \A i \in 2..n : f[i] = f[i - 1] \o s[i]
  BY <1>1 DEF IsFlat
<1>4. g[1] = t[1] /\ \A i \in 2..n : g[i] = g[i - 1] \o t[i]
  BY <1>2 DEF IsFlat
<1>5. \A i \in 1..n : g[i] \in Seq(U) /\ s[i] \in Seq(U)
  BY <1>2, FlatTyped DEF Segments
<1>6. PICK w \in Seq(U) : w = s[1]
  BY <1>5
<1>7. \A a, b \in Seq(U) : (w \o a) \o b = w \o (a \o b)
  BY ConcatAssociative
<1> DEFINE S == {i \in 1..n : f[i] = w \o g[i]}
<1>8. 1 \in S
  <2>1. 1 \in 1..n /\ w \o <<>> = w
    BY ConcatEmptySeq
  <2>2. f[1] = w \o g[1]
    BY <1>3, <1>4, <1>6, <2>1
  <2> QED BY <2>1, <2>2
<1>9. ASSUME NEW i \in 1+1..n, i - 1 \in S PROVE i \in S
  <2>1. i \in 2..n /\ i \in 1..n /\ i - 1 \in 1..n
    OBVIOUS
  <2>2. f[i] = (w \o g[i - 1]) \o s[i]
    BY <1>3, <1>9, <2>1
  <2>3. g[i] = g[i - 1] \o s[i]
    BY <1>4, <2>1
  <2>4. f[i] = w \o g[i]
    <3>1. PICK a \in Seq(U) : a = g[i - 1]
      BY <1>5, <2>1
    <3>2. PICK b \in Seq(U) : b = s[i]
      BY <1>5, <2>1
    <3>3. (w \o a) \o b = w \o (a \o b)
      BY <1>7
    <3> HIDE DEF S
    <3> QED BY <2>2, <2>3, <3>1, <3>2, <3>3
  <2> QED BY <2>1, <2>4
<1> HIDE DEF S
<1>10. 1..n \subseteq S
  BY <1>8, <1>9, InductUpto
<1>11. n \in S
  BY <1>10
<1> QED BY <1>1, <1>2, <1>6, <1>11 DEF S

\* The offsets of n segments in their concatenation z: every element has its place,
\* every place is that of such an element, and the segments follow one another.
Places(o, s, n, z) ==
    /\ \A k \in 1..n : \A p \in 1..Len(s[k]) :
          o[k] + p \in 1..Len(z) /\ z[o[k] + p] = s[k][p]
    /\ \A i \in 1..Len(z) : \E k \in 1..n : \E p \in 1..Len(s[k]) : i = o[k] + p
    /\ \A k, l \in 1..n : k < l => o[k] + Len(s[k]) <= o[l]

\* The segments have such offsets in the flattened sequence.
LEMMA FlattenPlaces ==
  ASSUME NEW U, NEW s, Segments(s, U), NEW n \in Nat \ {0}, Len(s) = n
  PROVE  \E o \in [1..n -> Nat] : Places(o, s, n, FlattenSeq(s))
<1>1. PICK f : IsFlat(f, s) /\ FlattenSeq(s) = f[n]
  BY FlattenIsFlat
<1>2. f[1] = s[1] /\ \A i \in 2..n : f[i] = f[i - 1] \o s[i]
  BY <1>1 DEF IsFlat
<1>3. \A i \in 1..n : f[i] \in Seq(U) /\ s[i] \in Seq(U)
  BY <1>1, FlatTyped DEF Segments
<1> DEFINE o == [k \in 1..n |-> IF k = 1 THEN 0 ELSE Len(f[k - 1])]
<1>4. o \in [1..n -> Nat]
  <2>1. ASSUME NEW k \in 1..n, k # 1 PROVE Len(f[k - 1]) \in Nat
    <3>1. k - 1 \in 1..n
      BY <2>1
    <3> QED BY <1>3, <3>1
  <2> QED BY <2>1
<1>5. o[1] = 0 /\ \A k \in 2..n : o[k] = Len(f[k - 1])
  <2>1. ASSUME NEW k \in 2..n PROVE k \in 1..n /\ k # 1
    OBVIOUS
  <2> QED BY <2>1
<1> HIDE DEF o
<1> DEFINE Inside(m) == \A k \in 1..m : \A p \in 1..Len(s[k]) :
                           o[k] + p \in 1..Len(f[m]) /\ f[m][o[k] + p] = s[k][p]
           Covered(m) == \A i \in 1..Len(f[m]) :
                           \E k \in 1..m : \E p \in 1..Len(s[k]) : i = o[k] + p
           Ends(m) == \A k \in 1..m : o[k] + Len(s[k]) <= Len(f[m])
           S == {m \in 1..n : Inside(m) /\ Covered(m) /\ Ends(m)}
<1>6. 1 \in S
  <2>1. Len(s[1]) \in Nat /\ f[1] = s[1] /\ o[1] = 0
    BY <1>2, <1>3, <1>5
  <2>2. \A p \in 1..Len(s[1]) : o[1] + p = p
    BY <2>1
  <2>3. 1..1 = {1}
    OBVIOUS
  <2>4. Inside(1) /\ Covered(1)
    BY <2>1, <2>2, <2>3
  <2>5. Ends(1)
    BY <2>1, <2>3
  <2> QED BY <2>4, <2>5
<1>7. ASSUME NEW m \in 1+1..n, m - 1 \in S PROVE m \in S
  <2>1. m \in 2..n /\ m \in 1..n /\ m - 1 \in 1..n
    OBVIOUS
  <2>2. PICK a \in Seq(U) : a = f[m - 1]
    BY <1>3, <2>1
  <2>3. PICK b \in Seq(U) : b = s[m]
    BY <1>3, <2>1
  <2>4. f[m] = a \o b /\ o[m] = Len(a)
    BY <1>2, <1>5, <2>1, <2>2, <2>3
  <2>5. Len(a) \in Nat /\ Len(b) \in Nat /\ Len(f[m]) = Len(a) + Len(b)
    BY <2>4
  <2>6. \A i \in 1..Len(a) + Len(b) : f[m][i] = IF i <= Len(a) THEN a[i] ELSE b[i - Len(a)]
    BY <2>4, ConcatProperties
  <2>7. /\ \A k \in 1..m-1 : \A p \in 1..Len(s[k]) :
              o[k] + p \in 1..Len(a) /\ a[o[k] + p] = s[k][p]
        /\ \A i \in 1..Len(a) :
              \E k \in 1..m-1 : \E p \in 1..Len(s[k]) : i = o[k] + p
        /\ \A k \in 1..m-1 : o[k] + Len(s[k]) <= Len(a)
    BY <1>7, <2>2
  <2> HIDE DEF S
  <2>8. Inside(m)
    <3> SUFFICES ASSUME NEW k \in 1..m, NEW p \in 1..Len(s[k])
                 PROVE  o[k] + p \in 1..Len(f[m]) /\ f[m][o[k] + p] = s[k][p]
      OBVIOUS
    <3>1. CASE k = m
      <4>1. p \in 1..Len(b) /\ o[k] + p = Len(a) + p /\ s[k][p] = b[p]
        BY <2>3, <2>4, <3>1
      <4>2. /\ Len(a) + p \in 1..Len(a) + Len(b)
            /\ ~(Len(a) + p <= Len(a)) /\ (Len(a) + p) - Len(a) = p
        BY <2>5, <4>1
      <4> QED BY <2>5, <2>6, <4>1, <4>2
    <3>2. CASE k # m
      <4>1. k \in 1..m-1
        BY <2>1, <3>2
      <4>2. o[k] + p \in 1..Len(a) /\ a[o[k] + p] = s[k][p]
        BY <2>7, <4>1
      <4>3. o[k] + p \in 1..Len(a) + Len(b) /\ o[k] + p <= Len(a)
        BY <2>5, <4>2
      <4> QED BY <2>5, <2>6, <4>2, <4>3
    <3> QED BY <3>1, <3>2
  <2>9. Covered(m)
    <3> SUFFICES ASSUME NEW i \in 1..Len(f[m])
                 PROVE  \E k \in 1..m : \E p \in 1..Len(s[k]) : i = o[k] + p
      OBVIOUS
    <3>1. CASE i <= Len(a)
      <4>1. i \in 1..Len(a)
        BY <2>5, <3>1
      <4>2. PICK k \in 1..m-1 : \E p \in 1..Len(s[k]) : i = o[k] + p
        BY <2>7, <4>1
      <4>3. k \in 1..m
        BY <2>1
      <4> QED BY <4>2, <4>3
    <3>2. CASE i > Len(a)
      <4>1. i - Len(a) \in 1..Len(b) /\ i = Len(a) + (i - Len(a))
        BY <2>5, <3>2
      <4>2. i - Len(a) \in 1..Len(s[m]) /\ i = o[m] + (i - Len(a)) /\ m \in 1..m
        BY <2>1, <2>3, <2>4, <4>1
      <4> QED BY <4>2
    <3> QED BY <2>5, <3>1, <3>2
  <2>10. Ends(m)
    <3> SUFFICES ASSUME NEW k \in 1..m PROVE o[k] + Len(s[k]) <= Len(f[m])
      OBVIOUS
    <3>1. CASE k = m
      BY <2>3, <2>4, <2>5, <3>1
    <3>2. CASE k # m
      <4>1. k \in 1..m-1 /\ k \in 1..n
        BY <2>1, <3>2
      <4>2. o[k] \in Nat /\ Len(s[k]) \in Nat /\ o[k] + Len(s[k]) <= Len(a)
        BY <1>3, <1>4, <2>7, <4>1
      <4> QED BY <2>5, <4>2
    <3> QED BY <3>1, <3>2
  <2> QED BY <2>1, <2>8, <2>9, <2>10 DEF S
<1>8. 1..n \subseteq S
  <2> HIDE DEF S
  <2> QED BY <1>6, <1>7, InductUpto
<1>9. n \in 1..n /\ n \in S
  <2> HIDE DEF S
  <2> QED BY <1>8
<1>10. \A k, l \in 1..n : k < l => o[k] + Len(s[k]) <= o[l]
  <2> SUFFICES ASSUME NEW k \in 1..n, NEW l \in 1..n, k < l
               PROVE  o[k] + Len(s[k]) <= o[l]
    OBVIOUS
  <2>1. l \in 2..n /\ l - 1 \in 1..n /\ k \in 1..l-1
    OBVIOUS
  <2>2. l - 1 \in S
    <3> HIDE DEF S
    <3> QED BY <1>8, <2>1
  <2>3. o[k] + Len(s[k]) <= Len(f[l - 1])
    BY <2>1, <2>2
  <2> QED BY <1>5, <2>1, <2>3
<1>11. Inside(n) /\ Covered(n)
  BY <1>9
<1>12. /\ \A k \in 1..n : \A p \in 1..Len(s[k]) :
             o[k] + p \in 1..Len(FlattenSeq(s)) /\ FlattenSeq(s)[o[k] + p] = s[k][p]
       /\ \A i \in 1..Len(FlattenSeq(s)) :
             \E k \in 1..n : \E p \in 1..Len(s[k]) : i = o[k] + p
  BY <1>1, <1>11
<1>13. Places(o, s, n, FlattenSeq(s))
  BY <1>10, <1>12 DEF Places
<1> QED BY <1>4, <1>13

-----------------------------------------------------------------------------
(* The inductive invariant.                                                *)

Labels == Calls \cup {"runtime.bootstrap"}

Verdicts == {"attempt", "success", "error"}

Units == [call : Labels, outcome : Verdicts, session : 1..MaxSessions,
          seq : Nat \ {0}, part : 1..EventSize]

FilesTyped ==
    /\ files \in [Slots -> Seq(Units)]
    /\ stage # "free" => event \in [call : Labels, outcome : Verdicts]

\* What the lock holder has done so far.
RecordSound ==
    /\ stage \in {"free", "unlinking", "shifting"} => put = 0
    /\ stage = "writing" => put < EventSize
    /\ stage = "syncing" => put = EventSize
    /\ stage = "shifting" => slot + 1 \in Slots /\ files[slot + 1] = <<>>

\* What is left of the event fits into the active file.
RoomLeft ==
    /\ SizeBounded
    /\ stage = "writing" => Len(files[0]) + (EventSize - put) <= MaxFile

\* The written part of the event is the end of the active file.
TailWritten ==
    /\ put <= Len(files[0])
    /\ \A k \in 1..put : files[0][Len(files[0]) - put + k] = Unit(k)

\* The event being recorded belongs to a call that waits for it.
OwnerWaits ==
    stage # "free" =>
        \A c \in Calls :
            event.call = c =>
                \/ pc[c] = "attempting" /\ event.outcome = "attempt"
                \/ pc[c] = "completing" /\ event.outcome = result[c] /\ c \notin Unlabelled

\* A call that got as far as its service has its effect and its outcome.
ProgressSound ==
    \A c \in Calls :
        /\ pc[c] \in {"running", "completing", "recorded"} /\ c \in Mutating => c \in effects
        /\ pc[c] \in {"completing", "recorded"} => result[c] \in {"success", "error"}

OutcomeKept == \A c \in Mutating : pc[c] = "recorded" => Kept(c, result[c])

\* A stored unit of an outcome is preceded by the whole attempt of its call, in
\* its own file or in an older one, if that has not been forgotten.
AttemptStoredBefore(c, i, p) ==
    \E j \in Slots : \E q \in DOMAIN files[j] :
        /\ j > i \/ (j = i /\ q < p)
        /\ WholeAt(files[j], q)
        /\ files[j][q].call = c /\ files[j][q].outcome = "attempt"

OutcomesOrdered ==
    \A c \in Mutating, i \in Slots : \A p \in DOMAIN files[i] :
        files[i][p].call = c /\ files[i][p].outcome # "attempt" =>
            \/ [call |-> c, outcome |-> "attempt"] \in forgotten
            \/ AttemptStoredBefore(c, i, p)

\* The last number on file is the one before the next, or the next one itself
\* when it was written and not acknowledged.
LastNumbered ==
    Retention # <<>> =>
        \/ /\ Last(Retention).session = session
           /\ sequence - Last(Retention).seq \in {-1, 0}
        \/ Last(Retention).session < session /\ sequence = 0

PartNumbered ==
    put > 0 => /\ Retention # <<>>
               /\ Last(Retention).session = session
               /\ Last(Retention).seq = sequence + 1

LogInv == FilesTyped /\ RecordSound /\ RoomLeft /\ TailWritten

GateInv == OwnerWaits /\ ProgressSound /\ EffectsKept /\ OutcomeKept /\ OutcomesOrdered

NumberInv == NumberedWithoutGap /\ LastNumbered /\ PartNumbered

-----------------------------------------------------------------------------
(* Steps                                                                   *)

\* Facts about the constants that the steps keep needing.
LEMMA SlotsBounds ==
  /\ Retained \in Nat \ {0} /\ EventSize \in Nat \ {0} /\ MaxFile \in Nat /\ EventSize <= MaxFile
  /\ 0 \in Slots /\ Retained - 1 \in Slots
  /\ \A i \in Slots : i \in Nat /\ i < Retained
  BY SizesAssumption DEF Slots

\* What a step does to the log.
LEMMA StepKinds ==
  ASSUME [Next]_vars, TypeOK, ProgressSound
  PROVE  \/ \E c \in Labels, o \in Verdicts : Begin(c, o)
         \/ Succeed \/ Fail \/ NewSession
         \/ Unlink \/ Shift \/ Write
         \/ UNCHANGED logVars
<1>1. CASE \E c \in Calls : ToolStep(c)
  <2> PICK c \in Calls : ToolStep(c)
    BY <1>1
  <2>1. CASE Attempt(c)
    BY <2>1 DEF Attempt, Labels, Verdicts
  <2>2. CASE Complete(c)
    BY <2>2 DEF Complete, ProgressSound, Labels, Verdicts
  <2>3. CASE ~Attempt(c) /\ ~Complete(c)
    BY <2>3 DEF ToolStep, AttemptRejected, AttemptFails, AttemptRecorded, ReadBegins,
                WorkEnds, WorkCancelled, CompleteRejected, CompleteFails, CompleteRecorded
  <2> QED BY <2>1, <2>2, <2>3
<1>2. CASE Boot
  BY <1>2 DEF Boot, BootEvent, Labels, Verdicts
<1>3. CASE BootRecorded
  BY <1>3 DEF BootRecorded
<1>4. CASE Crash
  BY <1>4 DEF Crash
<1>5. CASE Recording
  BY <1>5 DEF Recording
<1>6. CASE UNCHANGED vars
  BY <1>6 DEF vars
<1> QED BY <1>1, <1>2, <1>3, <1>4, <1>5, <1>6 DEF Next

\* The units of the event, and how a part of them is appended.
LEMMA UnitsTyped ==
  ASSUME TypeOK, FilesTyped, RecordSound, stage = "writing", NEW n \in 1..(EventSize - put)
  PROVE  /\ [k \in 1..n |-> Unit(put + k)] \in Seq(Units)
         /\ Len([k \in 1..n |-> Unit(put + k)]) = n
         /\ \A k \in 1..n : [i \in 1..n |-> Unit(put + i)][k] = Unit(put + k)
<1>1. put \in Nat /\ put < EventSize /\ EventSize \in Nat /\ n \in Nat
  BY SlotsBounds DEF TypeOK, RecordSound
<1>2. event \in [call : Labels, outcome : Verdicts] /\ session \in 1..MaxSessions /\ sequence \in Nat
  BY DEF FilesTyped, TypeOK
<1>3. ASSUME NEW k \in 1..n PROVE Unit(put + k) \in Units
  <2>1. put + k \in 1..EventSize
    BY <1>1
  <2>2. sequence + 1 \in Nat \ {0}
    BY <1>2
  <2> QED BY <1>2, <2>1, <2>2 DEF Unit, Units
<1> QED BY <1>1, <1>3

\* x is what Write appends.
Appends(x, n) ==
  /\ Len(x) = n /\ \A k \in 1..n : x[k] = Unit(put + k)
  /\ files' = [files EXCEPT ![0] = files[0] \o x]
  /\ files'[0] \in Seq(Units) /\ Len(files'[0]) = Len(files[0]) + n
  /\ \A i \in 1..Len(files[0]) : files'[0][i] = files[0][i]
  /\ \A k \in 1..n : files'[0][Len(files[0]) + k] = Unit(put + k)
  /\ \A i \in Slots : i # 0 => files'[i] = files[i]
  /\ put' = put + n

\* A write appends the next units of the event.
LEMMA WriteAppends ==
  ASSUME TypeOK, FilesTyped, RecordSound, Write
  PROVE  /\ stage = "writing" /\ stage' \in {"writing", "syncing"}
         /\ UNCHANGED <<event, sequence, session, forgotten>>
         /\ \E n \in 1..(EventSize - put), x \in Seq(Units) : Appends(x, n)
<1>1. PICK n \in 1..(EventSize - put) :
         /\ files' = [files EXCEPT ![0] = @ \o [k \in 1..n |-> Unit(put + k)]]
         /\ put' = put + n
  BY DEF Write
<1>2. stage = "writing" /\ n \in Nat
  BY SlotsBounds DEF Write, TypeOK
<1> DEFINE x == [k \in 1..n |-> Unit(put + k)]
<1>3. x \in Seq(Units) /\ Len(x) = n /\ \A k \in 1..n : x[k] = Unit(put + k)
  BY <1>2, UnitsTyped
<1>4. files' = [files EXCEPT ![0] = files[0] \o x]
  BY <1>1
<1> HIDE DEF x
<1>5. files'[0] = files[0] \o x /\ \A i \in Slots : i # 0 => files'[i] = files[i]
  BY <1>4, SlotsBounds DEF FilesTyped
<1>6. PICK a \in Seq(Units) : a = files[0]
  BY SlotsBounds DEF FilesTyped
<1>7. PICK b \in Seq(Units) : b = x
  BY <1>3
<1>8. /\ a \o b \in Seq(Units) /\ Len(a \o b) = Len(a) + Len(b)
      /\ \A i \in 1..Len(a) + Len(b) : (a \o b)[i] = IF i <= Len(a) THEN a[i] ELSE b[i - Len(a)]
  BY ConcatProperties
<1>9. Len(a) \in Nat /\ Len(b) = n
  BY <1>3, <1>7
<1>10. \A i \in 1..Len(a) : (a \o b)[i] = a[i]
  BY <1>2, <1>8, <1>9
<1>11. ASSUME NEW k \in 1..n PROVE (a \o b)[Len(a) + k] = b[k]
  <2>1. /\ Len(a) + k \in 1..Len(a) + n /\ ~(Len(a) + k <= Len(a))
        /\ (Len(a) + k) - Len(a) = k
    BY <1>2, <1>9
  <2> QED BY <1>8, <1>9, <2>1
<1>12. Appends(x, n)
  BY <1>1, <1>3, <1>4, <1>5, <1>6, <1>7, <1>8, <1>9, <1>10, <1>11 DEF Appends
<1>13. UNCHANGED <<event, sequence, session, forgotten>> /\ stage' \in {"writing", "syncing"}
  BY DEF Write
<1> QED BY <1>2, <1>3, <1>12, <1>13

\* A step keeps the types of files and event.
LEMMA FilesTypedStep ==
  ASSUME TypeOK, ProgressSound, FilesTyped, RecordSound, [Next]_vars
  PROVE  FilesTyped'
<1>1. CASE \E c \in Labels, o \in Verdicts : Begin(c, o)
  BY <1>1 DEF Begin, FilesTyped
<1>2. CASE Succeed \/ Fail \/ NewSession
  BY <1>2 DEF Succeed, Fail, NewSession, Release, FilesTyped
<1>3. CASE Unlink
  BY <1>3, SlotsBounds DEF Unlink, FilesTyped
<1>4. CASE Shift
  BY <1>4, SlotsBounds DEF Shift, FilesTyped, TypeOK, RecordSound
<1>5. CASE Write
  BY <1>5, WriteAppends, SlotsBounds DEF Appends, FilesTyped
<1>6. CASE UNCHANGED logVars
  BY <1>6 DEF logVars, FilesTyped
<1> QED BY <1>1, <1>2, <1>3, <1>4, <1>5, <1>6, StepKinds

\* A step of the lock holder is the next one of _record's order.
LEMMA RecordSoundStep ==
  ASSUME TypeOK, ProgressSound, FilesTyped, RecordSound, [Next]_vars
  PROVE  RecordSound'
<1>0. put \in 0..EventSize /\ slot \in Slots /\ EventSize \in Nat \ {0}
  BY SlotsBounds DEF TypeOK
<1>1. CASE \E c \in Labels, o \in Verdicts : Begin(c, o)
  BY <1>0, <1>1 DEF Begin, RecordSound
<1>2. CASE Succeed \/ Fail \/ NewSession
  BY <1>0, <1>2 DEF Succeed, Fail, NewSession, Release, RecordSound
<1>3. CASE Unlink
  <2>1. /\ put' = 0 /\ stage' \in {"writing", "shifting"}
        /\ stage' = "shifting" => Retained # 1 /\ slot' = Retained - 2
        /\ files' = [files EXCEPT ![Retained - 1] = <<>>]
    BY <1>3 DEF Unlink, RecordSound, ShiftOrder
  <2>2. stage' = "shifting" => slot' + 1 = Retained - 1 /\ Retained - 1 \in Slots
    BY <2>1, SlotsBounds
  <2>3. files'[Retained - 1] = <<>>
    BY <2>1, SlotsBounds DEF FilesTyped
  <2> QED BY <1>0, <2>1, <2>2, <2>3 DEF RecordSound
<1>4. CASE Shift
  <2>1. /\ put' = 0 /\ stage' \in {"writing", "shifting"}
        /\ stage' = "shifting" => slot' + 1 = slot
    BY <1>0, <1>4, SlotsBounds DEF Shift, RecordSound, ShiftOrder
  <2>2. files'[slot] = <<>>
    BY <1>0, <1>4, SlotsBounds DEF Shift, FilesTyped, RecordSound
  <2> QED BY <1>0, <2>1, <2>2 DEF RecordSound
<1>5. CASE Write
  BY <1>0, <1>5 DEF Write, RecordSound
<1>6. CASE UNCHANGED logVars
  BY <1>6 DEF logVars, RecordSound
<1> QED BY <1>1, <1>2, <1>3, <1>4, <1>5, <1>6, StepKinds

\* Rotation makes the room that the rest of an event needs before its first write.
LEMMA RoomLeftStep ==
  ASSUME TypeOK, ProgressSound, FilesTyped, RecordSound, RoomLeft, [Next]_vars
  PROVE  RoomLeft'
<1>0. /\ put \in 0..EventSize /\ slot \in Slots /\ EventSize \in Nat \ {0}
      /\ MaxFile \in Nat /\ EventSize <= MaxFile
  BY SlotsBounds DEF TypeOK
<1>00. \A i \in Slots : files[i] \in Seq(Units) /\ Len(files[i]) \in Nat /\ Len(files[i]) <= MaxFile
  BY DEF FilesTyped, RoomLeft, SizeBounded
<1>1. CASE \E c \in Labels, o \in Verdicts : Begin(c, o)
  <2>1. files' = files /\ put' = 0 /\ (stage' = "writing" => Len(files[0]) + EventSize <= MaxFile)
    BY <1>1 DEF Begin, Fits
  <2>2. stage' = "writing" => Len(files'[0]) + (EventSize - put') <= MaxFile
    BY <1>0, <2>1
  <2> QED BY <2>1, <2>2 DEF RoomLeft, SizeBounded
<1>2. CASE Succeed \/ Fail \/ NewSession
  BY <1>2 DEF Succeed, Fail, NewSession, Release, RoomLeft, SizeBounded
<1>3. CASE Unlink
  <2>1. /\ files' = [files EXCEPT ![Retained - 1] = <<>>] /\ put' = put /\ put = 0
        /\ stage' = "writing" => Retained = 1
    BY <1>3 DEF Unlink, RecordSound
  <2>2. SizeBounded'
    BY <1>0, <1>00, <2>1 DEF SizeBounded, FilesTyped
  <2>3. stage' = "writing" => files'[0] = <<>>
    BY <2>1, SlotsBounds DEF FilesTyped
  <2>4. stage' = "writing" => Len(files'[0]) + (EventSize - put') <= MaxFile
    BY <1>0, <2>1, <2>3
  <2> QED BY <2>2, <2>4 DEF RoomLeft
<1>4. CASE Shift
  <2>1. /\ \A i \in Slots : files'[i] \in {<<>>, files[slot], files[i]}
        /\ files'[slot] = <<>> /\ put' = put /\ put = 0
        /\ stage' = "writing" => slot = 0
    BY <1>0, <1>4, SlotsBounds DEF Shift, FilesTyped, RecordSound, ShiftOrder
  <2>2. SizeBounded'
    <3> SUFFICES ASSUME NEW i \in Slots PROVE Len(files'[i]) <= MaxFile
      BY DEF SizeBounded
    <3>1. CASE files'[i] = <<>>
      BY <1>0, <3>1
    <3>2. CASE files'[i] \in {files[slot], files[i]}
      BY <1>0, <1>00, <3>2
    <3> QED BY <2>1, <3>1, <3>2
  <2>3. stage' = "writing" => Len(files'[0]) + (EventSize - put') <= MaxFile
    BY <1>0, <2>1
  <2> QED BY <2>2, <2>3 DEF RoomLeft
<1>5. CASE Write
  <2>1. PICK n \in 1..(EventSize - put), x \in Seq(Units) : Appends(x, n)
    BY <1>5, WriteAppends
  <2>2. stage = "writing" /\ n \in Nat
    BY <1>0, <1>5, <2>1 DEF Write
  <2>3. Len(files[0]) + (EventSize - put) <= MaxFile /\ Len(files[0]) \in Nat
    BY <1>00, <2>2, SlotsBounds DEF RoomLeft
  <2>4. Len(files'[0]) <= MaxFile /\ Len(files'[0]) + (EventSize - put') <= MaxFile
    BY <1>0, <2>1, <2>2, <2>3 DEF Appends
  <2> QED BY <1>00, <2>1, <2>4 DEF Appends, RoomLeft, SizeBounded
<1>6. CASE UNCHANGED logVars
  BY <1>6 DEF logVars, RoomLeft, SizeBounded
<1> QED BY <1>1, <1>2, <1>3, <1>4, <1>5, <1>6, StepKinds

\* Nothing moves the part of the event that is already written.
LEMMA TailWrittenStep ==
  ASSUME TypeOK, ProgressSound, FilesTyped, RecordSound, TailWritten, [Next]_vars
  PROVE  TailWritten'
<1>0. /\ put \in 0..EventSize /\ EventSize \in Nat \ {0}
      /\ files[0] \in Seq(Units) /\ Len(files[0]) \in Nat
  BY SlotsBounds DEF TypeOK, FilesTyped
<1>1. ASSUME put' = 0, files'[0] \in Seq(Units) PROVE TailWritten'
  BY <1>1 DEF TailWritten
<1>2. FilesTyped'
  BY FilesTypedStep
<1>3. files'[0] \in Seq(Units)
  BY <1>2, SlotsBounds DEF FilesTyped
<1>4. CASE \E c \in Labels, o \in Verdicts : Begin(c, o)
  BY <1>1, <1>3, <1>4 DEF Begin
<1>5. CASE Succeed \/ Fail \/ NewSession
  BY <1>1, <1>3, <1>5 DEF Succeed, Fail, NewSession, Release
<1>6. CASE Unlink \/ Shift
  BY <1>1, <1>3, <1>6 DEF Unlink, Shift, RecordSound
<1>7. CASE Write
  <2>1. PICK n \in 1..(EventSize - put), x \in Seq(Units) : Appends(x, n)
    BY <1>7, WriteAppends
  <2>2. n \in Nat
    BY <1>0, <2>1
  <2>3. \A k : Unit(k)' = Unit(k)
    BY <1>7 DEF Write, Unit
  <2>4. put <= Len(files[0]) /\ \A k \in 1..put : files[0][Len(files[0]) - put + k] = Unit(k)
    BY DEF TailWritten
  <2>5. put' = put + n /\ Len(files'[0]) = Len(files[0]) + n
    BY <2>1 DEF Appends
  <2>6. ASSUME NEW k \in 1..put'
        PROVE  files'[0][Len(files'[0]) - put' + k] = Unit(k)
    <3>1. Len(files'[0]) - put' + k = Len(files[0]) - put + k
      BY <1>0, <2>2, <2>5
    <3>2. CASE k <= put
      <4>1. Len(files[0]) - put + k \in 1..Len(files[0]) /\ k \in 1..put
        BY <1>0, <2>4, <3>2
      <4> QED BY <2>1, <2>4, <3>1, <4>1 DEF Appends
    <3>3. CASE k > put
      <4>1. PICK i \in 1..n : k = put + i /\ i \in Nat
        <5>1. k - put \in 1..n /\ k = put + (k - put) /\ k - put \in Nat
          BY <1>0, <2>2, <2>5, <3>3
        <5> QED BY <5>1
      <4>2. Len(files[0]) - put + (put + i) = Len(files[0]) + i
        <5>1. put \in Int /\ i \in Int /\ Len(files[0]) \in Int
          BY <1>0, <4>1
        <5>2. \A a, b, d \in Int : a - b + (b + d) = a + d
          OBVIOUS
        <5> QED BY <5>1, <5>2
      <4> QED BY <2>1, <3>1, <4>1, <4>2 DEF Appends
    <3>4. k <= put \/ k > put
      BY <1>0, <2>2, <2>5
    <3> QED BY <3>2, <3>3, <3>4
  <2>7. put' <= Len(files'[0])
    BY <1>0, <2>2, <2>4, <2>5
  <2> QED BY <2>3, <2>6, <2>7 DEF TailWritten
<1>8. CASE UNCHANGED logVars
  BY <1>8 DEF logVars, TailWritten, Unit
<1> QED BY <1>4, <1>5, <1>6, <1>7, <1>8, StepKinds

-----------------------------------------------------------------------------
(* What is stored stays stored.                                            *)

\* An event is stored in a file that holds a whole copy of it.
LEMMA StoredIs ==
  \A f, e : e \in Stored(f) <=>
     \E q \in DOMAIN f : WholeAt(f, q) /\ e = [call |-> f[q].call, outcome |-> f[q].outcome]
  BY DEF Stored, EventsAt

\* An event is kept if some file stores it, or rotation has removed it.
LEMMA KeptIs ==
  \A c, o : Kept(c, o) <=> \/ [call |-> c, outcome |-> o] \in forgotten
                           \/ \E i \in Slots : [call |-> c, outcome |-> o] \in Stored(files[i])
  BY DEF Kept

\* An event that is whole in the active file stays so where it is.
LEMMA WholeStays ==
  ASSUME TypeOK, FilesTyped, RecordSound, Write, NEW q \in DOMAIN files[0], WholeAt(files[0], q)
  PROVE  q \in DOMAIN files'[0] /\ files'[0][q] = files[0][q] /\ WholeAt(files'[0], q)
<1>1. PICK n \in 1..(EventSize - put), x \in Seq(Units) : Appends(x, n)
  BY WriteAppends
<1>2. /\ EventSize \in Nat \ {0} /\ n \in Nat /\ put \in Nat
      /\ files[0] \in Seq(Units) /\ Len(files[0]) \in Nat
  BY <1>1, SlotsBounds DEF TypeOK, FilesTyped
<1>3. DOMAIN files[0] = 1..Len(files[0]) /\ DOMAIN files'[0] = 1..Len(files'[0])
  BY <1>1, <1>2 DEF Appends
<1>4. Len(files'[0]) = Len(files[0]) + n /\ \A i \in 1..Len(files[0]) : files'[0][i] = files[0][i]
  BY <1>1 DEF Appends
<1>5. q \in Nat /\ 1 <= q /\ q + EventSize - 1 <= Len(files[0])
  BY <1>2, <1>3 DEF WholeAt
<1>6. q \in DOMAIN files'[0] /\ q + EventSize - 1 <= Len(files'[0])
  BY <1>2, <1>3, <1>4, <1>5
<1>7. ASSUME NEW k \in 0..EventSize-1 PROVE q + k \in 1..Len(files[0])
  BY <1>2, <1>5
<1>8. \A k \in 0..EventSize-1 : files'[0][q + k] = [files'[0][q] EXCEPT !.part = k + 1]
  BY <1>3, <1>4, <1>7 DEF WholeAt
<1> QED BY <1>3, <1>4, <1>6, <1>8 DEF WholeAt

\* What is kept stays so: files only grow at their end, move, or are forgotten.
LEMMA KeptStays ==
  ASSUME TypeOK, ProgressSound, FilesTyped, RecordSound, [Next]_vars, NEW c, NEW o, Kept(c, o)
  PROVE  Kept(c, o)'
<1> DEFINE e == [call |-> c, outcome |-> o]
<1>1. CASE e \in forgotten
  <2>1. forgotten \subseteq forgotten'
    BY StepKinds DEF Begin, Succeed, Fail, NewSession, Unlink, Shift, Write, logVars
  <2> QED BY <1>1, <2>1 DEF Kept
<1>2. CASE e \notin forgotten
  <2>1. PICK i \in Slots : e \in Stored(files[i])
    BY <1>2, KeptIs
  <2>2. \A j \in Slots : e \in Stored(files'[j]) => Kept(c, o)'
    BY DEF Kept
  <2>3. Stored(files[i]) # {} => files[i] # <<>>
    <3>1. Stored(<<>>) = {}
      BY StoredIs
    <3> QED BY <3>1
  <2> HIDE DEF e
  <2>4. CASE files' = files
    BY <2>1, <2>2, <2>4
  <2>5. CASE Unlink
    <3>1. files' = [files EXCEPT ![Retained - 1] = <<>>] /\ forgotten' = forgotten \cup Stored(files[Retained - 1])
      BY <2>5 DEF Unlink
    <3>2. CASE i = Retained - 1
      <4>1. e \in forgotten'
        BY <2>1, <3>1, <3>2
      <4> QED BY <4>1 DEF Kept, e
    <3>3. CASE i # Retained - 1
      <4>1. files'[i] = files[i]
        BY <3>1, <3>3, SlotsBounds DEF FilesTyped
      <4> QED BY <2>1, <2>2, <4>1
    <3> QED BY <3>2, <3>3
  <2>6. CASE Shift /\ files' # files
    <3>1. /\ files' = [files EXCEPT ![slot + 1] = files[slot], ![slot] = <<>>]
          /\ slot \in Slots /\ slot + 1 \in Slots /\ files[slot + 1] = <<>>
      BY <2>6 DEF Shift, RecordSound, TypeOK
    <3>2. CASE i = slot
      <4>1. files'[slot + 1] = files[slot]
        BY <3>1, SlotsBounds DEF FilesTyped
      <4> QED BY <2>1, <2>2, <3>1, <3>2, <4>1
    <3>3. CASE i # slot
      <4>1. i # slot + 1
        BY <2>1, <2>3, <3>1
      <4>2. files'[i] = files[i]
        BY <3>1, <3>3, <4>1 DEF FilesTyped
      <4> QED BY <2>1, <2>2, <4>2
    <3> QED BY <3>2, <3>3
  <2>7. CASE Write
    <3>1. CASE i = 0
      <4>1. PICK q \in DOMAIN files[0] :
               WholeAt(files[0], q) /\ e = [call |-> files[0][q].call, outcome |-> files[0][q].outcome]
        BY <2>1, <3>1, StoredIs
      <4>2. q \in DOMAIN files'[0] /\ files'[0][q] = files[0][q] /\ WholeAt(files'[0], q)
        BY <2>7, <4>1, WholeStays
      <4>3. e \in Stored(files'[0])
        BY <4>1, <4>2, StoredIs
      <4> QED BY <2>2, <4>3, SlotsBounds
    <3>2. CASE i # 0
      <4>1. files'[i] = files[i]
        BY <2>7, <3>2, WriteAppends DEF Appends
      <4> QED BY <2>1, <2>2, <4>1
    <3> QED BY <3>1, <3>2
  <2> QED BY <2>4, <2>5, <2>6, <2>7, StepKinds
          DEF Begin, Succeed, Fail, NewSession, logVars
<1> QED BY <1>1, <1>2

\* An event that waits for its fsync is stored whole, at the end of the active file.
LEMMA JustStored ==
  ASSUME TypeOK, FilesTyped, RecordSound, TailWritten, stage = "syncing"
  PROVE  Kept(event.call, event.outcome)
<1> DEFINE q == Len(files[0]) - EventSize + 1
<1>1. /\ EventSize \in Nat \ {0} /\ put = EventSize
      /\ files[0] \in Seq(Units) /\ Len(files[0]) \in Nat /\ DOMAIN files[0] = 1..Len(files[0])
  BY SlotsBounds DEF RecordSound, FilesTyped
<1>2. put <= Len(files[0]) /\ \A k \in 1..put : files[0][Len(files[0]) - put + k] = Unit(k)
  BY DEF TailWritten
<1>3. q \in 1..Len(files[0]) /\ q + EventSize - 1 <= Len(files[0])
  BY <1>1, <1>2
<1>4. ASSUME NEW k \in 0..EventSize-1
      PROVE  files[0][q + k] = Unit(k + 1)
  <2>1. k + 1 \in 1..put /\ k \in Nat
    BY <1>1
  <2>2. \A l \in Nat : l - put + (k + 1) = (l - EventSize + 1) + k
    BY <1>1, <2>1
  <2>3. Len(files[0]) - put + (k + 1) = q + k
    BY <1>1, <2>2
  <2> QED BY <1>2, <2>1, <2>3
<1>5. files[0][q] = Unit(1)
  <2>1. 0 \in 0..EventSize-1 /\ q + 0 = q /\ 0 + 1 = 1
    BY <1>1, <1>3
  <2> HIDE DEF q
  <2> QED BY <1>4, <2>1
<1>6. \A k \in 0..EventSize-1 : Unit(k + 1) = [Unit(1) EXCEPT !.part = k + 1]
  BY DEF Unit
<1> HIDE DEF q
<1>7. WholeAt(files[0], q)
  BY <1>3, <1>4, <1>5, <1>6 DEF WholeAt
<1>8. files[0][q].call = event.call /\ files[0][q].outcome = event.outcome
  BY <1>5 DEF Unit
<1>9. [call |-> event.call, outcome |-> event.outcome] \in Stored(files[0])
  BY <1>1, <1>3, <1>7, <1>8, StoredIs
<1> QED BY <1>9, SlotsBounds, KeptIs

-----------------------------------------------------------------------------
(* The gate.                                                               *)

\* A step keeps every variable in its type.
LEMMA TypeStep ==
  ASSUME TypeOK, ProgressSound, RecordSound, [Next]_vars
  PROVE  TypeOK'
<1> DEFINE LogPart == /\ stage \in Stages
                      /\ slot \in Slots /\ put \in 0..EventSize
                      /\ sequence \in Nat /\ session \in 1..MaxSessions /\ healthy \in BOOLEAN
                      /\ stage = "free" <=> event = NoEvent
           CallPart == /\ pc \in [Calls -> PcStates]
                       /\ result \in [Calls -> {"none", "success", "error"}]
                       /\ effects \subseteq Calls
                       /\ runtime \in {"down", "starting", "recovering", "finishing", "serving"}
<1>0. LogPart /\ CallPart
  BY DEF TypeOK
<1>1. LogPart'
  <2> HIDE DEF CallPart
  <2>0. put \in Nat /\ EventSize \in Nat \ {0} /\ 0 \in Slots /\ sequence + 1 \in Nat
    BY <1>0, SlotsBounds
  <2>1. CASE \E c \in Labels, o \in Verdicts : Begin(c, o)
    BY <1>0, <2>0, <2>1 DEF Begin, Verdicts, NoEvent, Stages
  <2>2. CASE Succeed \/ Fail
    <3>1. CASE Succeed
      BY <1>0, <2>0, <3>1 DEF Succeed, Release, Stages
    <3>2. CASE Fail
      <4>1. healthy' \in BOOLEAN
        BY <3>2 DEF Fail
      <4>2. /\ stage' = "free" /\ event' = NoEvent /\ slot' = 0 /\ put' = 0
            /\ sequence' = sequence /\ session' = session
        BY <3>2 DEF Fail, Release
      <4> QED BY <1>0, <2>0, <4>1, <4>2 DEF Stages
    <3> QED BY <2>2, <3>1, <3>2
  <2>3. CASE NewSession
    <3>1. session + 1 \in 1..MaxSessions
      BY <1>0, <2>3, SizesAssumption DEF NewSession
    <3> QED BY <1>0, <2>0, <2>3, <3>1 DEF NewSession, Release, Stages
  <2>4. CASE Unlink
    <3>1. Retained # 1 => Retained - 2 \in Slots
      BY SizesAssumption DEF Slots
    <3> QED BY <1>0, <2>0, <2>4, <3>1 DEF Unlink, ShiftOrder, Stages
  <2>5. CASE Shift
    <3>1. slot # 0 => slot + (-1) \in Slots
      BY <1>0, SizesAssumption DEF Slots
    <3> QED BY <1>0, <2>0, <2>5, <3>1 DEF Shift, ShiftOrder, Stages
  <2>6. CASE Write
    <3>1. PICK n \in 1..(EventSize - put) :
             put' = put + n /\ stage' = IF put + n = EventSize THEN "syncing" ELSE "writing"
      BY <2>6 DEF Write
    <3>2. put + n \in 0..EventSize
      BY <2>0
    <3> QED BY <1>0, <2>6, <3>1, <3>2 DEF Write, Stages
  <2>7. CASE UNCHANGED logVars
    BY <1>0, <2>7 DEF logVars
  <2> QED BY <2>1, <2>2, <2>3, <2>4, <2>5, <2>6, <2>7, StepKinds
<1>2. CallPart'
  <2> HIDE DEF LogPart
  <2>1. CASE \E c \in Calls : ToolStep(c)
    BY <1>0, <2>1 DEF ToolStep, Attempt, AttemptRejected, AttemptFails, AttemptRecorded,
                      ReadBegins, WorkEnds, WorkCancelled, Complete, CompleteRejected,
                      CompleteFails, CompleteRecorded, PcStates
  <2>2. CASE Boot \/ BootRecorded
    BY <1>0, <2>2 DEF Boot, BootEvent, BootRecorded
  <2>3. CASE Crash
    BY <1>0, <2>3 DEF Crash, PcStates
  <2>4. CASE Recording
    BY <1>0, <2>4 DEF Recording
  <2>5. CASE UNCHANGED vars
    BY <1>0, <2>5 DEF vars
  <2> QED BY <2>1, <2>2, <2>3, <2>4, <2>5 DEF Next
<1> QED BY <1>1, <1>2 DEF TypeOK

\* While an event is recorded, only the call it belongs to or the end of the
\* process ends the wait.
LEMMA OwnerWaitsStep ==
  ASSUME TypeOK, ProgressSound, OwnerWaits, [Next]_vars
  PROVE  OwnerWaits'
<1>1. CASE \E c \in Calls : ToolStep(c)
  <2> PICK c \in Calls : ToolStep(c)
    BY <1>1
  <2>1. CASE Attempt(c)
    BY <2>1 DEF Attempt, Begin, OwnerWaits, TypeOK
  <2>2. CASE Complete(c)
    BY <2>2 DEF Complete, Begin, OwnerWaits, TypeOK
  <2>3. CASE AttemptFails(c) \/ AttemptRecorded(c) \/ CompleteFails(c) \/ CompleteRecorded(c)
    BY <2>3 DEF AttemptFails, AttemptRecorded, CompleteFails, CompleteRecorded,
                Succeed, Fail, Release, OwnerWaits
  <2>4. CASE AttemptRejected(c) \/ ReadBegins(c) \/ WorkEnds(c) \/ WorkCancelled(c) \/ CompleteRejected(c)
    <3>1. stage' = stage /\ event' = event
      BY <2>4 DEF AttemptRejected, ReadBegins, WorkEnds, WorkCancelled, CompleteRejected, logVars
    <3>2. \A d \in Calls : d # c => pc'[d] = pc[d] /\ result'[d] = result[d]
      BY <2>4 DEF AttemptRejected, ReadBegins, WorkEnds, WorkCancelled, CompleteRejected, TypeOK
    <3>3. pc[c] \notin {"attempting", "completing"} \/ (pc[c] = "completing" /\ c \in Unlabelled)
      <4>1. CASE AttemptRejected(c) \/ ReadBegins(c)
        BY <4>1 DEF AttemptRejected, ReadBegins, Begins
      <4>2. CASE WorkEnds(c) \/ WorkCancelled(c)
        BY <4>2 DEF WorkEnds, WorkCancelled
      <4>3. CASE CompleteRejected(c)
        BY <4>3 DEF CompleteRejected
      <4> QED BY <2>4, <4>1, <4>2, <4>3
    <3>4. stage # "free" => event.call # c
      BY <3>3 DEF OwnerWaits
    <3> QED BY <3>1, <3>2, <3>4 DEF OwnerWaits
  <2> QED BY <2>1, <2>2, <2>3, <2>4 DEF ToolStep
<1>2. CASE Boot
  BY <1>2, CallsAssumption DEF Boot, BootEvent, Begin, OwnerWaits
<1>3. CASE BootRecorded \/ Crash
  BY <1>3 DEF BootRecorded, Crash, Succeed, NewSession, Release, OwnerWaits
<1>4. CASE Recording
  <2>1. stage # "free" /\ event' = event /\ pc' = pc /\ result' = result
    BY <1>4 DEF Recording, Unlink, Shift, Write
  <2> QED BY <2>1 DEF OwnerWaits
<1>5. CASE UNCHANGED vars
  BY <1>5 DEF vars, logVars, OwnerWaits
<1> QED BY <1>1, <1>2, <1>3, <1>4, <1>5 DEF Next

\* A call reaches its service only with its effect counted.
LEMMA ProgressSoundStep ==
  ASSUME TypeOK, ProgressSound, [Next]_vars
  PROVE  ProgressSound'
<1>1. CASE \E c \in Calls : ToolStep(c)
  <2> PICK c \in Calls : ToolStep(c)
    BY <1>1
  <2>1. CASE AttemptRecorded(c)
    BY <2>1 DEF AttemptRecorded, ProgressSound, TypeOK
  <2>2. CASE ReadBegins(c)
    BY <2>2, CallsAssumption DEF ReadBegins, ProgressSound, TypeOK
  <2>3. CASE WorkEnds(c)
    BY <2>3 DEF WorkEnds, ProgressSound, TypeOK
  <2>4. CASE Complete(c)
    BY <2>4 DEF Complete, ProgressSound
  <2>5. CASE CompleteRecorded(c)
    BY <2>5 DEF CompleteRecorded, ProgressSound, TypeOK
  <2>6. CASE Attempt(c) \/ AttemptRejected(c) \/ AttemptFails(c) \/ WorkCancelled(c)
             \/ CompleteRejected(c) \/ CompleteFails(c)
    BY <2>6 DEF Attempt, AttemptRejected, AttemptFails, WorkCancelled, CompleteRejected,
                CompleteFails, ProgressSound, TypeOK
  <2> QED BY <2>1, <2>2, <2>3, <2>4, <2>5, <2>6 DEF ToolStep
<1>2. CASE Boot \/ BootRecorded
  BY <1>2 DEF Boot, BootEvent, BootRecorded, ProgressSound
<1>3. CASE Crash
  BY <1>3 DEF Crash, ProgressSound, TypeOK
<1>4. CASE Recording
  BY <1>4 DEF Recording, ProgressSound
<1>5. CASE UNCHANGED vars
  BY <1>5 DEF vars, ProgressSound
<1> QED BY <1>1, <1>2, <1>3, <1>4, <1>5 DEF Next

\* An effect begins only when the attempt of its call has just been stored.
LEMMA EffectsKeptStep ==
  ASSUME TypeOK, LogInv, GateInv, [Next]_vars
  PROVE  EffectsKept'
<1> SUFFICES ASSUME NEW c \in effects' PROVE Kept(c, "attempt")'
  BY DEF EffectsKept
<1>1. CASE c \in effects
  BY <1>1, KeptStays DEF EffectsKept, GateInv, LogInv
<1>2. CASE c \notin effects
  <2>1. c \in Calls /\ AttemptRecorded(c)
    BY <1>2 DEF Next, ToolStep, Attempt, AttemptRejected, AttemptFails, AttemptRecorded,
                ReadBegins, WorkEnds, WorkCancelled, Complete, CompleteRejected,
                CompleteFails, CompleteRecorded, Boot, BootEvent, BootRecorded, Crash,
                Recording, vars
  <2>2. stage = "syncing" /\ pc[c] = "attempting" /\ event.call = c
    BY <2>1 DEF AttemptRecorded, Succeed
  <2>3. event.outcome = "attempt"
    BY <2>1, <2>2 DEF OwnerWaits, GateInv
  <2>4. Kept(c, "attempt")
    BY <2>2, <2>3, JustStored DEF LogInv
  <2> QED BY <2>4, KeptStays DEF GateInv, LogInv
<1> QED BY <1>1, <1>2

\* An outcome counts as recorded only when it has just been stored.
LEMMA OutcomeKeptStep ==
  ASSUME TypeOK, LogInv, GateInv, [Next]_vars
  PROVE  OutcomeKept'
<1> SUFFICES ASSUME NEW c \in Mutating, pc'[c] = "recorded" PROVE Kept(c, result[c])'
  BY DEF OutcomeKept
<1>0. c \in Calls
  BY DEF Calls
<1> PICK o : o = result[c]
  OBVIOUS
<1>1. CASE pc[c] = "recorded"
  <2>1. result'[c] = result[c]
    BY <1>0, <1>1 DEF Next, ToolStep, Attempt, AttemptRejected, AttemptFails, AttemptRecorded,
                ReadBegins, WorkEnds, WorkCancelled, Complete, CompleteRejected,
                CompleteFails, CompleteRecorded, Boot, BootEvent, BootRecorded, Crash,
                Recording, vars, TypeOK
  <2>2. Kept(c, o)
    BY <1>1 DEF OutcomeKept, GateInv
  <2>3. Kept(c, o)'
    BY <2>2, KeptStays DEF GateInv, LogInv
  <2> QED BY <2>1, <2>3
<1>2. CASE pc[c] # "recorded"
  <2>1. CompleteRecorded(c)
    BY <1>0, <1>2 DEF Next, ToolStep, Attempt, AttemptRejected, AttemptFails, AttemptRecorded,
                ReadBegins, WorkEnds, WorkCancelled, Complete, CompleteRejected,
                CompleteFails, CompleteRecorded, Boot, BootEvent, BootRecorded, Crash,
                Recording, vars, TypeOK
  <2>2. stage = "syncing" /\ pc[c] = "completing" /\ event.call = c /\ result' = result
    BY <2>1 DEF CompleteRecorded, Succeed
  <2>3. event.outcome = result[c]
    BY <1>0, <2>2 DEF OwnerWaits, GateInv
  <2>4. Kept(c, o)
    BY <2>2, <2>3, JustStored DEF LogInv
  <2>5. Kept(c, o)'
    BY <2>4, KeptStays DEF GateInv, LogInv
  <2> QED BY <2>2, <2>5
<1> QED BY <1>1, <1>2

\* An outcome follows its attempt: the attempt was stored before, and rotation
\* keeps the order in which things were stored.
LEMMA OutcomesOrderedStep ==
  ASSUME TypeOK, LogInv, GateInv, [Next]_vars
  PROVE  OutcomesOrdered'
<1> SUFFICES ASSUME NEW c \in Mutating, NEW i \in Slots, NEW p \in DOMAIN files'[i],
                    files'[i][p].call = c, files'[i][p].outcome # "attempt",
                    [call |-> c, outcome |-> "attempt"] \notin forgotten'
             PROVE  AttemptStoredBefore(c, i, p)'
  BY DEF OutcomesOrdered
<1>0. /\ FilesTyped /\ RecordSound /\ TailWritten /\ c \in Calls
      /\ forgotten \subseteq forgotten'
      /\ [call |-> c, outcome |-> "attempt"] \notin forgotten
  <2>1. forgotten \subseteq forgotten'
    BY StepKinds DEF GateInv, Begin, Succeed, Fail, NewSession, Unlink, Shift, Write, logVars
  <2> QED BY <2>1 DEF LogInv, Calls
<1>1. \A j \in Slots : \A q \in DOMAIN files[j] :
         files[j][q].call = c /\ files[j][q].outcome # "attempt" => AttemptStoredBefore(c, j, q)
  BY <1>0 DEF GateInv, OutcomesOrdered
<1> DEFINE IsAttempt(f, q) == WholeAt(f, q) /\ f[q].call = c /\ f[q].outcome = "attempt"
<1>2. \A j \in Slots : \A q \in DOMAIN files'[j] :
         IsAttempt(files'[j], q) /\ (j > i \/ (j = i /\ q < p)) => AttemptStoredBefore(c, i, p)'
  BY DEF AttemptStoredBefore
<1>3. \A f, q : IsAttempt(f, q) /\ q \in DOMAIN f
         => [call |-> c, outcome |-> "attempt"] \in Stored(f)
  BY StoredIs
<1>4. CASE files' = files
  <2>1. AttemptStoredBefore(c, i, p)
    BY <1>1, <1>4
  <2> QED BY <1>4, <2>1 DEF AttemptStoredBefore
<1>5. CASE Unlink
  <2>1. /\ files' = [files EXCEPT ![Retained - 1] = <<>>]
        /\ forgotten' = forgotten \cup Stored(files[Retained - 1])
    BY <1>5 DEF Unlink
  <2>2. /\ files'[Retained - 1] = <<>>
        /\ \A j \in Slots : j # Retained - 1 => files'[j] = files[j]
    BY <1>0, <2>1, SlotsBounds DEF FilesTyped
  <2>3. files'[i] = files[i] /\ p \in DOMAIN files[i]
    BY <2>2
  <2>4. PICK j \in Slots : \E q \in DOMAIN files[j] :
           IsAttempt(files[j], q) /\ (j > i \/ (j = i /\ q < p))
    BY <1>1, <2>3 DEF AttemptStoredBefore
  <2>5. PICK q \in DOMAIN files[j] : IsAttempt(files[j], q) /\ (j > i \/ (j = i /\ q < p))
    BY <2>4
  <2>6. j # Retained - 1
    BY <1>3, <2>1, <2>5
  <2>7. files'[j] = files[j] /\ q \in DOMAIN files'[j]
    BY <2>2, <2>5, <2>6
  <2> HIDE DEF IsAttempt
  <2> QED BY <1>2, <2>5, <2>7
<1>6. CASE Shift /\ files' # files
  <2>1. /\ files' = [files EXCEPT ![slot + 1] = files[slot], ![slot] = <<>>]
        /\ slot \in Slots /\ slot + 1 \in Slots /\ files[slot + 1] = <<>> /\ slot \in Nat
    BY <1>0, <1>6, SlotsBounds DEF Shift, RecordSound, TypeOK
  <2>2. /\ files'[slot] = <<>> /\ files'[slot + 1] = files[slot]
        /\ \A j \in Slots : j \notin {slot, slot + 1} => files'[j] = files[j]
    BY <1>0, <2>1 DEF FilesTyped
  <2>3. i # slot
    BY <2>2
  <2>4. PICK a \in Slots : /\ files'[i] = files[a] /\ a # slot + 1 /\ p \in DOMAIN files[a]
                           /\ a = IF i = slot + 1 THEN slot ELSE i
    <3>1. CASE i = slot + 1
      BY <2>1, <2>2, <3>1
    <3>2. CASE i # slot + 1
      BY <2>1, <2>2, <2>3, <3>2
    <3> QED BY <3>1, <3>2
  <2>5. PICK b \in Slots : \E q \in DOMAIN files[b] :
           IsAttempt(files[b], q) /\ (b > a \/ (b = a /\ q < p))
    BY <1>1, <2>4 DEF AttemptStoredBefore
  <2> PICK q \in DOMAIN files[b] : IsAttempt(files[b], q) /\ (b > a \/ (b = a /\ q < p))
    BY <2>5
  <2>6. b # slot + 1
    BY <2>1
  <2>7. PICK j \in Slots : /\ files'[j] = files[b]
                           /\ j = IF b = slot THEN slot + 1 ELSE b
    <3>1. CASE b = slot
      BY <2>1, <2>2, <3>1
    <3>2. CASE b # slot
      BY <2>1, <2>2, <2>6, <3>2
    <3> QED BY <3>1, <3>2
  <2>8. j > i \/ (j = i /\ q < p)
    <3>1. i \in Nat /\ a \in Nat /\ b \in Nat /\ j \in Nat
      BY SlotsBounds
    <3> HIDE DEF IsAttempt
    <3> QED BY <2>1, <2>3, <2>4, <2>6, <2>7, <3>1
  <2>9. IsAttempt(files'[j], q) /\ q \in DOMAIN files'[j]
    BY <2>7
  <2> HIDE DEF IsAttempt
  <2> QED BY <1>2, <2>8, <2>9
<1>7. CASE Write
  <2>1. PICK n \in 1..(EventSize - put), x \in Seq(Units) : Appends(x, n)
    BY <1>0, <1>7, WriteAppends
  <2>2. /\ files[0] \in Seq(Units) /\ Len(files[0]) \in Nat /\ n \in Nat
        /\ DOMAIN files[0] = 1..Len(files[0]) /\ DOMAIN files'[0] = 1..Len(files[0]) + n
        /\ \A q \in 1..Len(files[0]) : files'[0][q] = files[0][q]
        /\ \A k \in 1..n : files'[0][Len(files[0]) + k] = Unit(put + k)
        /\ \A j \in Slots : j # 0 => files'[j] = files[j]
    <3>1. files[0] \in Seq(Units) /\ files'[0] \in Seq(Units) /\ n \in Nat
      BY <1>0, <2>1, SlotsBounds DEF FilesTyped, Appends, TypeOK
    <3> QED BY <2>1, <3>1 DEF Appends
  <2>3. ASSUME NEW j \in Slots, NEW q \in DOMAIN files[j], IsAttempt(files[j], q)
        PROVE  IsAttempt(files'[j], q) /\ q \in DOMAIN files'[j]
    <3>1. CASE j = 0
      <4>1. q \in DOMAIN files[0] /\ WholeAt(files[0], q)
        BY <2>3, <3>1
      <4>2. q \in DOMAIN files'[0] /\ files'[0][q] = files[0][q] /\ WholeAt(files'[0], q)
        BY <1>0, <1>7, <4>1, WholeStays
      <4> QED BY <2>3, <3>1, <4>2
    <3>2. CASE j # 0
      BY <2>2, <2>3, <3>2
    <3> QED BY <3>1, <3>2
  <2>4. CASE p \in DOMAIN files[i]
    <3>1. files'[i][p] = files[i][p]
      BY <2>2, <2>4
    <3>2. PICK j \in Slots : \E q \in DOMAIN files[j] :
             IsAttempt(files[j], q) /\ (j > i \/ (j = i /\ q < p))
      BY <1>1, <2>4, <3>1 DEF AttemptStoredBefore
    <3>3. PICK q \in DOMAIN files[j] : IsAttempt(files[j], q) /\ (j > i \/ (j = i /\ q < p))
      BY <3>2
    <3>4. IsAttempt(files'[j], q) /\ q \in DOMAIN files'[j]
      BY <2>3, <3>3
    <3> HIDE DEF IsAttempt
    <3> QED BY <1>2, <3>3, <3>4
  <2>5. CASE p \notin DOMAIN files[i]
    <3>1. i = 0 /\ p \in 1..Len(files[0]) + n /\ p \notin 1..Len(files[0])
      BY <2>2, <2>5
    <3>2. PICK k \in 1..n : p = Len(files[0]) + k
      <4>1. p - Len(files[0]) \in 1..n /\ p = Len(files[0]) + (p - Len(files[0]))
        BY <2>2, <3>1
      <4> QED BY <4>1
    <3>3. event.call = c /\ event.outcome # "attempt" /\ stage = "writing"
      <4>1. files'[i][p] = Unit(put + k)
        BY <2>2, <3>1, <3>2
      <4> QED BY <1>7, <4>1 DEF Unit, Write
    <3>4. c \in effects
      BY <1>0, <3>3 DEF GateInv, OwnerWaits, ProgressSound
    <3>5. PICK j \in Slots : [call |-> c, outcome |-> "attempt"] \in Stored(files[j])
      <4>1. Kept(c, "attempt")
        BY <3>4 DEF GateInv, EffectsKept
      <4> QED BY <1>0, <4>1, KeptIs
    <3>6. PICK q \in DOMAIN files[j] : IsAttempt(files[j], q)
      BY <3>5, StoredIs
    <3>7. j > i \/ (j = i /\ q < p)
      <4>1. CASE j = 0
        <5>1. q \in 1..Len(files[0])
          BY <2>2, <3>6, <4>1
        <5> QED BY <2>2, <3>1, <4>1, <5>1
      <4>2. CASE j # 0
        BY <3>1, <4>2, SlotsBounds
      <4> QED BY <4>1, <4>2
    <3>8. IsAttempt(files'[j], q) /\ q \in DOMAIN files'[j]
      BY <2>3, <3>6
    <3> HIDE DEF IsAttempt
    <3> QED BY <1>2, <3>7, <3>8
  <2> QED BY <2>4, <2>5
<1> QED BY <1>4, <1>5, <1>6, <1>7, StepKinds
        DEF GateInv, Begin, Succeed, Fail, NewSession, logVars

-----------------------------------------------------------------------------
(* What is retained.                                                       *)

\* The files from the oldest archive to the active file.
Rows(F) == [i \in 1..Retained |-> F[Retained - i]]

\* The files in the order of their age, the oldest first.
LEMMA RowsAre ==
  ASSUME NEW F \in [Slots -> Seq(Units)]
  PROVE  /\ Segments(Rows(F), Units) /\ Len(Rows(F)) = Retained
         /\ \A i \in 1..Retained : Retained - i \in Slots /\ Rows(F)[i] = F[Retained - i]
         /\ \A j \in Slots : Retained - j \in 1..Retained /\ Rows(F)[Retained - j] = F[j]
         /\ FlattenSeq(Rows(F)) \in Seq(Units)
<1>1. Retained \in Nat \ {0} /\ \A i \in 1..Retained : Retained - i \in Slots
  BY SizesAssumption DEF Slots
<1>2. Len(Rows(F)) = Retained /\ \A i \in 1..Retained : Rows(F)[i] = F[Retained - i]
  BY <1>1 DEF Rows
<1>3. Segments(Rows(F), Units)
  BY <1>1, <1>2 DEF Segments
<1>4. ASSUME NEW j \in Slots
      PROVE  Retained - j \in 1..Retained /\ Rows(F)[Retained - j] = F[j]
  <2>1. Retained - j \in 1..Retained /\ Retained - (Retained - j) = j
    BY <1>1 DEF Slots
  <2> QED BY <1>2, <2>1
<1>5. FlattenSeq(Rows(F)) \in Seq(Units)
  <2>1. PICK f : IsFlat(f, Rows(F)) /\ FlattenSeq(Rows(F)) = f[Retained]
    BY <1>1, <1>2, FlattenIsFlat
  <2>2. Retained \in 1..Len(Rows(F))
    BY <1>1, <1>2
  <2> QED BY <1>3, <2>1, <2>2, FlatTyped
<1> QED BY <1>1, <1>2, <1>3, <1>4, <1>5

\* The retained lines are these files, flattened.
LEMMA RetentionIs ==
  ASSUME FilesTyped
  PROVE  Retention = FlattenSeq(Rows(files)) /\ Retention \in Seq(Units)
<1>1. Retention = FlattenSeq(Rows(files))
  BY DEF Retention, Rows
<1> QED BY <1>1, RowsAre DEF FilesTyped

\* What a step does to the retained lines: it leaves them, removes them from the
\* front or adds to their end.
LEMMA RetentionMoves ==
  ASSUME TypeOK, ProgressSound, FilesTyped, RecordSound, [Next]_vars
  PROVE  /\ Retention \in Seq(Units) /\ Retention' \in Seq(Units)
         /\ \/ Retention' = Retention /\ ~Write
            \/ Unlink /\ \E y \in Seq(Units) : Retention = y \o Retention'
            \/ Write /\ \E n \in 1..(EventSize - put), x \in Seq(Units) :
                           Appends(x, n) /\ Retention' = Retention \o x
<1>1. files \in [Slots -> Seq(Units)] /\ files' \in [Slots -> Seq(Units)]
  BY FilesTypedStep DEF FilesTyped
<1>2. Retention = FlattenSeq(Rows(files)) /\ Retention' = FlattenSeq(Rows(files'))
  BY DEF Retention, Rows
<1>3. Retention \in Seq(Units) /\ Retention' \in Seq(Units)
  BY <1>1, <1>2, RowsAre
<1> DEFINE s == Rows(files)
           t == Rows(files')
<1>4. /\ Segments(s, Units) /\ Len(s) = Retained
      /\ \A i \in 1..Retained : Retained - i \in Slots /\ s[i] = files[Retained - i]
      /\ \A j \in Slots : Retained - j \in 1..Retained /\ s[Retained - j] = files[j]
  BY <1>1, RowsAre
<1>5. /\ Segments(t, Units) /\ Len(t) = Retained
      /\ \A i \in 1..Retained : t[i] = files'[Retained - i]
      /\ \A j \in Slots : t[Retained - j] = files'[j]
  BY <1>1, RowsAre
<1>6. Retained \in Nat \ {0}
  BY SlotsBounds
<1> HIDE DEF s, t
<1>7. CASE files' = files /\ ~Write
  BY <1>2, <1>3, <1>7
<1>8. CASE Unlink
  <2>1. /\ files'[Retained - 1] = <<>>
        /\ \A j \in Slots : j # Retained - 1 => files'[j] = files[j]
    BY <1>1, <1>8, SlotsBounds DEF Unlink
  <2>2. t[1] = <<>>
    <3>1. 1 \in 1..Retained
      BY <1>6
    <3> QED BY <1>5, <2>1, <3>1
  <2>3. ASSUME NEW i \in 2..Retained PROVE t[i] = s[i]
    <3>1. i \in 1..Retained /\ Retained - i # Retained - 1
      BY <1>6
    <3> QED BY <1>4, <1>5, <2>1, <3>1
  <2>4. FlattenSeq(s) = s[1] \o FlattenSeq(t)
    <3>1. Segments(s, Units) /\ Segments(t, Units) /\ Len(s) = Retained /\ Len(t) = Retained
      BY <1>4, <1>5
    <3>2. \A i \in 2..Retained : t[i] = s[i]
      BY <2>3
    <3> QED BY <1>6, <2>2, <3>1, <3>2, FlattenDrops
  <2>5. s[1] \in Seq(Units)
    BY <1>4, <1>6 DEF Segments
  <2> QED BY <1>2, <1>3, <1>8, <2>4, <2>5 DEF s, t
<1>9. CASE Shift /\ files' # files
  <2>1. /\ files' = [files EXCEPT ![slot + 1] = files[slot], ![slot] = <<>>]
        /\ slot \in Slots /\ slot + 1 \in Slots /\ files[slot + 1] = <<>> /\ slot \in Nat
    BY <1>9, SlotsBounds DEF Shift, RecordSound, TypeOK
  <2>2. /\ files'[slot] = <<>> /\ files'[slot + 1] = files[slot]
        /\ \A j \in Slots : j \notin {slot, slot + 1} => files'[j] = files[j]
    BY <1>1, <2>1
  <2>3. PICK k \in 1..Retained-1 : k = Retained - (slot + 1) /\ k + 1 = Retained - slot
    <3>1. slot + 1 < Retained
      BY <2>1, SlotsBounds
    <3>2. Retained - (slot + 1) \in 1..Retained-1 /\ (Retained - (slot + 1)) + 1 = Retained - slot
      BY <1>6, <2>1, <3>1
    <3> QED BY <3>2
  <2>4. s[k] = <<>> /\ t[k + 1] = <<>> /\ t[k] = s[k + 1]
    BY <1>4, <1>5, <2>1, <2>2, <2>3
  <2>5. ASSUME NEW i \in 1..Retained, i \notin {k, k + 1} PROVE t[i] = s[i]
    <3>1. Retained - i \notin {slot, slot + 1}
      BY <1>6, <2>1, <2>3, <2>5
    <3> QED BY <1>4, <1>5, <2>2, <3>1
  <2>6. FlattenSeq(t) = FlattenSeq(s)
    BY <1>4, <1>5, <1>6, <2>4, <2>5, FlattenMoves
  <2>7. ~Write
    BY <1>9 DEF Shift, Write
  <2> QED BY <1>2, <1>3, <2>6, <2>7 DEF s, t
<1>10. CASE Write
  <2>1. PICK n \in 1..(EventSize - put), x \in Seq(Units) : Appends(x, n)
    BY <1>10, WriteAppends
  <2>2. files'[0] = files[0] \o x /\ \A j \in Slots : j # 0 => files'[j] = files[j]
    BY <1>1, <2>1, SlotsBounds DEF Appends
  <2>3. t[Retained] = s[Retained] \o x
    <3>1. Retained \in 1..Retained /\ Retained - Retained = 0
      BY <1>6
    <3> QED BY <1>4, <1>5, <2>2, <3>1
  <2>4. ASSUME NEW i \in 1..Retained-1 PROVE t[i] = s[i]
    <3>1. i \in 1..Retained /\ Retained - i # 0
      BY <1>6
    <3> QED BY <1>4, <1>5, <2>2, <3>1
  <2>5. FlattenSeq(t) = FlattenSeq(s) \o x
    <3>1. Segments(s, Units) /\ Segments(t, Units) /\ Len(s) = Retained /\ Len(t) = Retained
      BY <1>4, <1>5
    <3>2. x \in Seq(Units) /\ \A i \in 1..Retained-1 : t[i] = s[i]
      BY <2>1, <2>4
    <3> QED BY <1>6, <2>3, <3>1, <3>2, FlattenAppends
  <2> QED BY <1>2, <1>3, <1>10, <2>1, <2>5 DEF s, t
<1> QED BY <1>7, <1>8, <1>9, <1>10, StepKinds
        DEF Begin, Succeed, Fail, NewSession, logVars

\* The numbers of a sequence of units: within a session without gap, and a new
\* session begins with 1.
GapFree(R) ==
    \A i \in 1..Len(R)-1 :
        LET a == R[i]
            b == R[i + 1]
        IN  IF a.session = b.session THEN b.seq - a.seq \in {0, 1}
            ELSE a.session < b.session /\ b.seq = 1

\* What is numbered without gap stays so when lines leave the front.
LEMMA GapFreeEnd ==
  ASSUME NEW y \in Seq(Units), NEW R \in Seq(Units), GapFree(y \o R)
  PROVE  GapFree(R) /\ (R # <<>> => Last(R) = Last(y \o R) /\ y \o R # <<>>)
<1>1. /\ y \o R \in Seq(Units) /\ Len(y \o R) = Len(y) + Len(R)
      /\ \A i \in 1..Len(y) + Len(R) : (y \o R)[i] = IF i <= Len(y) THEN y[i] ELSE R[i - Len(y)]
  BY ConcatProperties
<1>2. Len(y) \in Nat /\ Len(R) \in Nat
  OBVIOUS
<1>3. ASSUME NEW i \in 1..Len(R) PROVE (y \o R)[Len(y) + i] = R[i]
  <2>1. Len(y) + i \in 1..Len(y) + Len(R) /\ ~(Len(y) + i <= Len(y)) /\ (Len(y) + i) - Len(y) = i
    BY <1>2
  <2> QED BY <1>1, <2>1
<1> PICK z \in Seq(Units) : z = y \o R
  BY <1>1
<1>4. GapFree(R)
  <2> SUFFICES ASSUME NEW i \in 1..Len(R)-1
               PROVE  IF R[i].session = R[i + 1].session THEN R[i + 1].seq - R[i].seq \in {0, 1}
                      ELSE R[i].session < R[i + 1].session /\ R[i + 1].seq = 1
    BY DEF GapFree
  <2>1. /\ i \in 1..Len(R) /\ i + 1 \in 1..Len(R)
        /\ Len(y) + i \in 1..Len(y \o R)-1 /\ (Len(y) + i) + 1 = Len(y) + (i + 1)
    BY <1>1, <1>2
  <2>2. z[Len(y) + i] = R[i] /\ z[(Len(y) + i) + 1] = R[i + 1]
    BY <1>3, <2>1
  <2>3. PICK j \in 1..Len(z)-1 : z[j] = R[i] /\ z[j + 1] = R[i + 1]
    BY <2>1, <2>2
  <2> QED BY <2>3 DEF GapFree
<1>5. ASSUME R # <<>> PROVE Last(R) = Last(y \o R) /\ y \o R # <<>>
  <2>1. Len(R) \in 1..Len(R)
    BY <1>2, <1>5
  <2>2. Len(y \o R) # 0
    BY <1>1, <1>2, <2>1
  <2> QED BY <1>1, <1>3, <2>1, <2>2 DEF Last
<1> QED BY <1>4, <1>5

\* w may be the next number of session v after R.
Continues(R, v, w) ==
    R # <<>> => \/ Last(R).session = v /\ w - Last(R).seq \in {0, 1}
                \/ Last(R).session < v /\ w = 1

Numbered(x, v, w) == \A k \in 1..Len(x) : x[k].session = v /\ x[k].seq = w

EndsWith(R, v, w) == R # <<>> /\ Last(R).session = v /\ Last(R).seq = w

\* What is numbered without gap stays so when the lines of one event follow that
\* continue the numbers.
LEMMA GapFreeAppend ==
  ASSUME NEW R \in Seq(Units), GapFree(R), NEW x \in Seq(Units), NEW n \in Nat \ {0}, Len(x) = n,
         NEW v \in Int, NEW w \in Int, Numbered(x, v, w), Continues(R, v, w)
  PROVE  GapFree(R \o x) /\ EndsWith(R \o x, v, w)
<1>1. /\ R \o x \in Seq(Units) /\ Len(R \o x) = Len(R) + n
      /\ \A i \in 1..Len(R) + n : (R \o x)[i] = IF i <= Len(R) THEN R[i] ELSE x[i - Len(R)]
  BY ConcatProperties
<1>2. Len(R) \in Nat
  OBVIOUS
<1>3. \A i \in 1..Len(R) : (R \o x)[i] = R[i]
  BY <1>1, <1>2
<1>4. ASSUME NEW i \in 1..Len(R) + n, i > Len(R)
      PROVE  (R \o x)[i].session = v /\ (R \o x)[i].seq = w
  <2>1. ~(i <= Len(R)) /\ i - Len(R) \in 1..n
    BY <1>2, <1>4
  <2> QED BY <1>1, <2>1 DEF Numbered
<1> PICK z \in Seq(Units) : z = R \o x
  BY <1>1
<1>5. GapFree(z)
  <2> SUFFICES ASSUME NEW i \in 1..Len(z)-1
               PROVE  IF z[i].session = z[i + 1].session THEN z[i + 1].seq - z[i].seq \in {0, 1}
                      ELSE z[i].session < z[i + 1].session /\ z[i + 1].seq = 1
    BY DEF GapFree
  <2>1. i \in 1..Len(R) + n /\ i + 1 \in 1..Len(R) + n
    BY <1>1, <1>2
  <2>2. CASE i + 1 <= Len(R)
    <3>1. i \in 1..Len(R)-1 /\ z[i] = R[i] /\ z[i + 1] = R[i + 1]
      BY <1>2, <1>3, <2>2
    <3> QED BY <3>1 DEF GapFree
  <2>3. CASE i = Len(R)
    <3>1. R # <<>> /\ z[i] = Last(R) /\ i + 1 > Len(R)
      BY <1>2, <1>3, <2>3 DEF Last
    <3>2. z[i + 1].session = v /\ z[i + 1].seq = w
      BY <1>4, <2>1, <3>1
    <3>3. \/ z[i].session = v /\ w - z[i].seq \in {0, 1}
          \/ z[i].session < v /\ w = 1
      BY <3>1 DEF Continues
    <3>4. z[i].session \in Int
      <4>1. i \in 1..Len(z) /\ z[i] \in Units
        OBVIOUS
      <4>2. z[i].session \in 1..MaxSessions
        BY <4>1 DEF Units
      <4> QED BY <4>2
    <3> QED BY <3>2, <3>3, <3>4
  <2>4. CASE i > Len(R)
    <3>1. i + 1 > Len(R)
      BY <1>2, <2>4
    <3>2. z[i].session = v /\ z[i].seq = w /\ z[i + 1].session = v /\ z[i + 1].seq = w
      BY <1>4, <2>1, <2>4, <3>1
    <3> QED BY <3>2
  <2> QED BY <1>2, <2>2, <2>3, <2>4
<1>6. Len(z) \in 1..Len(R) + n /\ Len(z) > Len(R) /\ z # <<>>
  BY <1>1, <1>2
<1>7. z[Len(z)].session = v /\ z[Len(z)].seq = w
  BY <1>4, <1>6
<1> QED BY <1>5, <1>6, <1>7 DEF Last, EndsWith

\* A step keeps the retained lines numbered without gap.
LEMMA NumberStep ==
  ASSUME TypeOK, ProgressSound, FilesTyped, RecordSound, NumberInv, [Next]_vars
  PROVE  NumberInv'
<1> DEFINE S(R, v, w) == R # <<>> => \/ Last(R).session = v /\ w - Last(R).seq \in {-1, 0}
                                     \/ Last(R).session < v /\ w = 0
           P(R, v, w) == R # <<>> /\ Last(R).session = v /\ Last(R).seq = w + 1
<1>1. /\ GapFree(Retention) /\ S(Retention, session, sequence)
      /\ put > 0 => P(Retention, session, sequence)
  BY DEF NumberInv, NumberedWithoutGap, GapFree, LastNumbered, PartNumbered
<1>2. /\ sequence \in Nat /\ session \in Nat /\ put \in Nat /\ EventSize \in Nat \ {0}
  BY SlotsBounds, SizesAssumption DEF TypeOK
<1>3. /\ Retention \in Seq(Units) /\ Retention' \in Seq(Units)
      /\ \/ Retention' = Retention /\ ~Write
         \/ Unlink /\ \E y \in Seq(Units) : Retention = y \o Retention'
         \/ Write /\ \E n \in 1..(EventSize - put), x \in Seq(Units) :
                        Appends(x, n) /\ Retention' = Retention \o x
  BY RetentionMoves
<1> PICK R \in Seq(Units) : R = Retention
  BY <1>3
<1> PICK Q \in Seq(Units) : Q = Retention'
  BY <1>3
<1>4. R # <<>> => Last(R).session \in Nat /\ Last(R).seq \in Nat
  <2>1. ASSUME R # <<>> PROVE Last(R) \in Units
    BY <2>1 DEF Last
  <2> QED BY <2>1, SizesAssumption DEF Units
<1>5. ASSUME GapFree(Q), S(Q, session', sequence'), put' > 0 => P(Q, session', sequence')
      PROVE  NumberInv'
  <2>1. LastNumbered'
    BY <1>5 DEF LastNumbered
  <2>2. PartNumbered'
    BY <1>5 DEF PartNumbered
  <2>3. NumberedWithoutGap'
    <3>1. Q # <<>> /\ Last(Q).session = session' => sequence' - Last(Q).seq \in {-1, 0}
      <4>1. Q # <<>> => Last(Q).session \in Int
        <5>1. ASSUME Q # <<>> PROVE Last(Q) \in Units
          BY <5>1 DEF Last
        <5> QED BY <5>1, SizesAssumption DEF Units
      <4>2. session' \in Int
        BY TypeStep, SizesAssumption DEF TypeOK
      <4> QED BY <1>5, <4>1, <4>2
    <3> QED BY <1>5, <3>1 DEF NumberedWithoutGap, GapFree
  <2> QED BY <2>1, <2>2, <2>3 DEF NumberInv
<1> HIDE DEF S, P
<1>6. CASE Q = R /\ ~Write
  <2>1. CASE session' = session /\ sequence' = sequence /\ (put' = put \/ put' = 0)
    BY <1>1, <1>5, <1>6, <2>1
  <2>2. CASE Succeed
    <3>1. put > 0 /\ session' = session /\ sequence' = sequence + 1 /\ put' = 0
      BY <1>2, <2>2 DEF Succeed, Release, RecordSound
    <3>2. P(R, session, sequence)
      BY <1>1, <3>1
    <3>3. S(R, session, sequence + 1)
      <4>1. R # <<>> /\ Last(R).session = session /\ Last(R).seq = sequence + 1
        BY <3>2 DEF P
      <4>2. (sequence + 1) - Last(R).seq = 0
        BY <1>2, <4>1
      <4> QED BY <4>1, <4>2 DEF S
    <3> QED BY <1>1, <1>5, <1>6, <3>1, <3>3
  <2>3. CASE NewSession
    <3>1. session' = session + 1 /\ sequence' = 0 /\ put' = 0
      BY <2>3 DEF NewSession, Release
    <3>2. R # <<>> => Last(R).session < session + 1
      BY <1>1, <1>2, <1>4 DEF S
    <3>3. S(R, session + 1, 0)
      BY <3>2 DEF S
    <3> QED BY <1>1, <1>5, <1>6, <3>1, <3>3
  <2> QED BY <2>1, <2>2, <2>3, <1>6, StepKinds
          DEF Begin, Fail, Release, Unlink, Shift, logVars
<1>7. CASE Unlink /\ \E y \in Seq(Units) : R = y \o Q
  <2>1. PICK y \in Seq(Units) : R = y \o Q
    BY <1>7
  <2>2. GapFree(Q) /\ (Q # <<>> => Last(Q) = Last(R) /\ R # <<>>)
    BY <1>1, <2>1, GapFreeEnd
  <2>3. S(Q, session, sequence)
    BY <1>1, <2>2 DEF S
  <2>4. session' = session /\ sequence' = sequence /\ put' = 0
    BY <1>7 DEF Unlink, RecordSound
  <2> QED BY <1>5, <2>2, <2>3, <2>4
<1>8. CASE Write /\ \E n \in 1..(EventSize - put), x \in Seq(Units) :
                       Appends(x, n) /\ Q = R \o x
  <2>1. PICK n \in 1..(EventSize - put), x \in Seq(Units) : Appends(x, n) /\ Q = R \o x
    BY <1>8
  <2>2. /\ Len(x) = n /\ n \in Nat \ {0}
        /\ \A k \in 1..n : x[k].session = session /\ x[k].seq = sequence + 1
    BY <1>2, <2>1 DEF Appends, Unit
  <2>3. session' = session /\ sequence' = sequence
    BY <1>8 DEF Write
  <2>4. R # <<>> => IF Last(R).session = session THEN (sequence + 1) - Last(R).seq \in {0, 1}
                    ELSE Last(R).session < session /\ sequence + 1 = 1
    BY <1>1, <1>2, <1>4 DEF S
  <2>5. /\ GapFree(Q) /\ Q # <<>> /\ Last(Q).session = session /\ Last(Q).seq = sequence + 1
    <3>1. PICK v \in Int : v = session
      BY <1>2
    <3>2. PICK w \in Int : w = sequence + 1
      BY <1>2
    <3>3. /\ GapFree(R) /\ x \in Seq(Units) /\ n \in Nat \ {0} /\ Len(x) = n
          /\ Numbered(x, v, w)
      BY <1>1, <2>1, <2>2, <3>1, <3>2 DEF Numbered
    <3>4. Continues(R, v, w)
      BY <2>4, <3>1, <3>2 DEF Continues
    <3>5. GapFree(R \o x) /\ EndsWith(R \o x, v, w)
      BY <3>1, <3>2, <3>3, <3>4, GapFreeAppend
    <3> QED BY <2>1, <3>1, <3>2, <3>5 DEF EndsWith
  <2>6. S(Q, session, sequence) /\ P(Q, session, sequence)
    <3>1. sequence - (sequence + 1) = -1
      BY <1>2
    <3> QED BY <2>5, <3>1 DEF S, P
  <2> QED BY <1>5, <2>3, <2>5, <2>6
<1> QED BY <1>3, <1>6, <1>7, <1>8

-----------------------------------------------------------------------------
(* The abstract log.                                                       *)

\* Appending something extends a log, and removing something from its front
\* forgets its oldest end.
LEMMA AppendIsExtend ==
  ASSUME NEW U, NEW R \in Seq(U), NEW x \in Seq(U), Len(x) # 0
  PROVE  IsStrictPrefix(R, R \o x)
<1>1. /\ R \o x \in Seq(U) /\ Len(R \o x) = Len(R) + Len(x)
      /\ \A i \in 1..Len(R) + Len(x) : (R \o x)[i] = IF i <= Len(R) THEN R[i] ELSE x[i - Len(R)]
  BY ConcatProperties
<1>2. Len(R) \in Nat /\ Len(x) \in Nat \ {0}
  OBVIOUS
<1>3. PICK z \in Seq(U) : z = R \o x
  BY <1>1
<1>4. Len(z) = Len(R) + Len(x) /\ \A i \in 1..Len(R) : z[i] = R[i]
  BY <1>1, <1>2, <1>3
<1>5. SubSeq(R, 1, Len(R)) = SubSeq(z, 1, Len(R))
  <2>1. SubSeq(R, 1, Len(R)) = [i \in 1..Len(R) |-> R[i]]
    BY <1>2
  <2>2. SubSeq(z, 1, Len(R)) = [i \in 1..Len(R) |-> z[i]]
    BY <1>2, <1>3, <1>4
  <2> QED BY <1>4, <2>1, <2>2
<1>6. R # z
  BY <1>2, <1>4
<1> QED BY <1>2, <1>3, <1>4, <1>5, <1>6 DEF IsStrictPrefix, IsPrefix

\* What a sequence has lost from its front was its beginning.
LEMMA DropIsForget ==
  ASSUME NEW U, NEW Q \in Seq(U), NEW y \in Seq(U), Len(y) # 0
  PROVE  IsStrictSuffix(Q, y \o Q)
<1>1. /\ y \o Q \in Seq(U) /\ Len(y \o Q) = Len(y) + Len(Q)
      /\ \A i \in 1..Len(y) + Len(Q) : (y \o Q)[i] = IF i <= Len(y) THEN y[i] ELSE Q[i - Len(y)]
  BY ConcatProperties
<1>2. Len(Q) \in Nat /\ Len(y) \in Nat \ {0}
  OBVIOUS
<1>3. PICK z \in Seq(U) : z = y \o Q
  BY <1>1
<1>4. Len(z) = Len(y) + Len(Q)
  BY <1>1, <1>3
<1>5. ASSUME NEW i \in 1..Len(Q) PROVE z[Len(z) - i + 1] = Q[Len(Q) - i + 1]
  <2>1. /\ Len(z) - i + 1 \in 1..Len(y) + Len(Q) /\ ~(Len(z) - i + 1 <= Len(y))
        /\ (Len(z) - i + 1) - Len(y) = Len(Q) - i + 1
    BY <1>2, <1>4
  <2> QED BY <1>1, <1>3, <2>1
<1> DEFINE q == [i \in 1..Len(Q) |-> Q[Len(Q) - i + 1]]
           r == [i \in 1..Len(z) |-> z[Len(z) - i + 1]]
<1>6. Reverse(Q) = q /\ Reverse(z) = r
  BY DEF Reverse
<1>7. q \in Seq(U) /\ Len(q) = Len(Q)
  <2>1. \A i \in 1..Len(Q) : Len(Q) - i + 1 \in 1..Len(Q)
    BY <1>2
  <2> QED BY <1>2, <2>1
<1>8. r \in Seq(U) /\ Len(r) = Len(z)
  <2>1. Len(z) \in Nat
    BY <1>3
  <2>2. \A i \in 1..Len(z) : Len(z) - i + 1 \in 1..Len(z)
    BY <2>1
  <2> QED BY <2>1, <2>2
<1>9. \A i \in 1..Len(Q) : r[i] = q[i]
  <2>1. \A i \in 1..Len(Q) : i \in 1..Len(z)
    BY <1>2, <1>4
  <2> QED BY <1>5, <2>1
<1> HIDE DEF q, r
<1>10. SubSeq(q, 1, Len(q)) = SubSeq(r, 1, Len(q))
  <2>1. SubSeq(q, 1, Len(q)) = [i \in 1..Len(Q) |-> q[i]]
    BY <1>2, <1>7
  <2>2. SubSeq(r, 1, Len(q)) = [i \in 1..Len(Q) |-> r[i]]
    BY <1>2, <1>4, <1>7, <1>8
  <2> QED BY <1>9, <2>1, <2>2
<1>11. IsSuffix(Q, z)
  BY <1>2, <1>4, <1>6, <1>7, <1>8, <1>10 DEF IsSuffix, IsPrefix
<1>12. Q # z
  BY <1>2, <1>4
<1> QED BY <1>3, <1>11, <1>12 DEF IsStrictSuffix

\* A step extends the retained log, forgets its oldest end or leaves it.
LEMMA LedgerStep ==
  ASSUME TypeOK, ProgressSound, FilesTyped, RecordSound, [Next]_vars
  PROVE  [Ledger!Next]_Retention
<1>1. /\ Retention \in Seq(Units) /\ Retention' \in Seq(Units)
      /\ \/ Retention' = Retention
         \/ \E y \in Seq(Units) : Retention = y \o Retention'
         \/ \E n \in 1..(EventSize - put), x \in Seq(Units) :
               Appends(x, n) /\ Retention' = Retention \o x
  BY RetentionMoves
<1>2. PICK R \in Seq(Units) : R = Retention
  BY <1>1
<1>3. PICK Q \in Seq(Units) : Q = Retention'
  BY <1>1
<1>4. ASSUME NEW y \in Seq(Units), R = y \o Q, Q # R
      PROVE  Ledger!Forget
  <2>1. Len(y) # 0
    <3>1. y = <<>> => y \o Q = Q
      BY ConcatEmptySeq
    <3> QED BY <1>4, <3>1
  <2>2. IsStrictSuffix(Q, R)
    BY <1>4, <2>1, DropIsForget
  <2>3. Ledger!IsStrictSuffix(Q, R)
    BY <2>2 DEF Ledger!IsStrictSuffix, Ledger!IsSuffix, Ledger!IsPrefix, Ledger!Reverse,
                IsStrictSuffix, IsSuffix, IsPrefix, Reverse
  <2> QED BY <1>2, <1>3, <2>3 DEF Ledger!Forget
<1>5. ASSUME NEW n \in 1..(EventSize - put), NEW x \in Seq(Units), Appends(x, n), Q = R \o x
      PROVE  Ledger!Extend
  <2>1. Len(x) # 0
    BY <1>5 DEF Appends
  <2>2. IsStrictPrefix(R, Q)
    BY <1>5, <2>1, AppendIsExtend
  <2>3. Ledger!IsStrictPrefix(R, Q)
    BY <2>2 DEF Ledger!IsStrictPrefix, Ledger!IsPrefix, IsStrictPrefix, IsPrefix
  <2> QED BY <1>2, <1>3, <2>3 DEF Ledger!Extend
<1> QED BY <1>1, <1>2, <1>3, <1>4, <1>5 DEF Ledger!Next

-----------------------------------------------------------------------------
(* Theorems                                                                *)

Inv == TypeOK /\ LogInv /\ GateInv /\ NumberInv

\* The invariant holds of an empty log.
LEMMA InitialInv == Init => Inv /\ Retention = <<>>
<1> SUFFICES ASSUME Init PROVE Inv /\ Retention = <<>>
  OBVIOUS
<1>1. /\ files = [i \in Slots |-> <<>>] /\ stage = "free" /\ event = NoEvent /\ slot = 0 /\ put = 0
      /\ sequence = 0 /\ healthy = TRUE /\ session = 1 /\ forgotten = {}
      /\ pc = [c \in Calls |-> "idle"] /\ result = [c \in Calls |-> "none"] /\ effects = {}
      /\ runtime = "down"
  BY DEF Init, LogInit
<1>2. 1 \in 1..MaxSessions /\ EventSize \in Nat \ {0} /\ MaxFile \in Nat /\ 0 \in Slots
  BY SizesAssumption DEF Slots
<1>3. TypeOK
  BY <1>1, <1>2 DEF TypeOK, Stages, PcStates
<1>4. FilesTyped
  BY <1>1 DEF FilesTyped
<1>5. \A i \in Slots : files[i] = <<>> /\ Len(files[i]) = 0
  BY <1>1
<1>6. LogInv
  BY <1>1, <1>2, <1>4, <1>5 DEF LogInv, RecordSound, RoomLeft, SizeBounded, TailWritten
<1>7. GateInv
  <2>1. OwnerWaits /\ ProgressSound /\ EffectsKept /\ OutcomeKept
    BY <1>1 DEF OwnerWaits, ProgressSound, EffectsKept, OutcomeKept, Calls
  <2>2. OutcomesOrdered
    BY <1>5 DEF OutcomesOrdered
  <2> QED BY <2>1, <2>2 DEF GateInv
<1>8. Retention = <<>>
  <2>1. /\ Len(Rows(files)) = Retained
        /\ \A i \in 1..Retained : Retained - i \in Slots /\ Rows(files)[i] = files[Retained - i]
    BY <1>4, RowsAre DEF FilesTyped
  <2>2. \A i \in 1..Retained : Rows(files)[i] = <<>>
    BY <1>5, <2>1
  <2>3. FlattenSeq(Rows(files)) = <<>>
    BY <2>1, <2>2, SlotsBounds, FlattenNothing
  <2> QED BY <1>4, <2>3, RetentionIs
<1>9. NumberInv
  BY <1>1, <1>8 DEF NumberInv, NumberedWithoutGap, LastNumbered, PartNumbered
<1> QED BY <1>3, <1>6, <1>7, <1>8, <1>9 DEF Inv

\* Every step keeps the invariant.
LEMMA NextInv == Inv /\ [Next]_vars => Inv'
<1> SUFFICES ASSUME Inv, [Next]_vars PROVE Inv'
  OBVIOUS
<1>1. /\ TypeOK /\ LogInv /\ GateInv /\ NumberInv
      /\ FilesTyped /\ RecordSound /\ RoomLeft /\ TailWritten /\ OwnerWaits /\ ProgressSound
  BY DEF Inv, LogInv, GateInv
<1>2. TypeOK'
  BY <1>1, TypeStep
<1>3. LogInv'
  BY <1>1, FilesTypedStep, RecordSoundStep, RoomLeftStep, TailWrittenStep DEF LogInv
<1>4. GateInv'
  BY <1>1, OwnerWaitsStep, ProgressSoundStep, EffectsKeptStep, OutcomeKeptStep,
     OutcomesOrderedStep DEF GateInv
<1>5. NumberInv'
  BY <1>1, NumberStep
<1> QED BY <1>2, <1>3, <1>4, <1>5 DEF Inv

\* The invariant always holds.
LEMMA AlwaysInv == Spec => []Inv
  BY InitialInv, NextInv, PTL DEF Spec

\* The variables of the gate and of the log keep their types, however records fail
\* and the process ends.
THEOREM TypeCorrect == Spec => []TypeOK
  BY AlwaysInv, PTL DEF Inv

\* No file outgrows max_file_bytes, for every size of the files and of an event, and
\* however rotations fail and are begun again.
THEOREM FilesBounded == Spec => []SizeBounded
<1>1. Inv => SizeBounded
  BY DEF Inv, LogInv, RoomLeft
<1> QED BY <1>1, AlwaysInv, PTL

\* No effect without an attempt that is stored whole, for every number of calls,
\* files and sessions.
THEOREM NoEffectWithoutAttempt == Spec => []EffectsKept
<1>1. Inv => EffectsKept
  BY DEF Inv, GateInv
<1> QED BY <1>1, AlwaysInv, PTL

\* The numbers of the retained lines betray every event that was removed from them.
THEOREM NumbersWithoutGap == Spec => []NumberedWithoutGap
<1>1. Inv => NumberedWithoutGap
  BY DEF Inv, NumberInv
<1> QED BY <1>1, AlwaysInv, PTL

\* The order of the files is that of the retained lines.
LEMMA OrderIsRetained ==
  ASSUME Inv
  PROVE  OutcomeFollowsAttempt
<1> SUFFICES ASSUME NEW c \in Mutating, pc[c] = "recorded"
             PROVE  /\ \E o \in {"success", "error"} : Kept(c, o)
                    /\ \A i \in DOMAIN Retention :
                          Retention[i].call = c /\ Retention[i].outcome # "attempt" =>
                             \/ [call |-> c, outcome |-> "attempt"] \in forgotten
                             \/ \E k \in 1..i-1 :
                                   Retention[k].call = c /\ Retention[k].outcome = "attempt"
  BY DEF OutcomeFollowsAttempt
<1>1. FilesTyped /\ ProgressSound /\ OutcomeKept /\ OutcomesOrdered /\ c \in Calls
  BY DEF Inv, LogInv, GateInv, Calls
<1>2. \E o \in {"success", "error"} : Kept(c, o)
  BY <1>1 DEF ProgressSound, OutcomeKept
<1> DEFINE s == Rows(files)
<1>3. /\ Segments(s, Units) /\ Len(s) = Retained
      /\ \A i \in 1..Retained : Retained - i \in Slots /\ s[i] = files[Retained - i]
      /\ \A j \in Slots : Retained - j \in 1..Retained /\ s[Retained - j] = files[j]
  BY <1>1, RowsAre DEF FilesTyped
<1>4. Retention = FlattenSeq(s) /\ Retention \in Seq(Units) /\ Retained \in Nat \ {0}
  BY <1>1, RetentionIs, SlotsBounds
<1> HIDE DEF s
<1>5. PICK n \in Nat \ {0} : n = Retained
  BY <1>4
<1>6. Segments(s, Units) /\ Len(s) = n
  BY <1>3, <1>5
<1>7. PICK o \in [1..n -> Nat] : Places(o, s, n, FlattenSeq(s))
  BY <1>6, FlattenPlaces
<1>8. /\ o \in [1..Retained -> Nat]
      /\ \A k \in 1..Retained : \A p \in 1..Len(s[k]) :
            o[k] + p \in 1..Len(Retention) /\ Retention[o[k] + p] = s[k][p]
      /\ \A i \in 1..Len(Retention) :
            \E k \in 1..Retained : \E p \in 1..Len(s[k]) : i = o[k] + p
      /\ \A k, l \in 1..Retained : k < l => o[k] + Len(s[k]) <= o[l]
  <2>1. o \in [1..Retained -> Nat] /\ Places(o, s, Retained, Retention)
    BY <1>4, <1>5, <1>7
  <2> QED BY <2>1 DEF Places
<1>9. \A j \in Slots : DOMAIN files[j] = 1..Len(files[j]) /\ Len(files[j]) \in Nat /\ j \in Nat
  BY <1>1, SlotsBounds DEF FilesTyped
<1>10. ASSUME NEW i \in DOMAIN Retention, Retention[i].call = c, Retention[i].outcome # "attempt",
             [call |-> c, outcome |-> "attempt"] \notin forgotten
      PROVE  \E k \in 1..i-1 : Retention[k].call = c /\ Retention[k].outcome = "attempt"
  <2>0. i \in 1..Len(Retention)
    BY <1>4
  <2>1. PICK k \in 1..Retained : \E p \in 1..Len(s[k]) : i = o[k] + p
    BY <1>4, <1>8, <1>10, <2>0
  <2>2. PICK p \in 1..Len(s[k]) : i = o[k] + p
    BY <2>1
  <2>3. PICK a \in Slots : a = Retained - k /\ s[k] = files[a]
    BY <1>3
  <2>4. p \in DOMAIN files[a] /\ files[a][p].call = c /\ files[a][p].outcome # "attempt"
    BY <1>8, <1>9, <1>10, <2>1, <2>2, <2>3
  <2>5. AttemptStoredBefore(c, a, p)
    BY <1>1, <1>10, <2>3, <2>4 DEF OutcomesOrdered
  <2>6. PICK b \in Slots : \E q \in DOMAIN files[b] :
           /\ b > a \/ (b = a /\ q < p)
           /\ files[b][q].call = c /\ files[b][q].outcome = "attempt"
    BY <2>5 DEF AttemptStoredBefore
  <2>7. PICK q \in DOMAIN files[b] :
           /\ b > a \/ (b = a /\ q < p)
           /\ files[b][q].call = c /\ files[b][q].outcome = "attempt"
    BY <2>6
  <2>8. PICK l \in 1..Retained : l = Retained - b /\ s[l] = files[b]
    BY <1>3
  <2>9. q \in 1..Len(s[l]) /\ Len(s[l]) \in Nat /\ Len(s[k]) \in Nat
    BY <1>9, <2>3, <2>6, <2>7, <2>8
  <2>10. Retention[o[l] + q] = files[b][q] /\ o[l] + q \in 1..Len(Retention)
    BY <1>8, <2>8, <2>9
  <2>11. o[l] + q < o[k] + p
    <3>1. o[l] \in Nat /\ o[k] \in Nat
      BY <1>8, <2>1, <2>8
    <3>2. p \in Nat /\ q \in Nat /\ p >= 1
      BY <2>2, <2>9
    <3>3. CASE b > a
      <4>1. l < k
        BY <1>4, <1>9, <2>1, <2>3, <2>6, <2>8, <3>3
      <4>2. o[l] + Len(s[l]) <= o[k]
        BY <1>8, <2>1, <2>8, <4>1
      <4> QED BY <2>9, <3>1, <3>2, <4>2
    <3>4. CASE b = a /\ q < p
      <4>1. l = k
        BY <1>4, <1>9, <2>1, <2>3, <2>6, <2>8, <3>4
      <4> QED BY <3>1, <3>2, <3>4, <4>1
    <3> QED BY <2>7, <3>3, <3>4
  <2>12. o[l] + q \in 1..i-1
    BY <1>4, <2>0, <2>2, <2>10, <2>11
  <2> QED BY <2>7, <2>10, <2>12
<1> QED BY <1>2, <1>10

\* A recorded outcome stays stored, and no retained outcome stands before or without
\* its attempt, unless rotation has forgotten that in its turn.
THEOREM OutcomesFollowAttempts == Spec => []OutcomeFollowsAttempt
  BY AlwaysInv, OrderIsRetained, PTL

\* The files are a window of one append-only log: they implement RetainedLog.
THEOREM RotationKeepsOrder == Spec => RetainsInOrder
<1>1. Init => Ledger!Init
  BY InitialInv DEF Ledger!Init
<1>2. Inv /\ [Next]_vars => [Ledger!Next]_Retention
  BY LedgerStep DEF Inv, LogInv, GateInv
<1> QED BY <1>1, <1>2, AlwaysInv, PTL DEF Spec, RetainsInOrder, Ledger!Spec

=============================================================================
