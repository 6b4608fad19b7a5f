--------------------------- MODULE SubIndexProofs ---------------------------
(***************************************************************************)
(* What SubIndex promises for index files of every size, blocks and        *)
(* buffers of every size: the preview list and its reader agree, a lookup  *)
(* finds what is there, and where it can fail.                             *)
(***************************************************************************)
EXTENDS SubIndex, TLAPS, WellFoundedInduction

-----------------------------------------------------------------------------
\* Induction over the natural numbers, with sets in the place of predicates, and
\* functions defined by recursion.

\* A set of natural numbers that is not empty has a least element.
LEMMA NatMin ==
    ASSUME NEW T, T \subseteq Nat, T # {}
    PROVE  \E x \in T : \A y \in T : x <= y
<1>1. PICK x \in T : \A y \in T : ~ (<<y, x>> \in OpToRel(<, Nat))
  BY WFMin, NatLessThanWellFounded
<1>2. \A y \in T : ~(y < x)
  BY <1>1 DEF OpToRel
<1>3. x \in T OBVIOUS
<1>4. T \subseteq Nat OBVIOUS
<1>5. \A y \in T : x <= y BY ONLY <1>2, <1>3, <1>4
<1> QED BY <1>5, Zenon

\* A set with 0 and with the successor of each of its numbers has all numbers.
LEMMA NatInd ==
    ASSUME NEW P, 0 \in P, \A k \in Nat : k \in P => k + 1 \in P
    PROVE  \A k \in Nat : k \in P
<1> SUFFICES ASSUME Nat \ P # {} PROVE FALSE OBVIOUS
<1>1. PICK x \in Nat \ P : \A y \in Nat \ P : x <= y
  BY NatMin
<1>2. x # 0 /\ x - 1 \in Nat /\ (x - 1) + 1 = x
  BY <1>1
<1>3. x - 1 \in P
  BY <1>1, <1>2
<1> QED BY <1>1, <1>2, <1>3

\* A function with a given first value and a given step from each value to the next.
Recursion(S, a, g) ==
    \E f \in [Nat -> S] : f[0] = a /\ \A k \in Nat : f[k + 1] = g[<<k + 1, f[k]>>]

\* There is one.
LEMMA RecursionExists ==
    \A S : \A a \in S : \A g \in [Nat \X S -> S] : Recursion(S, a, g)
<1> TAKE S
<1> TAKE a \in S
<1> TAKE g \in [Nat \X S -> S]
<1> DEFINE A(k) == {p \in [0..k -> S] : p[0] = a /\ \A j \in 0..(k - 1) : p[j + 1] = g[<<j + 1, p[j]>>]}
<1>1. \A k \in Nat : \E p : p \in A(k)
  <2> DEFINE P == {k \in Nat : \E p : p \in A(k)}
  <2>1. 0 \in P
    <3>1. [j \in 0..0 |-> a] \in A(0)
      OBVIOUS
    <3> QED BY <3>1
  <2>2. ASSUME NEW k \in Nat, k \in P PROVE k + 1 \in P
    <3>1. PICK p : p \in A(k)
      BY <2>2
    <3> DEFINE q == [j \in 0..(k + 1) |-> IF j = k + 1 THEN g[<<k + 1, p[k]>>] ELSE p[j]]
    <3>2. q \in A(k + 1)
      <4>1. p[k] \in S /\ <<k + 1, p[k]>> \in Nat \X S
        BY <3>1
      <4>2. g[<<k + 1, p[k]>>] \in S
        BY <4>1
      <4>3. q \in [0..(k + 1) -> S]
        BY <3>1, <4>2
      <4>4. q[0] = a /\ q[k + 1] = g[<<k + 1, p[k]>>]
        BY <3>1
      <4>5. \A j \in 0..k : q[j] = p[j]
        OBVIOUS
      <4> HIDE DEF q
      <4>6. ASSUME NEW j \in 0..k PROVE q[j + 1] = g[<<j + 1, q[j]>>]
        <5>1. CASE j = k
          BY <5>1, <4>4, <4>5
        <5>2. CASE j # k
          <6>1. j \in 0..(k - 1) /\ j + 1 \in 0..k
            BY <5>2
          <6> QED BY <6>1, <3>1, <4>5
        <5> QED BY <5>1, <5>2
      <4> QED BY <4>3, <4>4, <4>6
    <3> HIDE DEF A
    <3> QED BY <3>2
  <2> HIDE DEF P
  <2>3. \A k \in Nat : k \in P
    BY <2>1, <2>2, NatInd
  <2> QED BY <2>3 DEF P
<1>2. ASSUME NEW k \in Nat, NEW l \in Nat, NEW p \in A(k), NEW q \in A(l), k <= l
      PROVE  \A j \in Nat : j \in {i \in Nat : i <= k => p[i] = q[i]}
  <2> DEFINE P == {i \in Nat : i <= k => p[i] = q[i]}
  <2>1. 0 \in P
    BY <1>2
  <2>2. ASSUME NEW j \in Nat, j \in P PROVE j + 1 \in P
    <3>1. CASE j + 1 <= k
      <4>1. j \in 0..(k - 1) /\ j \in 0..(l - 1)
        BY <3>1, <1>2
      <4>2. p[j] = q[j]
        BY <2>2, <3>1
      <4>3. p[j + 1] = g[<<j + 1, p[j]>>] /\ q[j + 1] = g[<<j + 1, q[j]>>]
        BY <4>1
      <4> QED BY <4>2, <4>3
    <3>2. CASE ~ (j + 1 <= k)
      BY <3>2
    <3> QED BY <3>1, <3>2
  <2> HIDE DEF P
  <2>3. \A j \in Nat : j \in P
    BY <2>1, <2>2, NatInd
  <2> QED BY <2>3 DEF P
<1> DEFINE f == [k \in Nat |-> (CHOOSE p : p \in A(k))[k]]
<1>3. ASSUME NEW k \in Nat PROVE \A j \in 0..k : f[j] = (CHOOSE p : p \in A(k))[j]
  <2> TAKE j \in 0..k
  <2> DEFINE p == CHOOSE x : x \in A(j)
             q == CHOOSE x : x \in A(k)
  <2> HIDE DEF A
  <2>0. j \in Nat
    OBVIOUS
  <2>1. p \in A(j) /\ q \in A(k)
    BY <1>1, <2>0, Zenon
  <2>2. f[j] = p[j]
    OBVIOUS
  <2> HIDE DEF p, q, f
  <2>3. p[j] = q[j]
    BY <1>2, <2>1
  <2>4. f[j] = q[j]
    BY <2>2, <2>3
  <2> QED BY <2>4 DEF q
<1>4. ASSUME NEW k \in Nat PROVE f[k] \in S /\ f[0] = a /\ f[k + 1] = g[<<k + 1, f[k]>>]
  <2> DEFINE q == CHOOSE x : x \in A(k + 1)
  <2> HIDE DEF A, f
  <2>0. k + 1 \in Nat
    OBVIOUS
  <2>1. q \in A(k + 1)
    BY <1>1, <2>0, Zenon
  <2>2. \A j \in 0..(k + 1) : f[j] = q[j]
    BY <1>3, <2>0, Zenon
  <2> HIDE DEF q
  <2> USE DEF A
  <2>3. q[k] \in S /\ q[0] = a /\ q[k + 1] = g[<<k + 1, q[k]>>]
    BY <2>1
  <2> QED BY <2>2, <2>3
<1>5. f \in [Nat -> S]
  BY <1>4
<1> HIDE DEF f
<1> QED BY <1>4, <1>5 DEF Recursion

-----------------------------------------------------------------------------
\* Powers of two.

\* The recursive definition of Pow2 defines it.
LEMMA Pow2Rec ==
    Pow2[0] = 1 /\ \A k \in Nat : Pow2[k] \in Nat /\ Pow2[k + 1] = 2 * Pow2[k]
<1> DEFINE D(f) == f = [k \in Nat |-> IF k = 0 THEN 1 ELSE 2 * f[k - 1]]
<1>1. \E f : D(f)
  <2> DEFINE g == [x \in Nat \X Nat |-> 2 * x[2]]
  <2>1. g \in [Nat \X Nat -> Nat] /\ \A k, m \in Nat : g[<<k, m>>] = 2 * m
    OBVIOUS
  <2> HIDE DEF g
  <2>2. PICK f \in [Nat -> Nat] : f[0] = 1 /\ \A k \in Nat : f[k + 1] = g[<<k + 1, f[k]>>]
    <3>1. Recursion(Nat, 1, g)
      BY <2>1, RecursionExists
    <3> QED BY <3>1 DEF Recursion
  <2>3. ASSUME NEW k \in Nat PROVE f[k] = IF k = 0 THEN 1 ELSE 2 * f[k - 1]
    <3>1. CASE k = 0
      BY <3>1, <2>2
    <3>2. CASE k # 0
      <4>1. k - 1 \in Nat /\ (k - 1) + 1 = k
        BY <3>2
      <4>2. f[k] = g[<<k, f[k - 1]>>]
        BY <4>1, <2>2
      <4> QED BY <4>1, <4>2, <2>1, <2>2, <3>2
    <3> QED BY <3>1, <3>2
  <2>4. f = [k \in Nat |-> IF k = 0 THEN 1 ELSE 2 * f[k - 1]]
    BY <2>2, <2>3
  <2> QED BY <2>4
<1>2. Pow2 = CHOOSE f : D(f)
  BY DEF Pow2
<1> HIDE DEF D
<1>3. D(Pow2)
  BY <1>1, <1>2, Zenon
<1>4. Pow2 = [k \in Nat |-> IF k = 0 THEN 1 ELSE 2 * Pow2[k - 1]]
  BY <1>3 DEF D
<1>5. Pow2[0] = 1 /\ \A k \in Nat : Pow2[k + 1] = 2 * Pow2[k]
  <2>1. \A k \in Nat : Pow2[k] = IF k = 0 THEN 1 ELSE 2 * Pow2[k - 1]
    BY <1>4, Zenon
  <2> QED BY <2>1
<1>6. \A k \in Nat : k \in {i \in Nat : Pow2[i] \in Nat}
  <2> DEFINE P == {i \in Nat : Pow2[i] \in Nat}
  <2>1. 0 \in P
    BY <1>5
  <2>2. ASSUME NEW k \in Nat, k \in P PROVE k + 1 \in P
    BY <2>2, <1>5
  <2> HIDE DEF P
  <2>3. \A k \in Nat : k \in P
    BY <2>1, <2>2, NatInd
  <2> QED BY <2>3 DEF P
<1> QED BY <1>5, <1>6

\* A power of two is larger than its exponent, and larger exponents have larger powers.
LEMMA Pow2Grows ==
    \A k \in Nat : Pow2[k] \in Nat \ {0} /\ k < Pow2[k]
<1> DEFINE P == {i \in Nat : Pow2[i] \in Nat \ {0} /\ i < Pow2[i]}
<1>1. 0 \in P
  BY Pow2Rec
<1>2. ASSUME NEW k \in Nat, k \in P PROVE k + 1 \in P
  <2>1. Pow2[k] \in Nat \ {0} /\ k < Pow2[k] /\ Pow2[k + 1] = 2 * Pow2[k]
    BY <1>2, Pow2Rec
  <2> QED BY <2>1
<1> HIDE DEF P
<1>3. \A k \in Nat : k \in P
  BY <1>1, <1>2, NatInd
<1> QED BY <1>3 DEF P

\* The power of a sum is the product of the powers.
LEMMA Pow2Add ==
    ASSUME NEW a \in Nat, NEW b \in Nat
    PROVE  Pow2[a + b] = Pow2[a] * Pow2[b]
<1> DEFINE P == {i \in Nat : Pow2[a + i] = Pow2[a] * Pow2[i]}
<1>1. 0 \in P
  <2>1. a + 0 = a /\ Pow2[a] \in Nat
    BY Pow2Rec
  <2> QED BY <2>1, Pow2Rec
<1>2. ASSUME NEW k \in Nat, k \in P PROVE k + 1 \in P
  <2>1. a + k \in Nat /\ a + (k + 1) = (a + k) + 1
    OBVIOUS
  <2>2. Pow2[a + (k + 1)] = 2 * Pow2[a + k] /\ Pow2[k + 1] = 2 * Pow2[k]
    BY <2>1, Pow2Rec
  <2>3. Pow2[a + k] = Pow2[a] * Pow2[k] /\ Pow2[a] \in Nat /\ Pow2[k] \in Nat
    BY <1>2, Pow2Rec
  <2>4. \A x, y \in Nat : 2 * (x * y) = x * (2 * y)
    OBVIOUS
  <2>5. Pow2[a + (k + 1)] = Pow2[a] * Pow2[k + 1]
    BY <2>2, <2>3, <2>4
  <2> QED BY <2>5
<1> HIDE DEF P
<1>3. \A k \in Nat : k \in P
  BY <1>1, <1>2, NatInd
<1> QED BY <1>3 DEF P

\* The power of a larger exponent is at least twice as large.
LEMMA Pow2Mono ==
    ASSUME NEW a \in Nat, NEW b \in Nat, a < b
    PROVE  2 * Pow2[a] <= Pow2[b]
<1>1. b - a - 1 \in Nat /\ b = (a + 1) + (b - a - 1) /\ a + 1 \in Nat
  OBVIOUS
<1>2. Pow2[b] = Pow2[a + 1] * Pow2[b - a - 1]
  BY <1>1, Pow2Add
<1>3. Pow2[a + 1] = 2 * Pow2[a] /\ Pow2[a + 1] \in Nat /\ Pow2[a] \in Nat
  BY Pow2Rec, <1>1
<1>4. Pow2[b - a - 1] \in Nat \ {0}
  BY <1>1, Pow2Grows
<1>5. \A x \in Nat, y \in Nat \ {0} : x <= x * y
  OBVIOUS
<1> QED BY <1>2, <1>3, <1>4, <1>5

-----------------------------------------------------------------------------
\* The depths of the trees.

\* The depth of a tree: its levels have room for all nodes, one level less has not.
LEMMA TreeDepthFacts ==
    ASSUME NEW nodes \in Nat
    PROVE  /\ TreeDepth(nodes) \in Nat \ {0}
           /\ nodes < Pow2[TreeDepth(nodes)]
           /\ nodes = 0 \/ Pow2[TreeDepth(nodes) - 1] <= nodes
<1> DEFINE Fits(d) == Pow2[d] - 1 >= nodes /\ (d = 1 \/ Pow2[d - 1] - 1 < nodes)
           T == {d \in 1..(nodes + 1) : nodes < Pow2[d]}
<1>1. nodes + 1 \in T
  <2>1. nodes + 1 < Pow2[nodes + 1]
    BY Pow2Grows
  <2> QED BY <2>1, Pow2Rec
<1>2. PICK d \in T : \A e \in T : d <= e
  <2>1. T \subseteq Nat /\ T # {}
    BY <1>1
  <2> HIDE DEF T
  <2> QED BY <2>1, NatMin
<1>3. d \in 1..(nodes + 1) /\ Fits(d)
  <2>1. d \in 1..(nodes + 1) /\ nodes < Pow2[d] /\ Pow2[d] \in Nat
    BY <1>2, Pow2Rec
  <2>2. CASE d # 1
    <3>1. d - 1 \in 1..(nodes + 1) /\ d - 1 \notin T /\ Pow2[d - 1] \in Nat
      BY <2>1, <2>2, <1>2, Pow2Rec
    <3> QED BY <2>1, <3>1
  <2> QED BY <2>1, <2>2
<1> HIDE DEF Fits, T
<1>4. TreeDepth(nodes) = CHOOSE e \in 1..(nodes + 1) : Fits(e)
  BY DEF TreeDepth, Fits
<1>5. TreeDepth(nodes) \in 1..(nodes + 1) /\ Fits(TreeDepth(nodes))
  BY <1>3, <1>4, Zenon
<1> DEFINE D == TreeDepth(nodes)
<1> HIDE DEF D
<1>6. D \in 1..(nodes + 1) /\ Pow2[D] - 1 >= nodes /\ (D = 1 \/ Pow2[D - 1] - 1 < nodes)
  BY <1>5 DEF Fits, D
<1>7. D - 1 \in Nat /\ Pow2[D] \in Nat /\ Pow2[D - 1] \in Nat
  BY <1>6, Pow2Rec
<1>8. D = 1 => Pow2[D - 1] = 1
  BY Pow2Rec
<1>9. D \in Nat \ {0} /\ nodes < Pow2[D] /\ (nodes = 0 \/ Pow2[D - 1] <= nodes)
  BY <1>6, <1>7, <1>8
<1> QED BY <1>9 DEF D

\* The reader and the writer compute the same number of levels.
LEMMA PreviewDepthFacts ==
    /\ PreviewDepth \in Nat
    /\ Pow2[PreviewDepth] <= KeysPerBlock /\ KeysPerBlock < Pow2[PreviewDepth + 1]
    /\ \A nodes \in Nat : preview_depth(nodes) = IF nodes < KeysPerBlock THEN 0 ELSE PreviewDepth
<1> DEFINE Reads(d) == Pow2[d + 1] - 1 >= KeysPerBlock /\ (d = 0 \/ Pow2[d] - 1 < KeysPerBlock)
           Writes(d) == Pow2[d] <= KeysPerBlock /\ KeysPerBlock < Pow2[d + 1]
           T == {d \in 0..KeysPerBlock : KeysPerBlock < Pow2[d + 1]}
<1>0. KeysPerBlock \in Nat \ {0}
  BY SubIndexAssumption
<1>1. KeysPerBlock \in T
  <2>1. KeysPerBlock + 1 \in Nat
    BY <1>0
  <2> QED BY <1>0, <2>1, Pow2Grows
<1>2. PICK d \in T : \A e \in T : d <= e
  <2>1. T \subseteq Nat /\ T # {}
    BY <1>0, <1>1
  <2> HIDE DEF T
  <2> QED BY <2>1, NatMin
<1>3. \A e \in 0..KeysPerBlock : Reads(e) <=> Writes(e)
  <2> SUFFICES ASSUME NEW e \in 0..KeysPerBlock PROVE Reads(e) <=> Writes(e)
    OBVIOUS
  <2>1. Pow2[e] \in Nat /\ Pow2[e + 1] \in Nat /\ (e = 0 => Pow2[e] = 1)
    BY Pow2Rec, <1>0
  <2> QED BY <2>1, <1>0
<1>4. d \in 0..KeysPerBlock /\ Writes(d)
  <2>1. d \in 0..KeysPerBlock /\ KeysPerBlock < Pow2[d + 1] /\ Pow2[d] \in Nat
    BY <1>0, <1>2, Pow2Rec
  <2>2. CASE d # 0
    <3>1. d - 1 \in 0..KeysPerBlock /\ (d - 1) + 1 = d /\ d - 1 \notin T
      BY <1>0, <2>1, <2>2, <1>2
    <3> QED BY <2>1, <3>1, <1>0
  <2>3. CASE d = 0
    BY <2>1, <2>3, <1>0, Pow2Rec
  <2> QED BY <2>2, <2>3
<1>5. \A x, y \in 0..KeysPerBlock : Writes(x) /\ Writes(y) => x = y
  <2> SUFFICES ASSUME NEW x \in 0..KeysPerBlock, NEW y \in 0..KeysPerBlock,
                      Writes(x), Writes(y), x < y
               PROVE  FALSE
    BY <1>0
  <2>1. x + 1 \in Nat /\ y \in Nat /\ x \in Nat /\ Pow2[x + 1] = 2 * Pow2[x]
    BY <1>0, Pow2Rec
  <2>2. 2 * Pow2[x] <= Pow2[y]
    BY <2>1, Pow2Mono
  <2> QED BY <2>1, <2>2, <1>0, Pow2Rec
<1> HIDE DEF Reads, Writes, T
<1>6. PreviewDepth = CHOOSE e \in 0..KeysPerBlock : Reads(e)
  BY DEF PreviewDepth, Reads
<1>7. PreviewDepth \in 0..KeysPerBlock /\ Reads(PreviewDepth)
  BY <1>3, <1>4, <1>6, Zenon
<1>8. Writes(PreviewDepth)
  BY <1>3, <1>7
<1>9. (CHOOSE e \in 0..KeysPerBlock : Writes(e)) = PreviewDepth
  BY <1>5, <1>7, <1>8, Zenon
<1>10. \A nodes \in Nat : preview_depth(nodes) = IF nodes < KeysPerBlock THEN 0 ELSE PreviewDepth
  <2>1. \A nodes \in Nat : preview_depth(nodes) = IF nodes < KeysPerBlock THEN 0
                             ELSE CHOOSE e \in 0..KeysPerBlock : Writes(e)
    BY Zenon DEF preview_depth, Writes
  <2> QED BY <1>9, <2>1
<1>11. Pow2[PreviewDepth] <= KeysPerBlock /\ KeysPerBlock < Pow2[PreviewDepth + 1]
  BY <1>8 DEF Writes
<1> QED BY <1>0, <1>7, <1>10, <1>11

-----------------------------------------------------------------------------
\* What the writer puts into the preview list.

\* The recursive definition of NodeHeight defines it.
LEMMA NodeHeightRec ==
    \A h, k \in Nat :
        NodeHeight[h][k] = IF Pow2[h] = k THEN h
                           ELSE IF h = 0 THEN -1
                           ELSE NodeHeight[h - 1][IF Pow2[h] < k THEN k - Pow2[h] ELSE k]
<1> DEFINE Row(h, F) == [k \in Nat |-> IF Pow2[h] = k THEN h
                                      ELSE IF h = 0 THEN -1
                                      ELSE F[IF Pow2[h] < k THEN k - Pow2[h] ELSE k]]
           Def(f) == f = [h \in Nat |-> Row(h, f[h - 1])]
           S == [Nat -> Int]
<1>0. \A h \in Nat : \A F \in S : Row(h, F) \in S
  BY Pow2Rec
<1>a. \A F : Row(0, F) = Row(0, 0)
  OBVIOUS
<1>b. Row(0, 0) \in S
  OBVIOUS
<1>1. \E f : Def(f)
  <2> DEFINE g == [x \in Nat \X S |-> Row(x[1], x[2])]
  <2> HIDE DEF Row
  <2>1. g \in [Nat \X S -> S] /\ \A k \in Nat : \A F \in S : g[<<k, F>>] = Row(k, F)
    BY <1>0
  <2> HIDE DEF g, S
  <2>2. PICK f \in [Nat -> S] : f[0] = Row(0, 0) /\ \A k \in Nat : f[k + 1] = g[<<k + 1, f[k]>>]
    <3>1. Recursion(S, Row(0, 0), g)
      BY <2>1, <1>b, RecursionExists
    <3> QED BY <3>1 DEF Recursion
  <2>3. ASSUME NEW k \in Nat PROVE f[k] = Row(k, f[k - 1])
    <3>1. CASE k = 0
      BY <3>1, <2>2, <1>a
    <3>2. CASE k # 0
      <4>1. k - 1 \in Nat /\ (k - 1) + 1 = k
        BY <3>2
      <4>2. f[k] = g[<<k, f[k - 1]>>] /\ f[k - 1] \in S
        BY <4>1, <2>2
      <4> QED BY <4>2, <2>1
    <3> QED BY <3>1, <3>2
  <2>4. f = [k \in Nat |-> Row(k, f[k - 1])]
    BY <2>2, <2>3
  <2> QED BY <2>4
<1>2. NodeHeight = CHOOSE f : Def(f)
  BY DEF NodeHeight
<1> HIDE DEF Def
<1>3. Def(NodeHeight)
  BY <1>1, <1>2, Zenon
<1>4. \A h \in Nat : NodeHeight[h] = Row(h, NodeHeight[h - 1])
  <2> HIDE DEF Row
  <2>1. NodeHeight = [h \in Nat |-> Row(h, NodeHeight[h - 1])]
    BY <1>3 DEF Def
  <2> QED BY <2>1, Zenon
<1>5. \A F : \A h, k \in Nat :
        Row(h, F)[k] = IF Pow2[h] = k THEN h
                       ELSE IF h = 0 THEN -1
                       ELSE F[IF Pow2[h] < k THEN k - Pow2[h] ELSE k]
  OBVIOUS
<1> HIDE DEF Row
<1> TAKE h, k \in Nat
<1>6. NodeHeight[h][k] = Row(h, NodeHeight[h - 1])[k]
  BY <1>4
<1> QED BY <1>5, <1>6

\* k is a multiple of x.
Multiple(k, x) == \E q \in Nat : k = q * x

\* Multiples of x: none is smaller than x, and adding one to a number changes nothing.
LEMMA MultipleFacts ==
    ASSUME NEW x \in Nat \ {0}, NEW k \in Nat \ {0}
    PROVE  /\ Multiple(k, x) => x <= k
           /\ \A s \in Nat : k < s * x => ~ (\E q \in Nat : k = q * x /\ s <= q)
           /\ \A s \in Nat : Multiple(k + s * x, x) <=> Multiple(k, x)
<1>1. \A q \in Nat : k = q * x => x <= k
  OBVIOUS
<1>2. \A s, q \in Nat : s <= q => s * x <= q * x
  OBVIOUS
<1>3. ASSUME NEW s \in Nat PROVE Multiple(k + s * x, x) <=> Multiple(k, x)
  <2>1. ASSUME NEW q \in Nat, k = q * x PROVE k + s * x = (q + s) * x /\ q + s \in Nat
    BY <2>1
  <2>2. ASSUME NEW q \in Nat, k + s * x = q * x PROVE k = (q - s) * x /\ q - s \in Nat
    <3>1. ~ (q <= s)
      <4>1. q <= s => q * x <= s * x
        BY <1>2
      <4>2. q * x \in Nat /\ s * x \in Nat
        OBVIOUS
      <4> QED BY <4>1, <4>2, <2>2
    <3>2. (q - s) * x = q * x - s * x
      OBVIOUS
    <3> QED BY <2>2, <3>1, <3>2
  <2> QED BY <2>1, <2>2 DEF Multiple
<1> QED BY <1>1, <1>2, <1>3 DEF Multiple

\* In the subtree of a node of height h, the nodes of height m and above are the
\* multiples of 2^m.
LEMMA HeightMultiple ==
    ASSUME NEW m \in Nat, NEW h \in Nat, NEW k \in Nat \ {0}, k < Pow2[h + 1]
    PROVE  NodeHeight[h][k] \in 0..h /\ (NodeHeight[h][k] >= m <=> Multiple(k, Pow2[m]))
<1> DEFINE Good(i, j) == NodeHeight[i][j] \in 0..i /\ (NodeHeight[i][j] >= m <=> Multiple(j, Pow2[m]))
           P == {i \in Nat : \A j \in Nat \ {0} : j < Pow2[i + 1] => Good(i, j)}
<1>0. Pow2[m] \in Nat \ {0}
  BY Pow2Grows
<1>1. ASSUME NEW i \in Nat, NEW j \in Nat \ {0}, j < Pow2[i + 1], m > i PROVE ~ Multiple(j, Pow2[m])
  <2>1. i + 1 \in Nat /\ Pow2[i + 1] \in Nat
    BY Pow2Rec
  <2>2. Pow2[i + 1] <= Pow2[m]
    <3>1. CASE i + 1 = m
      BY <3>1, <2>1
    <3>2. CASE i + 1 # m
      <4>1. 2 * Pow2[i + 1] <= Pow2[m]
        BY <3>2, <2>1, <1>1, Pow2Mono
      <4> QED BY <4>1, <2>1, <1>0
    <3> QED BY <3>1, <3>2
  <2>3. Multiple(j, Pow2[m]) => Pow2[m] <= j
    BY <1>0, MultipleFacts
  <2> QED BY <1>0, <1>1, <2>1, <2>2, <2>3
<1>2. ASSUME NEW i \in Nat, m <= i PROVE \E s \in Nat : Pow2[i] = s * Pow2[m]
  <2>1. i - m \in Nat /\ i = (i - m) + m
    BY <1>2
  <2>2. Pow2[(i - m) + m] = Pow2[i - m] * Pow2[m]
    BY <2>1, Pow2Add
  <2>3. Pow2[i] = Pow2[i - m] * Pow2[m] /\ Pow2[i - m] \in Nat
    BY <2>1, <2>2, Pow2Rec
  <2> QED BY <2>3
<1>3. ASSUME NEW i \in Nat PROVE Good(i, Pow2[i])
  <2>1. NodeHeight[i][Pow2[i]] = i
    <3>1. \A j \in Nat : j = Pow2[i] => NodeHeight[i][j] = i
      BY NodeHeightRec
    <3> QED BY <3>1, Pow2Rec
  <2>2. CASE m <= i
    BY <2>1, <2>2, <1>2 DEF Multiple
  <2>3. CASE m > i
    <3>1. Pow2[i] \in Nat \ {0} /\ Pow2[i] < Pow2[i + 1]
      BY Pow2Grows, Pow2Rec
    <3> QED BY <2>1, <2>3, <3>1, <1>1
  <2> QED BY <2>2, <2>3
<1> HIDE DEF Good
<1>4. 0 \in P
  <2>1. \A j \in Nat \ {0} : j < Pow2[0 + 1] => j = Pow2[0]
    BY Pow2Rec
  <2> QED BY <2>1, <1>3
<1>5. ASSUME NEW i \in Nat, i \in P PROVE i + 1 \in P
  <2> SUFFICES ASSUME NEW j \in Nat \ {0}, j < Pow2[(i + 1) + 1] PROVE Good(i + 1, j)
    OBVIOUS
  <2> DEFINE p == Pow2[i + 1]
  <2>1. i + 1 \in Nat /\ p \in Nat \ {0} /\ j < 2 * p /\ (i + 1) - 1 = i /\ i + 1 # 0
    BY Pow2Rec, Pow2Grows
  <2>0. NodeHeight[i + 1][j] = IF Pow2[i + 1] = j THEN i + 1
                                   ELSE IF i + 1 = 0 THEN -1
                                   ELSE NodeHeight[(i + 1) - 1][IF Pow2[i + 1] < j
                                                                  THEN j - Pow2[i + 1] ELSE j]
    BY <2>1, NodeHeightRec, Zenon
  <2>2. CASE j = p
    BY <2>2, <2>1, <1>3
  <2>3. CASE j < p
    <3>1. NodeHeight[i + 1][j] = NodeHeight[i][j]
      BY <2>0, <2>1, <2>3
    <3>2. Good(i, j)
      BY <2>3, <1>5
    <3> QED BY <3>1, <3>2, <2>1 DEF Good
  <2>4. CASE p < j
    <3> DEFINE r == j - p
    <3>1. r \in Nat \ {0} /\ r < p /\ j = r + p
      BY <2>1, <2>4
    <3>2. NodeHeight[i + 1][j] = NodeHeight[i][r]
      BY <2>0, <2>1, <2>4
    <3> HIDE DEF r
    <3>3. Good(i, r)
      BY <3>1, <1>5
    <3>4. CASE m > i + 1
      <4>1. ~ Multiple(j, Pow2[m])
        BY <3>4, <2>1, <1>1
      <4>2. NodeHeight[i][r] \in 0..i
        BY <3>3 DEF Good
      <4> QED BY <3>2, <3>4, <4>1, <4>2 DEF Good
    <3>5. CASE m <= i + 1
      <4>1. PICK s \in Nat : p = s * Pow2[m]
        BY <3>5, <2>1, <1>2
      <4>2. Multiple(j, Pow2[m]) <=> Multiple(r, Pow2[m])
        BY <4>1, <3>1, <1>0, MultipleFacts
      <4> QED BY <3>2, <3>3, <4>2 DEF Good
    <3> QED BY <3>4, <3>5, <2>1
  <2> QED BY <2>1, <2>2, <2>3, <2>4
<1> HIDE DEF P
<1>6. h \in P
  BY <1>4, <1>5, NatInd
<1>7. Good(h, k)
  BY <1>6 DEF P
<1> QED BY <1>7 DEF Good

\* node_depth: the nodes of the top levels are the multiples of a power of two.
LEMMA NodeDepthMultiple ==
    ASSUME NEW nodes \in Nat, NEW k \in 1..nodes, NEW levels \in Nat, levels <= TreeDepth(nodes)
    PROVE  node_depth(k, nodes) <= levels <=> Multiple(k, Pow2[TreeDepth(nodes) - levels])
<1> DEFINE D == TreeDepth(nodes)
<1>1. D \in Nat \ {0} /\ nodes < Pow2[D]
  BY TreeDepthFacts
<1>2. node_depth(k, nodes) = IF NodeHeight[D - 1][k] = -1 THEN 0 ELSE D - NodeHeight[D - 1][k]
  BY DEF node_depth
<1> HIDE DEF D
<1>3. D - 1 \in Nat /\ (D - 1) + 1 = D /\ D - levels \in Nat /\ k \in Nat \ {0}
  BY <1>1 DEF D
<1>a. k < Pow2[(D - 1) + 1]
  BY <1>1, <1>3, Pow2Rec
<1>4. NodeHeight[D - 1][k] \in 0..(D - 1) /\ (NodeHeight[D - 1][k] >= D - levels <=> Multiple(k, Pow2[D - levels]))
  BY <1>3, <1>a, HeightMultiple
<1>5. node_depth(k, nodes) <= levels <=> Multiple(k, Pow2[D - levels])
  BY <1>1, <1>2, <1>3, <1>4
<1> QED BY <1>5 DEF D

\* The recursive definition of Listed defines it.
LEMMA ListedRec ==
    \A nodes \in Nat :
        /\ Listed[0][nodes] = <<>>
        /\ \A i \in Nat : Listed[i + 1][nodes] =
                IF node_depth(i + 1, nodes) <= preview_depth(nodes)
                  THEN Append(Listed[i][nodes], i + 1) ELSE Listed[i][nodes]
<1> DEFINE Row(i, F) == [nodes \in Nat |-> IF i = 0 THEN <<>>
                                          ELSE IF node_depth(i, nodes) <= preview_depth(nodes)
                                                 THEN Append(F[nodes], i)
                                                 ELSE F[nodes]]
           Def(f) == f = [i \in Nat |-> Row(i, f[i - 1])]
           S == [Nat -> Seq(Nat)]
<1>0. \A i \in Nat : \A F \in S : Row(i, F) \in S
  OBVIOUS
<1>a. \A F : Row(0, F) = Row(0, 0)
  OBVIOUS
<1>b. Row(0, 0) \in S
  OBVIOUS
<1>1. \E f : Def(f)
  <2> DEFINE g == [x \in Nat \X S |-> Row(x[1], x[2])]
  <2> HIDE DEF Row
  <2>1. g \in [Nat \X S -> S] /\ \A k \in Nat : \A F \in S : g[<<k, F>>] = Row(k, F)
    BY <1>0
  <2> HIDE DEF g, S
  <2>2. PICK f \in [Nat -> S] : f[0] = Row(0, 0) /\ \A k \in Nat : f[k + 1] = g[<<k + 1, f[k]>>]
    <3>1. Recursion(S, Row(0, 0), g)
      BY <2>1, <1>b, RecursionExists
    <3> QED BY <3>1 DEF Recursion
  <2>3. ASSUME NEW k \in Nat PROVE f[k] = Row(k, f[k - 1])
    <3>1. CASE k = 0
      BY <3>1, <2>2, <1>a
    <3>2. CASE k # 0
      <4>1. k - 1 \in Nat /\ (k - 1) + 1 = k
        BY <3>2
      <4>2. f[k] = g[<<k, f[k - 1]>>] /\ f[k - 1] \in S
        BY <4>1, <2>2
      <4> QED BY <4>2, <2>1
    <3> QED BY <3>1, <3>2
  <2>4. f = [k \in Nat |-> Row(k, f[k - 1])]
    BY <2>2, <2>3
  <2> QED BY <2>4
<1>2. Listed = CHOOSE f : Def(f)
  BY DEF Listed
<1> HIDE DEF Def
<1>3. Def(Listed)
  BY <1>1, <1>2, Zenon
<1>4. \A i \in Nat : Listed[i] = Row(i, Listed[i - 1])
  <2> HIDE DEF Row
  <2>1. Listed = [i \in Nat |-> Row(i, Listed[i - 1])]
    BY <1>3 DEF Def
  <2> QED BY <2>1, Zenon
<1>5. \A F : \A i, nodes \in Nat :
        Row(i, F)[nodes] = IF i = 0 THEN <<>>
                           ELSE IF node_depth(i, nodes) <= preview_depth(nodes)
                                  THEN Append(F[nodes], i) ELSE F[nodes]
  OBVIOUS
<1> HIDE DEF Row
<1> TAKE nodes \in Nat
<1>6. \A i \in Nat : Listed[i][nodes] = Row(i, Listed[i - 1])[nodes]
  BY <1>4
<1>7. Listed[0][nodes] = <<>>
  BY <1>5, <1>6
<1>8. ASSUME NEW i \in Nat
      PROVE  Listed[i + 1][nodes] = IF node_depth(i + 1, nodes) <= preview_depth(nodes)
                                      THEN Append(Listed[i][nodes], i + 1) ELSE Listed[i][nodes]
  <2>1. i + 1 \in Nat /\ i + 1 # 0 /\ (i + 1) - 1 = i
    OBVIOUS
  <2>2. Listed[i + 1][nodes] = Row(i + 1, Listed[i])[nodes]
    BY <2>1, <1>6
  <2> QED BY <2>1, <2>2, <1>5
<1> QED BY <1>7, <1>8

\* The preview list has fewer levels than the tree, and is empty without levels.
LEMMA PreviewLevels ==
    ASSUME NEW nodes \in Nat
    PROVE  /\ preview_depth(nodes) \in Nat /\ preview_depth(nodes) < TreeDepth(nodes)
           /\ preview_depth(nodes) # 0 => preview_depth(nodes) = PreviewDepth
<1>1. TreeDepth(nodes) \in Nat \ {0} /\ nodes < Pow2[TreeDepth(nodes)]
  BY TreeDepthFacts
<1>2. PreviewDepth \in Nat /\ Pow2[PreviewDepth] <= KeysPerBlock /\ KeysPerBlock \in Nat
  BY PreviewDepthFacts, SubIndexAssumption
<1>3. preview_depth(nodes) = IF nodes < KeysPerBlock THEN 0 ELSE PreviewDepth
  BY PreviewDepthFacts
<1>4. ASSUME KeysPerBlock <= nodes PROVE PreviewDepth < TreeDepth(nodes)
  <2> SUFFICES ASSUME TreeDepth(nodes) <= PreviewDepth PROVE FALSE
    BY <1>1, <1>2
  <2>1. TreeDepth(nodes) = PreviewDepth \/ 2 * Pow2[TreeDepth(nodes)] <= Pow2[PreviewDepth]
    BY <1>1, <1>2, Pow2Mono
  <2>2. Pow2[TreeDepth(nodes)] \in Nat /\ Pow2[PreviewDepth] \in Nat
    BY <1>1, <1>2, Pow2Rec
  <2> QED BY <1>1, <1>2, <1>4, <2>1, <2>2
<1> QED BY <1>1, <1>2, <1>3, <1>4

\* The multiple of x that comes next after c * x.
LEMMA NextMultiple ==
    ASSUME NEW x \in Nat \ {0}, NEW c \in Nat, NEW q \in Nat, c * x < q * x, q * x <= c * x + x
    PROVE  q = c + 1
<1>1. \A a, b \in Nat : a <= b => a * x <= b * x
  OBVIOUS
<1>2. c * x \in Nat /\ q * x \in Nat /\ (c + 2) * x = c * x + 2 * x
  OBVIOUS
<1>3. ~ (q <= c)
  BY <1>1, <1>2
<1>4. ~ (c + 2 <= q)
  <2>1. c + 2 <= q => (c + 2) * x <= q * x
    BY <1>1
  <2> QED BY <1>2, <2>1
<1> QED BY <1>3, <1>4

\* l is the list of the multiples of x up to i.
Multiples(l, x, i) ==
    /\ l \in Seq(Nat)
    /\ Len(l) * x <= i /\ i < Len(l) * x + x
    /\ \A j \in 1..Len(l) : l[j] = j * x

\* The list of multiples grows by the next number when that one is a multiple.
LEMMA MultiplesAppend ==
    ASSUME NEW x \in Nat \ {0}, NEW i \in Nat, NEW l, Multiples(l, x, i)
    PROVE  Multiples(IF Multiple(i + 1, x) THEN Append(l, i + 1) ELSE l, x, i + 1)
<1>1. PICK c \in Nat : c = Len(l)
  BY DEF Multiples
<1>2. PICK y \in Nat : y = c * x
  OBVIOUS
<1>3. (c + 1) * x = y + x
  BY <1>2
<1>4. y <= i /\ i < y + x
  BY <1>1, <1>2 DEF Multiples
<1>5. CASE Multiple(i + 1, x)
  <2>1. PICK q \in Nat : i + 1 = q * x
    BY <1>5 DEF Multiple
  <2>2. q = c + 1
    BY <2>1, <1>2, <1>4, NextMultiple
  <2>3. i + 1 = y + x
    BY <2>1, <2>2, <1>3
  <2> DEFINE k == Append(l, i + 1)
  <2>4. k \in Seq(Nat) /\ Len(k) = c + 1 /\ k[c + 1] = i + 1 /\ \A j \in 1..c : k[j] = l[j]
    BY <1>1 DEF Multiples
  <2> HIDE DEF k
  <2>5. \A j \in 1..Len(k) : k[j] = j * x
    <3> TAKE j \in 1..Len(k)
    <3>1. CASE j \in 1..c
      BY <3>1, <1>1, <2>4 DEF Multiples
    <3>2. CASE j = c + 1
      BY <3>2, <2>3, <2>4, <1>3
    <3> QED BY <3>1, <3>2, <2>4
  <2>6. Multiples(k, x, i + 1)
    BY <2>3, <2>4, <2>5, <1>3 DEF Multiples
  <2> QED BY <1>5, <2>6 DEF k
<1>6. CASE ~ Multiple(i + 1, x)
  <2>1. i + 1 # (c + 1) * x
    <3> SUFFICES ASSUME i + 1 = (c + 1) * x PROVE FALSE
      OBVIOUS
    <3>1. c + 1 \in Nat
      OBVIOUS
    <3> QED BY ONLY <3>1, <1>6, i + 1 = (c + 1) * x DEF Multiple
  <2>2. i + 1 < y + x
    BY <1>3, <1>4, <2>1
  <2>3. Multiples(l, x, i + 1)
    BY <1>1, <1>2, <1>4, <2>2 DEF Multiples
  <2> QED BY <1>6, <2>3
<1> QED BY <1>5, <1>6

\* The preview list as far as i records were written: the multiples of the distance
\* between two of its nodes.
LEMMA ListedFacts ==
    ASSUME NEW nodes \in Nat, NEW x, x = Pow2[TreeDepth(nodes) - preview_depth(nodes)]
    PROVE  /\ Listed[nodes][nodes] \in Seq(Nat)
           /\ Len(Listed[nodes][nodes]) * x <= nodes
           /\ \A j \in 1..Len(Listed[nodes][nodes]) : Listed[nodes][nodes][j] = j * x
<1> DEFINE L(i) == Listed[i][nodes]
           P == {i \in Nat : i <= nodes => Multiples(L(i), x, i)}
<1>1. x \in Nat \ {0}
  <2>1. TreeDepth(nodes) - preview_depth(nodes) \in Nat
    BY PreviewLevels, TreeDepthFacts
  <2> QED BY <2>1, Pow2Grows
<1>2. 0 \in P
  <2>1. L(0) = <<>>
    BY ListedRec
  <2>2. Len(L(0)) = 0 /\ L(0) \in Seq(Nat)
    BY <2>1
  <2>3. 0 * x = 0
    BY <1>1
  <2> HIDE DEF L
  <2>4. Multiples(L(0), x, 0)
    BY <1>1, <2>2, <2>3 DEF Multiples
  <2> QED BY <2>4
<1>3. ASSUME NEW i \in Nat, i \in P PROVE i + 1 \in P
  <2> SUFFICES ASSUME i + 1 <= nodes PROVE Multiples(L(i + 1), x, i + 1)
    OBVIOUS
  <2>1. Multiples(L(i), x, i)
    BY <1>3
  <2>2. i + 1 \in 1..nodes
    OBVIOUS
  <2>3. node_depth(i + 1, nodes) <= preview_depth(nodes) <=> Multiple(i + 1, x)
    <3>1. preview_depth(nodes) \in Nat /\ preview_depth(nodes) <= TreeDepth(nodes)
      BY PreviewLevels, TreeDepthFacts
    <3> QED BY <2>2, <3>1, NodeDepthMultiple
  <2>4. L(i + 1) = IF Multiple(i + 1, x) THEN Append(L(i), i + 1) ELSE L(i)
    BY <2>3, ListedRec
  <2> HIDE DEF L
  <2> QED BY <1>1, <2>1, <2>4, MultiplesAppend
<1> HIDE DEF P
<1>4. nodes \in P
  BY <1>2, <1>3, NatInd
<1> QED BY <1>4 DEF P, Multiples

\* The preview list as it is written.
LEMMA PreviewListFacts ==
    ASSUME NEW nodes \in Nat
    PROVE  /\ PreviewList(nodes) \in Seq(Nat)
           /\ \A j \in 1..Len(PreviewList(nodes)) :
                 PreviewList(nodes)[j] = j * Pow2[TreeDepth(nodes) - preview_depth(nodes)]
           /\ Len(PreviewList(nodes)) * Pow2[TreeDepth(nodes) - preview_depth(nodes)] <= nodes
           /\ PreviewList(nodes) # <<>> => preview_depth(nodes) = PreviewDepth /\ PreviewDepth # 0
<1> DEFINE all == Listed[nodes][nodes]
           x == Pow2[TreeDepth(nodes) - preview_depth(nodes)]
           room == KeysPerBlock - HeaderKeys
           list == PreviewList(nodes)
<1>1. all \in Seq(Nat) /\ Len(all) * x <= nodes /\ \A j \in 1..Len(all) : all[j] = j * x
  BY ListedFacts
<1>2. room \in Nat
  BY SubIndexAssumption
<1>3. list = IF Len(all) > room THEN SubSeq(all, 1, room) ELSE all
  BY DEF PreviewList
<1>4. x \in Nat \ {0}
  <2>1. TreeDepth(nodes) - preview_depth(nodes) \in Nat
    BY PreviewLevels, TreeDepthFacts
  <2> QED BY <2>1, Pow2Grows
<1> HIDE DEF all, room, list, x
<1>5. list \in Seq(Nat) /\ Len(list) \in Nat /\ Len(list) <= Len(all)
        /\ \A j \in 1..Len(list) : list[j] = all[j]
  <2>1. CASE Len(all) > room
    BY <1>1, <1>2, <1>3, <2>1
  <2>2. CASE ~ (Len(all) > room)
    BY <1>1, <1>2, <1>3, <2>2
  <2> QED BY <2>1, <2>2
<1>6. \A j \in 1..Len(list) : list[j] = j * x
  BY <1>1, <1>5
<1>7. Len(list) * x <= nodes
  <2>1. \A a, b \in Nat : a <= b => a * x <= b * x
    BY <1>4
  <2>2. Len(list) * x <= Len(all) * x /\ Len(list) * x \in Nat /\ Len(all) * x \in Nat
    BY <2>1, <1>1, <1>4, <1>5
  <2> QED BY <2>2, <1>1
<1>8. ASSUME list # <<>> PROVE preview_depth(nodes) # 0
  <2>1. Len(list) >= 1
    BY <1>8, <1>5
  <2>2. x <= Len(list) * x
    BY <2>1, <1>4, <1>5
  <2>3. x <= nodes
    BY <2>2, <1>4, <1>5, <1>7
  <2>4. preview_depth(nodes) = 0 => x = Pow2[TreeDepth(nodes)]
    BY TreeDepthFacts DEF x
  <2>5. nodes < Pow2[TreeDepth(nodes)] /\ Pow2[TreeDepth(nodes)] \in Nat
    BY TreeDepthFacts, Pow2Rec
  <2> QED BY <2>3, <2>4, <2>5
<1>9. list # <<>> => preview_depth(nodes) = PreviewDepth /\ PreviewDepth # 0
  BY <1>8, PreviewLevels
<1> QED BY <1>5, <1>6, <1>7, <1>9 DEF list, x

-----------------------------------------------------------------------------
\* The invariant of a lookup.

\* The positions next to the subtree of node i at depth d, on its left and its right.
Left(i, d) == i - Pow2[Depth - d]
Right(i, d) == i + Pow2[Depth - d]

InTree(i, d) == Left(i, d) \in 0..Pow2[Depth] /\ Right(i, d) \in 0..Pow2[Depth]

\* The first record of the range, or the place where it would be, is in the subtree
\* or just right of it, which is so when the record before it is one of those the walk
\* came by, ws; m is a match on the right.
Bounds(i, d, m, ws) ==
    /\ Left(i, d) <= less /\ less <= Right(i, d) /\ (less = Right(i, d) <=> less \in ws)
    /\ IF Right(i, d) <= less + equal THEN m = Right(i, d) ELSE m = -1 \/ m > less + equal

\* The match that was found for a key that is in the index.
Found(m, ws) == equal > 0 => m = IF less \in ws THEN less ELSE less + 1

\* The file that is searched.
FileOK ==
    /\ n \in Nat /\ preview = PreviewList(n)
    /\ less \in 0..n /\ equal \in 0..(n - less) /\ upto \in (less + equal)..n

\* Where a lookup is in the tree.
PlaceOK ==
    /\ pc \in {"preview", "index"} => depth <= Depth /\ ~ garbage
    /\ pc \in {"preview", "index", "buffer"} /\ depth <= Depth => InTree(index, depth)
    /\ pc = "buffer" /\ depth <= Depth => Pow2[Depth - depth + 1] - 1 <= BufferRecords

\* The place in the preview tree: as long as the list has it, it is that in the tree.
PreviewOK ==
    pc = "preview" =>
        /\ PreviewDepth \in 1..(Depth - 1) /\ preview_depth(n) = PreviewDepth
        /\ nDepth <= PreviewDepth =>
              /\ nIdx - Pow2[PreviewDepth - nDepth] >= 0
              /\ nIdx + Pow2[PreviewDepth - nDepth] <= Pow2[PreviewDepth]
        /\ nIdx <= Len(preview) =>
              depth = nDepth /\ (nDepth <= PreviewDepth => index = nIdx * Pow2[Depth - PreviewDepth])

\* The search goes on in the right subtree.
BoundsOK ==
    pc \in {"preview", "index", "buffer"} /\ depth <= Depth /\ ~ garbage =>
        Bounds(index, depth, last, walked)

\* Below the lowest level, and after the search, the match was found.
FoundOK ==
    /\ pc = "buffer" /\ depth > Depth /\ ~ garbage =>
          index <= n /\ (Cmp(index) = 0 => last = index)
    /\ (pc = "buffer" /\ depth > Depth) \/ pc = "found" => (~ garbage => Found(last, walked))
    /\ ~ garbage => last <= n

\* What is output of a range whose start is in the index, and when the walk that reads
\* one record at a time is done.
LookupOK == PresentExact /\ (slow => 2 * n > BufferRecords)

SubInv ==
    /\ FileOK /\ SubTypeOK /\ PlaceOK /\ PreviewOK /\ BoundsOK /\ FoundOK
    /\ LookupOK /\ FailsOnlyAtEnd /\ UnreadOnlyNearEnd

\* One level down: one side of the subtree stays, the other is the node that was left.
LEMMA DownFacts ==
    ASSUME Depth \in Nat, NEW i \in Int, NEW d \in Nat, d < Depth, NEW c, NEW j,
           j = Down(i, d, Depth, c)
    PROVE  /\ j \in Int
           /\ c = 1 => Left(j, d + 1) = i /\ Right(j, d + 1) = Right(i, d)
           /\ c # 1 => Left(j, d + 1) = Left(i, d) /\ Right(j, d + 1) = i
           /\ Left(i, d) < i /\ i < Right(i, d)
           /\ Left(i, d) \in Int /\ Right(i, d) \in Int
<1>1. Depth - d - 1 \in Nat /\ (Depth - d - 1) + 1 = Depth - d /\ Depth - (d + 1) = Depth - d - 1
  OBVIOUS
<1>2. PICK p \in Nat \ {0} : p = Pow2[Depth - d - 1]
  BY <1>1, Pow2Grows
<1>3. Pow2[Depth - d] = 2 * p /\ Pow2[Depth - (d + 1)] = p
  BY <1>1, <1>2, Pow2Rec
<1>4. j = IF c = 1 THEN i + p ELSE i - p
  BY <1>2 DEF Down
<1> QED BY <1>3, <1>4 DEF Left, Right

\* At a virtual node the search goes left.
LEMMA GoLeft ==
    ASSUME FileOK, Depth \in Nat, NEW i \in Int, NEW d \in Nat, d < Depth, NEW j,
           j = Down(i, d, Depth, -1), NEW m, NEW ws, i > n, InTree(i, d)
    PROVE  InTree(j, d + 1) /\ (Bounds(i, d, m, ws) => Bounds(j, d + 1, m, ws))
<1>1. /\ Left(j, d + 1) = Left(i, d) /\ Right(j, d + 1) = i
      /\ Left(i, d) < i /\ i < Right(i, d) /\ Left(i, d) \in Int /\ Right(i, d) \in Int
  BY DownFacts
<1>2. Depth \in Nat /\ Pow2[Depth] \in Nat
  BY Pow2Rec
<1>3. InTree(j, d + 1)
  BY <1>1, <1>2 DEF InTree
<1>4. ASSUME Bounds(i, d, m, ws) PROVE Bounds(j, d + 1, m, ws)
  BY <1>1, <1>4 DEF Bounds, FileOK
<1> QED BY <1>3, <1>4

\* After a comparison with the record of the node.
LEMMA GoOn ==
    ASSUME FileOK, Depth \in Nat, NEW i \in Int, NEW d \in Nat, d < Depth, NEW c, NEW j,
           j = Down(i, d, Depth, c), InTree(i, d)
    PROVE  InTree(j, d + 1)
<1>1. /\ c = 1 => Left(j, d + 1) = i /\ Right(j, d + 1) = Right(i, d)
      /\ c # 1 => Left(j, d + 1) = Left(i, d) /\ Right(j, d + 1) = i
      /\ Left(i, d) < i /\ i < Right(i, d) /\ Left(i, d) \in Int /\ Right(i, d) \in Int
  BY DownFacts
<1>2. Pow2[Depth] \in Nat
  BY Pow2Rec
<1> QED BY <1>1, <1>2 DEF InTree

\* The comparison keeps the first record of the range in the subtree.
LEMMA GoCmp ==
    ASSUME FileOK, Depth \in Nat, NEW i \in Int, NEW d \in Nat, d < Depth, NEW c, NEW j,
           c = Cmp(i), j = Down(i, d, Depth, c), NEW m, NEW ws, Bounds(i, d, m, ws)
    PROVE  Bounds(j, d + 1, IF c = 0 THEN i ELSE m, ws)
<1>1. /\ c = 1 => Left(j, d + 1) = i /\ Right(j, d + 1) = Right(i, d)
      /\ c # 1 => Left(j, d + 1) = Left(i, d) /\ Right(j, d + 1) = i
      /\ Left(i, d) < i /\ i < Right(i, d) /\ Left(i, d) \in Int /\ Right(i, d) \in Int
  BY DownFacts
<1>2. c = IF i <= less THEN 1 ELSE IF i <= less + equal THEN 0 ELSE -1
  BY DEF Cmp
<1>3. less \in Nat /\ equal \in Nat
  BY DEF FileOK
<1>4. CASE i <= less
  <2>1. c = 1 /\ Left(j, d + 1) = i /\ Right(j, d + 1) = Right(i, d)
    BY <1>1, <1>2, <1>4
  <2>2. Bounds(j, d + 1, m, ws)
    BY <1>3, <1>4, <2>1 DEF Bounds
  <2> QED BY <2>1, <2>2
<1>5. CASE less < i /\ i <= less + equal
  <2>1. c = 0 /\ Left(j, d + 1) = Left(i, d) /\ Right(j, d + 1) = i
    BY <1>1, <1>2, <1>3, <1>5
  <2>2. Bounds(j, d + 1, i, ws)
    BY <1>1, <1>3, <1>5, <2>1 DEF Bounds
  <2> QED BY <2>1, <2>2
<1>6. CASE less + equal < i
  <2>1. c = -1 /\ Left(j, d + 1) = Left(i, d) /\ Right(j, d + 1) = i
    BY <1>1, <1>2, <1>3, <1>6
  <2>2. Bounds(j, d + 1, m, ws)
    BY <1>1, <1>3, <1>6, <2>1 DEF Bounds
  <2> QED BY <2>1, <2>2
<1> QED BY <1>3, <1>4, <1>5, <1>6

\* After a comparison with the record behind the node.
LEMMA GoSlow ==
    ASSUME FileOK, Depth \in Nat, NEW i \in Int, NEW d \in Nat, d < Depth, NEW c, NEW j,
           c = Cmp(i + 1), j = Down(i, d, Depth, c), NEW m, NEW ws, Bounds(i, d, m, ws)
    PROVE  Bounds(j, d + 1, IF c = 1 THEN m ELSE i, ws \cup {i})
<1>1. /\ c = 1 => Left(j, d + 1) = i /\ Right(j, d + 1) = Right(i, d)
      /\ c # 1 => Left(j, d + 1) = Left(i, d) /\ Right(j, d + 1) = i
      /\ Left(i, d) < i /\ i < Right(i, d) /\ Left(i, d) \in Int /\ Right(i, d) \in Int
  BY DownFacts
<1>2. CASE c = 1
  BY <1>1, <1>2 DEF Bounds, FileOK, Cmp
<1>3. CASE c # 1
  BY <1>1, <1>3 DEF Bounds, FileOK, Cmp
<1> QED BY <1>2, <1>3

\* At the bottom the subtree is one node: the match is there or right of it.
LEMMA AtBottom ==
    ASSUME FileOK, Depth \in Nat, NEW i \in Int, i <= n, NEW m, NEW ws, Bounds(i, Depth, m, ws)
    PROVE  Found(IF Cmp(i) = 0 THEN i ELSE m, ws)
<1>1. Left(i, Depth) = i - 1 /\ Right(i, Depth) = i + 1
  BY Pow2Rec DEF Left, Right
<1>2. /\ i - 1 <= less /\ less <= i + 1 /\ (less = i + 1 <=> less \in ws)
      /\ i + 1 <= less + equal => m = i + 1
      /\ less \in Nat /\ equal \in Nat
  BY <1>1 DEF Bounds, FileOK
<1> SUFFICES ASSUME equal > 0
             PROVE  (IF Cmp(i) = 0 THEN i ELSE m) = IF less \in ws THEN less ELSE less + 1
  BY DEF Found
<1>3. CASE less = i - 1
  <2>1. Cmp(i) = 0 /\ ~ (less \in ws)
    BY <1>2, <1>3 DEF Cmp
  <2> QED BY <1>2, <1>3, <2>1
<1>4. CASE less = i
  <2>1. Cmp(i) = 1 /\ ~ (less \in ws) /\ m = i + 1
    BY <1>2, <1>4 DEF Cmp
  <2> QED BY <1>2, <1>4, <2>1
<1>5. CASE less = i + 1
  <2>1. Cmp(i) = 1 /\ less \in ws /\ m = i + 1
    BY <1>2, <1>5 DEF Cmp
  <2> QED BY <1>2, <1>5, <2>1
<1>6. less = i - 1 \/ less = i \/ less = i + 1
  BY <1>2
<1> QED BY <1>3, <1>4, <1>5, <1>6, Zenon

-----------------------------------------------------------------------------
\* The invariant holds at the start and after every step.

\* The depths of the two trees of a file.
LEMMA DepthFacts ==
    ASSUME FileOK
    PROVE  /\ Depth \in Nat \ {0} /\ n < Pow2[Depth] /\ Pow2[Depth] \in Nat
           /\ PreviewDepth \in Nat /\ BufferRecords \in Nat \ {0} /\ n \in Nat
<1>1. n \in Nat
  BY DEF FileOK
<1>2. Depth \in Nat \ {0} /\ n < Pow2[Depth]
  BY <1>1, TreeDepthFacts DEF Depth
<1> QED BY <1>1, <1>2, Pow2Rec, PreviewDepthFacts, SubIndexAssumption

\* A node of the tree is one of its positions.
LEMMA InTreeType ==
    ASSUME Depth \in Nat, NEW i \in Int, NEW d \in Nat, d <= Depth, InTree(i, d)
    PROVE  i \in 1..(Pow2[Depth] - 1)
<1>1. Depth - d \in Nat
  OBVIOUS
<1>2. Pow2[Depth - d] \in Nat \ {0} /\ Pow2[Depth] \in Nat
  BY <1>1, Pow2Grows
<1> QED BY <1>2 DEF InTree, Left, Right

\* A lookup starts at the two roots.
LEMMA SubInvInit == SubInit => SubInv
<1> SUFFICES ASSUME SubInit PROVE SubInv
  OBVIOUS
<1>1. FileOK
  BY SubIndexAssumption DEF SubInit, FileOK
<1> DEFINE D == Depth
           L == PreviewDepth
<1>2. D \in Nat \ {0} /\ n < Pow2[D] /\ L \in Nat /\ n \in Nat
  BY <1>1, DepthFacts
<1>3. index = Pow2[D - 1] /\ depth = 1 /\ last = -1 /\ garbage = FALSE /\ walked = {} /\ out = {}
        /\ status = "none" /\ nDepth = 1 /\ pc \in {"preview", "index"} /\ preview = PreviewList(n)
  BY DEF SubInit, Depth
<1>4. D - 1 \in Nat /\ (D - 1) + 1 = D /\ 1 <= D
  BY <1>2
<1>5. Pow2[D - 1] \in Nat \ {0} /\ Pow2[D] = 2 * Pow2[D - 1]
  BY <1>4, Pow2Grows, Pow2Rec
<1>6. Left(index, depth) = 0 /\ Right(index, depth) = Pow2[D]
  BY <1>3, <1>5 DEF Left, Right
<1>7. InTree(index, depth)
  BY <1>5, <1>6 DEF InTree
<1>8. Bounds(index, depth, last, walked)
  BY <1>1, <1>2, <1>3, <1>5, <1>6 DEF Bounds, FileOK
<1>9. PlaceOK
  BY <1>3, <1>4, <1>7 DEF PlaceOK
<1>10. BoundsOK
  BY <1>8 DEF BoundsOK
<1>11. FoundOK
  BY <1>2, <1>3, <1>4 DEF FoundOK
<1>12. PreviewOK /\ nIdx \in 0..(Pow2[L] - 1)
  <2>1. CASE preview = <<>>
    <3>1. pc = "index" /\ nIdx = 0
      BY <2>1 DEF SubInit
    <3> QED BY <3>1, <1>2, Pow2Grows DEF PreviewOK
  <2>2. CASE preview # <<>>
    <3>1. preview_depth(n) = L /\ L # 0 /\ preview_depth(n) < TreeDepth(n)
      BY <2>2, <1>2, <1>3, PreviewListFacts, PreviewLevels
    <3>2. L \in 1..(D - 1) /\ L - 1 \in Nat /\ D - L \in Nat /\ D - 1 = (L - 1) + (D - L) /\ (L - 1) + 1 = L
      BY <3>1, <1>2 DEF Depth
    <3>3. nIdx = Pow2[L - 1]
      BY <2>2 DEF SubInit
    <3>4. Pow2[D - 1] = Pow2[L - 1] * Pow2[D - L]
      BY <3>2, Pow2Add
    <3>5. Pow2[L - 1] \in Nat \ {0} /\ Pow2[L] = 2 * Pow2[L - 1]
      BY <3>2, Pow2Grows, Pow2Rec
    <3> QED BY <1>3, <3>1, <3>2, <3>3, <3>4, <3>5 DEF PreviewOK
  <2> QED BY <2>1, <2>2
<1>13. SubTypeOK
  <2>1. index \in 1..(Pow2[Depth] - 1)
    BY <1>2, <1>3, <1>7, <1>4, <1>5, InTreeType
  <2>2. depth \in 1..(Depth + 1) /\ nDepth \in 1..(PreviewDepth + 1)
    BY <1>2, <1>3
  <2>3. nIdx \in 0..(Pow2[PreviewDepth] - 1)
    BY <1>12
  <2> QED BY <1>3, <2>1, <2>2, <2>3 DEF SubTypeOK
<1>14. LookupOK /\ FailsOnlyAtEnd /\ UnreadOnlyNearEnd
  BY <1>3 DEF LookupOK, PresentExact, slow, FailsOnlyAtEnd, UnreadOnlyNearEnd
<1> QED BY <1>1, <1>9, <1>10, <1>11, <1>12, <1>13, <1>14 DEF SubInv

\* What a step that does not end the lookup leaves as it is.
LEMMA GoesOn ==
    ASSUME SubInv, UNCHANGED <<n, preview, less, equal, upto, status>>, pc' \notin {"done", "hung"},
           walked' = walked \/ (walked' # {} /\ 2 * n > BufferRecords), ~ garbage' => ~ garbage,
           garbage' => garbage \/ 4 * (n - less) < BufferRecords + 1
    PROVE  /\ FileOK' /\ Depth' = Depth
           /\ LookupOK' /\ FailsOnlyAtEnd' /\ UnreadOnlyNearEnd'
<1>1. FileOK' /\ Depth' = Depth
  BY DEF SubInv, FileOK, Depth
<1>2. UnreadOnlyNearEnd'
  BY DEF SubInv, UnreadOnlyNearEnd
<1>3. LookupOK'
  BY DEF SubInv, LookupOK, PresentExact, slow
<1>4. FailsOnlyAtEnd'
  BY DEF SubInv, FailsOnlyAtEnd, slow
<1> QED BY <1>1, <1>2, <1>3, <1>4

\* One node of the preview: both positions go to the same side.
LEMMA PreviewNodeStep == SubInv /\ PreviewNode => SubInv'
<1> SUFFICES ASSUME SubInv, PreviewNode PROVE SubInv'
  OBVIOUS
<1>0. FileOK /\ SubTypeOK /\ PlaceOK /\ PreviewOK /\ BoundsOK /\ FoundOK
  BY DEF SubInv
<1>1. PICK c : c = Cmp(preview[nIdx])
  OBVIOUS
<1>2. /\ pc = "preview" /\ pc' = "preview" /\ nDepth <= PreviewDepth /\ nIdx <= Len(preview)
      /\ last' = IF c = 0 THEN index ELSE last
      /\ index' = Down(index, depth, Depth, c) /\ nIdx' = Down(nIdx, nDepth, PreviewDepth, c)
      /\ depth' = depth + 1 /\ nDepth' = nDepth + 1
      /\ UNCHANGED <<n, preview, less, equal, upto, out, status, garbage, walked>>
  BY <1>1 DEF PreviewNode, file
<1>3. /\ FileOK' /\ Depth' = Depth
      /\ LookupOK' /\ FailsOnlyAtEnd' /\ UnreadOnlyNearEnd'
  BY <1>2, GoesOn
<1> DEFINE D == Depth
           L == PreviewDepth
<1>4. D \in Nat \ {0} /\ n < Pow2[D] /\ Pow2[D] \in Nat /\ L \in Nat /\ n \in Nat
  BY <1>0, DepthFacts
<1>5. L \in 1..(D - 1) /\ preview_depth(n) = L /\ depth = nDepth /\ ~ garbage
        /\ index = nIdx * Pow2[D - L] /\ nIdx - Pow2[L - nDepth] >= 0
        /\ nIdx + Pow2[L - nDepth] <= Pow2[L] /\ InTree(index, depth) /\ Bounds(index, depth, last, walked)
  BY <1>0, <1>2, <1>4 DEF PreviewOK, PlaceOK, BoundsOK
<1>6. depth \in Nat \ {0} /\ nIdx \in Nat /\ index \in Nat /\ depth < D /\ L - depth \in Nat /\ D - L \in Nat
  BY <1>0, <1>2, <1>4, <1>5 DEF SubTypeOK
<1>7. index = preview[nIdx] /\ index <= n
  <2>1. nIdx \in 1..Len(preview)
    <3>1. Pow2[L - nDepth] \in Nat \ {0}
      BY <1>5, <1>6, Pow2Grows
    <3>2. Len(preview) \in Nat
      BY <1>0, <1>4, PreviewListFacts DEF FileOK
    <3> QED BY <1>2, <1>5, <1>6, <3>1, <3>2
  <2>2. preview = PreviewList(n)
    BY <1>0 DEF FileOK
  <2>3. preview[nIdx] = nIdx * Pow2[D - L] /\ Len(preview) * Pow2[D - L] <= n
    <3>1. D - L = TreeDepth(n) - preview_depth(n)
      BY <1>5 DEF Depth
    <3>2. /\ \A j \in 1..Len(preview) : preview[j] = j * Pow2[TreeDepth(n) - preview_depth(n)]
          /\ Len(preview) * Pow2[TreeDepth(n) - preview_depth(n)] <= n
      BY <1>4, <2>2, PreviewListFacts
    <3> HIDE DEF D, L
    <3> QED BY <2>1, <3>1, <3>2
  <2>4. PICK l \in Nat : l = Len(preview)
    <3>1. Len(preview) \in Nat
      BY <1>0, <1>4, PreviewListFacts DEF FileOK
    <3> QED BY <3>1
  <2>5. nIdx * Pow2[D - L] <= l * Pow2[D - L]
    <3>1. \A x, a, b \in Nat : a <= b => a * x <= b * x
      OBVIOUS
    <3>2. Pow2[D - L] \in Nat
      BY <1>6, Pow2Rec
    <3> QED BY <3>1, <3>2, <2>1, <2>4, <1>6
  <2>6. nIdx * Pow2[D - L] \in Nat /\ l * Pow2[D - L] \in Nat
    <3>1. PICK x \in Nat : x = Pow2[D - L]
      BY <1>6, Pow2Rec
    <3> QED BY <1>6, <3>1
  <2> QED BY <1>4, <1>5, <2>3, <2>4, <2>5, <2>6
<1>8. c = Cmp(index)
  BY <1>1, <1>7
<1>9. InTree(index', depth')
  BY <1>0, <1>2, <1>4, <1>5, <1>6, GoOn
<1>10. Bounds(index', depth', last', walked)
  BY <1>0, <1>2, <1>4, <1>5, <1>6, <1>8, GoCmp
<1>11. depth' <= D /\ index' \in Int /\ depth' \in Nat
  BY <1>2, <1>4, <1>6, DownFacts
<1>12. index' \in 1..(Pow2[D] - 1)
  BY <1>4, <1>9, <1>11, InTreeType
<1>13. PlaceOK'
  BY <1>2, <1>3, <1>5, <1>9, <1>11 DEF PlaceOK, InTree, Left, Right
<1>14. BoundsOK'
  BY <1>2, <1>3, <1>10 DEF BoundsOK, Bounds, Left, Right
<1>15. FoundOK'
  BY <1>0, <1>2, <1>7 DEF FoundOK
<1>16. PreviewOK' /\ nIdx' \in 0..(Pow2[L] - 1)
  <2>1. PreviewDepth' = L /\ preview_depth(n)' = preview_depth(n)
    BY <1>2 DEF PreviewDepth, preview_depth
  <2>2. CASE nDepth = L
    <3>1. nIdx' = nIdx /\ nDepth' = L + 1
      BY <1>2, <1>4, <2>2 DEF Down
    <3>2. nIdx \in 0..(Pow2[L] - 1)
      BY <1>0 DEF SubTypeOK
    <3> QED BY <1>2, <1>3, <1>4, <1>5, <2>1, <2>2, <3>1, <3>2 DEF PreviewOK
  <2>3. CASE nDepth < L
    <3>1. L - nDepth - 1 \in Nat /\ (L - nDepth - 1) + 1 = L - nDepth /\ L - (nDepth + 1) = L - nDepth - 1
            /\ D - depth - 1 = (L - nDepth - 1) + (D - L) /\ D - depth - 1 \in Nat
      BY <1>4, <1>5, <1>6, <2>3
    <3>2. PICK p \in Nat \ {0} : p = Pow2[L - nDepth - 1]
      BY <3>1, Pow2Grows
    <3>3. Pow2[L - nDepth] = 2 * p /\ Pow2[L - nDepth'] = p
      BY <1>2, <3>1, <3>2, Pow2Rec
    <3>4. PICK x \in Nat : x = Pow2[D - L]
      BY <1>6, Pow2Rec
    <3>5. Pow2[D - depth - 1] = p * x
      BY <3>1, <3>2, <3>4, <1>6, Pow2Add
    <3>6. nIdx' = (IF c = 1 THEN nIdx + p ELSE nIdx - p)
            /\ index' = (IF c = 1 THEN index + p * x ELSE index - p * x)
      <4>1. nIdx' = IF c = 1 THEN nIdx + Pow2[L - nDepth - 1] ELSE nIdx - Pow2[L - nDepth - 1]
        BY <1>2, <1>4, <1>5, <1>6, <2>3 DEF Down
      <4>2. index' = IF c = 1 THEN index + Pow2[D - depth - 1] ELSE index - Pow2[D - depth - 1]
        BY <1>2, <1>4, <1>6 DEF Down
      <4> QED BY <3>2, <3>5, <4>1, <4>2
    <3>7. index' = nIdx' * x
      <4>1. (nIdx + p) * x = nIdx * x + p * x /\ (nIdx - p) * x = nIdx * x - p * x
        BY <1>6
      <4> QED BY <1>5, <3>4, <3>6, <4>1
    <3>8. nIdx' - p >= 0 /\ nIdx' + p <= Pow2[L] /\ nIdx' \in Int
      <4>1. nIdx - 2 * p >= 0 /\ nIdx + 2 * p <= Pow2[L]
        BY <1>5, <3>3
      <4>2. nIdx' = IF c = 1 THEN nIdx + p ELSE nIdx - p
        BY <3>6
      <4>3. Pow2[L] \in Nat /\ nIdx \in Nat
        BY <1>4, <1>6, Pow2Rec
      <4> QED BY <4>1, <4>2, <4>3
    <3>9. nIdx' \in 0..(Pow2[L] - 1)
      <4>1. Pow2[L] \in Nat
        BY <1>4, Pow2Rec
      <4>2. \A z \in Int, q \in Nat : z - p >= 0 /\ z + p <= q => z \in 0..(q - 1)
        OBVIOUS
      <4> QED BY <3>8, <4>1, <4>2
    <3>10. index' = nIdx' * Pow2[D - L] /\ depth' = nDepth'
      BY <1>2, <1>5, <3>4, <3>7
    <3>11. nIdx' - Pow2[L - nDepth'] >= 0 /\ nIdx' + Pow2[L - nDepth'] <= Pow2[L]
      BY <3>3, <3>8
    <3>12. L \in 1..(D - 1) /\ preview_depth(n)' = L
      BY <1>5, <2>1
    <3> QED BY <1>3, <2>1, <3>9, <3>10, <3>11, <3>12 DEF PreviewOK
  <2> QED BY <1>2, <1>4, <1>5, <1>6, <2>2, <2>3
<1>17. SubTypeOK'
  <2>1. depth' \in 1..(Depth + 1) /\ nDepth' \in 1..(L + 1)
    BY <1>2, <1>4, <1>5, <1>6, <1>11
  <2>2. last' \in {-1} \cup 1..(Pow2[D] - 1)
    BY <1>0, <1>2, <1>4, <1>5, <1>6, InTreeType DEF SubTypeOK
  <2>3. PreviewDepth' = L
    BY DEF PreviewDepth
  <2> QED BY <1>0, <1>2, <1>3, <1>12, <1>16, <2>1, <2>2, <2>3 DEF SubTypeOK
<1> QED BY <1>3, <1>13, <1>14, <1>15, <1>16, <1>17 DEF SubInv

\* A virtual node of the preview: the range starts on its left.
LEMMA PreviewVirtualStep == SubInv /\ PreviewVirtual => SubInv'
<1> SUFFICES ASSUME SubInv, PreviewVirtual PROVE SubInv'
  OBVIOUS
<1>0. FileOK /\ SubTypeOK /\ PlaceOK /\ PreviewOK /\ BoundsOK /\ FoundOK
  BY DEF SubInv
<1>1. /\ pc = "preview" /\ nDepth <= PreviewDepth /\ nIdx > Len(preview) /\ index > n
      /\ UNCHANGED <<n, preview, less, equal, upto, nIdx, nDepth, last, out, status, garbage, walked>>
  BY DEF PreviewVirtual, file
<1>2. Depth \in Nat \ {0} /\ n < Pow2[Depth] /\ Pow2[Depth] \in Nat /\ n \in Nat
  BY <1>0, DepthFacts
<1>3. depth <= Depth /\ ~ garbage /\ InTree(index, depth) /\ Bounds(index, depth, last, walked)
  BY <1>0, <1>1 DEF PlaceOK, BoundsOK
<1>4. depth \in Nat \ {0} /\ index \in Int
  BY <1>0, <1>2 DEF SubTypeOK
<1>5. CASE depth < Depth
  <2>1. index' = Down(index, depth, Depth, -1) /\ depth' = depth + 1 /\ pc' = pc
    BY <1>5 DEF PreviewVirtual
  <2>2. /\ FileOK' /\ Depth' = Depth
        /\ LookupOK' /\ FailsOnlyAtEnd' /\ UnreadOnlyNearEnd'
    BY <1>1, <2>1, GoesOn
  <2>3. InTree(index', depth') /\ Bounds(index', depth', last, walked)
    BY <1>0, <1>1, <1>2, <1>3, <1>4, <1>5, <2>1, GoLeft
  <2>4. depth' <= Depth /\ index' \in Int /\ depth' \in Nat
    BY <1>2, <1>4, <1>5, <2>1, DownFacts
  <2>5. index' \in 1..(Pow2[Depth] - 1)
    BY <1>2, <2>3, <2>4, InTreeType
  <2>6. PlaceOK'
    BY <1>1, <1>3, <2>1, <2>2, <2>3, <2>4 DEF PlaceOK, InTree, Left, Right
  <2>7. BoundsOK'
    BY <1>1, <2>2, <2>3 DEF BoundsOK, Bounds, Left, Right
  <2>8. FoundOK'
    BY <1>0, <1>1, <2>1 DEF FoundOK
  <2>9. PreviewDepth' = PreviewDepth /\ preview_depth(n)' = preview_depth(n)
    BY <1>1 DEF PreviewDepth, preview_depth
  <2>10. PreviewOK'
    <3>1. ~ (nIdx <= Len(preview))
      <4>1. Len(preview) \in Nat /\ nIdx \in Int
        BY <1>0, <1>2, PreviewListFacts, DepthFacts, Pow2Rec DEF FileOK, SubTypeOK
      <4> QED BY <1>1, <4>1
    <3> QED BY <1>0, <1>1, <2>1, <2>2, <2>9, <3>1 DEF PreviewOK
  <2>11. SubTypeOK'
    <3>1. depth' \in 1..(Depth + 1)
      BY <1>2, <1>4, <2>1, <2>4
    <3> QED BY <1>0, <1>1, <2>1, <2>2, <2>5, <2>9, <3>1 DEF SubTypeOK
  <2> QED BY <2>2, <2>6, <2>7, <2>8, <2>10, <2>11 DEF SubInv
<1>6. CASE ~ (depth < Depth)
  <2>1. pc' = "hung" /\ index' = index /\ depth' = depth
    BY <1>6 DEF PreviewVirtual, Goto
  <2>2. FileOK' /\ Depth' = Depth /\ PreviewDepth' = PreviewDepth
    BY <1>0, <1>1 DEF FileOK, Depth, PreviewDepth
  <2>3. Left(index, depth) = index - 1
    <3>1. Depth - depth = 0
      BY <1>2, <1>3, <1>4, <1>6
    <3> QED BY <3>1, Pow2Rec DEF Left
  <2>4. upto = n
    BY <1>0, <1>1, <1>2, <1>3, <1>4, <2>3 DEF Bounds, FileOK
  <2>5. LookupOK' /\ FailsOnlyAtEnd' /\ UnreadOnlyNearEnd'
    BY <1>1, <1>3, <2>1, <2>4 DEF SubInv, LookupOK, PresentExact, slow, FailsOnlyAtEnd, UnreadOnlyNearEnd
  <2>6. SubTypeOK'
    BY <1>0, <1>1, <2>1, <2>2 DEF SubTypeOK
  <2>7. PlaceOK' /\ PreviewOK' /\ BoundsOK' /\ FoundOK'
    BY <1>0, <1>1, <2>1 DEF PlaceOK, PreviewOK, BoundsOK, FoundOK
  <2> QED BY <2>2, <2>5, <2>6, <2>7 DEF SubInv
<1> QED BY <1>5, <1>6

\* The records take over where the preview ends.
LEMMA PreviewEndsStep == SubInv /\ PreviewEnds => SubInv'
<1> SUFFICES ASSUME SubInv, PreviewEnds PROVE SubInv'
  OBVIOUS
<1>0. FileOK /\ SubTypeOK /\ PlaceOK /\ PreviewOK /\ BoundsOK /\ FoundOK
  BY DEF SubInv
<1>1. /\ pc = "preview" /\ pc' = "index"
      /\ UNCHANGED <<n, preview, less, equal, upto, index, depth, nIdx, nDepth, last, out, status,
                     garbage, walked>>
  BY DEF PreviewEnds, file, Goto
<1>2. /\ FileOK' /\ Depth' = Depth
      /\ LookupOK' /\ FailsOnlyAtEnd' /\ UnreadOnlyNearEnd'
  BY <1>1, GoesOn
<1>3. PreviewDepth' = PreviewDepth
  BY DEF PreviewDepth
<1>4. SubTypeOK'
  BY <1>0, <1>1, <1>2, <1>3 DEF SubTypeOK
<1>5. PlaceOK'
  BY <1>0, <1>1, <1>2 DEF PlaceOK, InTree, Left, Right
<1>6. BoundsOK'
  BY <1>0, <1>1, <1>2 DEF BoundsOK, Bounds, Left, Right
<1>7. PreviewOK' /\ FoundOK'
  BY <1>0, <1>1 DEF PreviewOK, FoundOK
<1> QED BY <1>2, <1>4, <1>5, <1>6, <1>7 DEF SubInv

\* When the subtree is too large for the buffer the node is not at the bottom.
LEMMA SlowAbove ==
    ASSUME SubInv, pc = "index", SubtreeRecords > BufferRecords
    PROVE  depth < Depth /\ depth \in Nat \ {0} /\ index \in Int
<1>0. FileOK /\ SubTypeOK /\ PlaceOK
  BY DEF SubInv
<1>1. Depth \in Nat \ {0} /\ BufferRecords \in Nat \ {0} /\ Pow2[Depth] \in Nat
  BY <1>0, DepthFacts
<1>2. depth <= Depth /\ depth \in Nat \ {0} /\ index \in Int
  BY <1>0, <1>1 DEF PlaceOK, SubTypeOK
<1>3. depth # Depth
  <2>1. depth = Depth => Depth - depth + 1 = 0 + 1
    BY <1>1, <1>2
  <2>2. Pow2[0 + 1] = 2
    BY Pow2Rec
  <2> QED BY <1>1, <2>1, <2>2 DEF SubtreeRecords
<1> QED BY <1>1, <1>2, <1>3

\* Records are read one at a time only in an index that is large for the buffer.
LEMMA SlowLarge ==
    ASSUME SubInv, pc = "index", SubtreeRecords > BufferRecords, index <= n
    PROVE  2 * n > BufferRecords
<1>0. FileOK /\ SubTypeOK
  BY DEF SubInv
<1>1. Depth \in Nat \ {0} /\ BufferRecords \in Nat /\ n \in Nat
  BY <1>0, DepthFacts
<1>2. depth < Depth /\ depth \in Nat \ {0}
  BY SlowAbove
<1>3. index >= 1
  BY <1>0, <1>1, Pow2Rec DEF SubTypeOK
<1>4. Pow2[Depth - 1] <= n
  BY <1>1, <1>3, TreeDepthFacts DEF Depth, SubTypeOK, SubInv
<1>5. Depth - 1 \in Nat /\ (Depth - 1) + 1 = Depth /\ Depth - depth + 1 \in Nat /\ Depth - depth + 1 <= Depth
  BY <1>1, <1>2
<1>6. Pow2[Depth] = 2 * Pow2[Depth - 1] /\ Pow2[Depth - 1] \in Nat
  BY <1>5, Pow2Rec
<1>7. Pow2[Depth - depth + 1] <= Pow2[Depth] /\ Pow2[Depth - depth + 1] \in Nat
  <2>1. Pow2[Depth - depth + 1] \in Nat /\ Pow2[Depth] \in Nat
    BY <1>1, <1>5, Pow2Rec
  <2>2. CASE Depth - depth + 1 = Depth
    BY <2>1, <2>2
  <2>3. CASE Depth - depth + 1 # Depth
    <3>1. 2 * Pow2[Depth - depth + 1] <= Pow2[Depth]
      BY <1>1, <1>5, <2>3, Pow2Mono
    <3> QED BY <2>1, <3>1
  <2> QED BY <2>2, <2>3
<1>8. Pow2[Depth - depth + 1] - 1 > BufferRecords
  BY DEF SubtreeRecords
<1> QED BY <1>1, <1>4, <1>6, <1>7, <1>8

\* A node of the preview list is above the lowest level of the tree.
LEMMA PreviewAbove ==
    ASSUME SubInv, pc = "preview", nDepth <= PreviewDepth, nIdx <= Len(preview)
    PROVE  depth < Depth
<1>1. depth = nDepth /\ PreviewDepth \in 1..(Depth - 1) /\ Depth \in Nat /\ nDepth \in Int
  BY DepthFacts DEF SubInv, PreviewOK, SubTypeOK
<1> QED BY <1>1

\* A virtual node of a subtree that is too large for the buffer.
LEMMA SlowVirtualStep == SubInv /\ SlowVirtual => SubInv'
<1> SUFFICES ASSUME SubInv, SlowVirtual PROVE SubInv'
  OBVIOUS
<1>0. FileOK /\ SubTypeOK /\ PlaceOK /\ PreviewOK /\ BoundsOK /\ FoundOK
  BY DEF SubInv
<1>1. /\ pc = "index" /\ pc' = "index" /\ index > n /\ SubtreeRecords > BufferRecords
      /\ index' = Down(index, depth, Depth, -1) /\ depth' = depth + 1
      /\ UNCHANGED <<n, preview, less, equal, upto, nIdx, nDepth, last, out, status, garbage, walked>>
  BY DEF SlowVirtual, file
<1>2. /\ FileOK' /\ Depth' = Depth
      /\ LookupOK' /\ FailsOnlyAtEnd' /\ UnreadOnlyNearEnd'
  BY <1>1, GoesOn
<1>3. Depth \in Nat \ {0} /\ Pow2[Depth] \in Nat /\ depth < Depth /\ depth \in Nat \ {0} /\ index \in Int
  BY <1>0, <1>1, DepthFacts, SlowAbove
<1>4. ~ garbage /\ InTree(index, depth) /\ Bounds(index, depth, last, walked)
  BY <1>0, <1>1, <1>3 DEF PlaceOK, BoundsOK
<1>5. InTree(index', depth') /\ Bounds(index', depth', last, walked)
  BY <1>0, <1>1, <1>3, <1>4, GoLeft
<1>6. depth' <= Depth /\ index' \in Int /\ depth' \in Nat
  BY <1>1, <1>3, DownFacts
<1>7. index' \in 1..(Pow2[Depth] - 1)
  BY <1>3, <1>5, <1>6, InTreeType
<1>8. PlaceOK'
  BY <1>1, <1>2, <1>4, <1>5, <1>6 DEF PlaceOK, InTree, Left, Right
<1>9. BoundsOK'
  BY <1>1, <1>2, <1>5 DEF BoundsOK, Bounds, Left, Right
<1>10. FoundOK' /\ PreviewOK'
  BY <1>0, <1>1 DEF FoundOK, PreviewOK
<1>11. SubTypeOK'
  <2>1. depth' \in 1..(Depth + 1)
    BY <1>1, <1>3, <1>6
  <2>2. PreviewDepth' = PreviewDepth
    BY DEF PreviewDepth
  <2> QED BY <1>0, <1>1, <1>2, <1>7, <2>1, <2>2 DEF SubTypeOK
<1> QED BY <1>2, <1>8, <1>9, <1>10, <1>11 DEF SubInv

\* A node read on its own: the key compared is that of the record behind it.
LEMMA SlowNodeStep == SubInv /\ SlowNode => SubInv'
<1> SUFFICES ASSUME SubInv, SlowNode PROVE SubInv'
  OBVIOUS
<1>0. FileOK /\ SubTypeOK /\ PlaceOK /\ PreviewOK /\ BoundsOK /\ FoundOK
  BY DEF SubInv
<1>1. /\ pc = "index" /\ index <= n /\ SubtreeRecords > BufferRecords /\ walked' = walked \cup {index}
      /\ UNCHANGED <<n, preview, less, equal, upto, nIdx, nDepth, out, garbage>>
  BY DEF SlowNode, file
<1>2. Depth \in Nat \ {0} /\ Pow2[Depth] \in Nat /\ n \in Nat
        /\ depth < Depth /\ depth \in Nat \ {0} /\ index \in Int
  BY <1>0, <1>1, DepthFacts, SlowAbove
<1>3. ~ garbage /\ InTree(index, depth) /\ Bounds(index, depth, last, walked)
  BY <1>0, <1>1, <1>2 DEF PlaceOK, BoundsOK
<1>a. PreviewDepth' = PreviewDepth
  BY DEF PreviewDepth
<1>b. 2 * n > BufferRecords /\ walked' # {} /\ walked' \subseteq 1..n
  <2>1. walked \subseteq 1..n /\ index >= 1
    BY <1>0, <1>2 DEF SubTypeOK
  <2> QED BY <1>1, <1>2, <2>1, SlowLarge
<1>4. CASE index + 1 > n
  <2>1. status' = "EIO" /\ pc' = "done" /\ UNCHANGED <<index, depth, last>>
    BY <1>4 DEF SlowNode, Return, Goto
  <2>2. FileOK' /\ Depth' = Depth
    BY <1>0, <1>1 DEF FileOK, Depth
  <2>3. LookupOK' /\ FailsOnlyAtEnd' /\ UnreadOnlyNearEnd'
    BY <1>1, <1>3, <1>b, <2>1 DEF LookupOK, PresentExact, slow, FailsOnlyAtEnd, UnreadOnlyNearEnd
  <2>4. SubTypeOK'
    BY <1>0, <1>1, <1>a, <1>b, <2>1, <2>2 DEF SubTypeOK
  <2>5. PlaceOK' /\ PreviewOK' /\ BoundsOK' /\ FoundOK'
    BY <1>0, <1>1, <2>1 DEF PlaceOK, PreviewOK, BoundsOK, FoundOK
  <2> QED BY <2>2, <2>3, <2>4, <2>5 DEF SubInv
<1>5. CASE ~ (index + 1 > n)
  <2>1. PICK c : c = Cmp(index + 1)
    OBVIOUS
  <2>2. /\ last' = IF c = 1 THEN last ELSE index
        /\ index' = Down(index, depth, Depth, c) /\ depth' = depth + 1
        /\ pc' = "index" /\ status' = status
    BY <1>1, <1>5, <2>1 DEF SlowNode
  <2>3. /\ FileOK' /\ Depth' = Depth
        /\ LookupOK' /\ FailsOnlyAtEnd' /\ UnreadOnlyNearEnd'
    BY <1>1, <1>b, <2>2, GoesOn
  <2>4. InTree(index', depth')
    BY <1>0, <1>2, <1>3, <2>2, GoOn
  <2>5. Bounds(index', depth', last', walked')
    BY <1>0, <1>1, <1>2, <1>3, <2>1, <2>2, GoSlow
  <2>6. depth' <= Depth /\ index' \in Int /\ depth' \in Nat
    BY <1>2, <2>2, DownFacts
  <2>7. index' \in 1..(Pow2[Depth] - 1) /\ index \in 1..(Pow2[Depth] - 1)
    BY <1>2, <1>3, <2>4, <2>6, InTreeType
  <2>8. PlaceOK'
    BY <1>1, <1>3, <2>2, <2>3, <2>4, <2>6 DEF PlaceOK, InTree, Left, Right
  <2>9. BoundsOK'
    BY <1>1, <2>2, <2>3, <2>5 DEF BoundsOK, Bounds, Left, Right
  <2>10. FoundOK'
    BY <1>0, <1>1, <1>3, <2>2 DEF FoundOK
  <2>11. PreviewOK'
    BY <2>2 DEF PreviewOK
  <2>12. SubTypeOK'
    <3>1. depth' \in 1..(Depth + 1)
      BY <1>2, <2>2, <2>6
    <3>2. last' \in {-1} \cup 1..(Pow2[Depth] - 1)
      BY <1>0, <2>2, <2>7 DEF SubTypeOK
    <3> QED BY <1>0, <1>1, <1>a, <1>b, <2>2, <2>3, <2>7, <3>1, <3>2 DEF SubTypeOK
  <2> QED BY <2>3, <2>8, <2>9, <2>10, <2>11, <2>12 DEF SubInv
<1> QED BY <1>4, <1>5

\* A subtree that begins behind the last record holds no record of the range.
LEMMA ReadSubtreeStep == SubInv /\ ReadSubtree => SubInv'
<1> SUFFICES ASSUME SubInv, ReadSubtree PROVE SubInv'
  OBVIOUS
<1>0. FileOK /\ SubTypeOK /\ PlaceOK /\ PreviewOK /\ BoundsOK /\ FoundOK
  BY DEF SubInv
<1>1. /\ pc = "index" /\ SubtreeRecords <= BufferRecords
      /\ UNCHANGED <<n, preview, less, equal, upto, index, depth, nIdx, nDepth, last, out, garbage, walked>>
  BY DEF ReadSubtree, file
<1>2. Depth \in Nat \ {0} /\ Pow2[Depth] \in Nat /\ n \in Nat
  BY <1>0, DepthFacts
<1>3. depth <= Depth /\ ~ garbage /\ Bounds(index, depth, last, walked) /\ depth \in Nat \ {0} /\ index \in Int
  BY <1>0, <1>1, <1>2 DEF PlaceOK, BoundsOK, SubTypeOK
\* The first record of the subtree is in the file, or would be the next one.
<1>4. pc' = "buffer" /\ status' = status
  <2>1. PICK p \in Nat : p = Pow2[Depth - depth]
    BY <1>2, <1>3, Pow2Rec
  <2>2. SubtreeRecords = 2 * p - 1
    BY <1>2, <1>3, <2>1, Pow2Rec DEF SubtreeRecords
  <2>3. (SubtreeRecords + 1) \div 2 - 1 = p - 1
    BY <2>2
  <2>4. index - p <= less /\ less <= n /\ less \in Nat
    BY <1>0, <1>3, <2>1 DEF Bounds, Left, FileOK
  <2>5. ~ (index - (p - 1) > n + 1)
    BY <1>2, <1>3, <2>4
  <2> QED BY <2>3, <2>5 DEF ReadSubtree, Goto
<1>5. /\ FileOK' /\ Depth' = Depth
      /\ LookupOK' /\ FailsOnlyAtEnd' /\ UnreadOnlyNearEnd'
  BY <1>1, <1>4, GoesOn
<1>6. PreviewDepth' = PreviewDepth
  BY DEF PreviewDepth
<1>7. SubTypeOK'
  BY <1>0, <1>1, <1>4, <1>5, <1>6 DEF SubTypeOK
<1>8. PlaceOK'
  BY <1>0, <1>1, <1>4, <1>5 DEF PlaceOK, InTree, Left, Right, SubtreeRecords
<1>9. BoundsOK'
  BY <1>1, <1>3, <1>4, <1>5 DEF BoundsOK, Bounds, Left, Right
<1>10. PreviewOK' /\ FoundOK'
  <2>1. ~ (depth > Depth)
    BY <1>2, <1>3
  <2> QED BY <1>0, <1>1, <1>4, <1>5, <2>1 DEF PreviewOK, FoundOK
<1> QED BY <1>5, <1>7, <1>8, <1>9, <1>10 DEF SubInv

\* The records from the match on: only a range up to the end makes this fail.
LEMMA OutputMatchesStep == SubInv /\ OutputMatches => SubInv'
<1> SUFFICES ASSUME SubInv, OutputMatches PROVE SubInv'
  OBVIOUS
<1>0. FileOK /\ SubTypeOK /\ PlaceOK /\ PreviewOK /\ BoundsOK /\ FoundOK /\ UnreadOnlyNearEnd /\ LookupOK
  BY DEF SubInv
<1>1. /\ pc = "found" /\ pc' = "done" /\ status' \in {"ok", "EIO"}
      /\ UNCHANGED <<n, preview, less, equal, upto, index, depth, nIdx, nDepth, last, garbage, walked>>
  BY DEF OutputMatches, file, Return, Goto
<1>2. Depth \in Nat \ {0} /\ Pow2[Depth] \in Nat /\ n \in Nat
  BY <1>0, DepthFacts
<1>3. FileOK' /\ Depth' = Depth /\ PreviewDepth' = PreviewDepth
  BY <1>0, <1>1 DEF FileOK, Depth, PreviewDepth
<1>4. last \in Int /\ (last = -1 \/ last >= 1) /\ upto \in Nat /\ upto <= n /\ less \in Nat /\ equal \in Nat
        /\ less + equal <= upto
  BY <1>0, <1>2 DEF SubTypeOK, FileOK
<1>5. out' \subseteq 1..n
  <2>1. out \subseteq 1..n
    BY <1>0 DEF SubTypeOK
  <2>2. CASE out' = out
    BY <2>1, <2>2
  <2>3. CASE out' # out
    <3>1. out' = last..upto /\ last # -1
      BY <2>3 DEF OutputMatches
    <3> QED BY <1>2, <1>4, <3>1
  <2> QED BY <2>2, <2>3
<1>6. SubTypeOK'
  BY <1>0, <1>1, <1>3, <1>5 DEF SubTypeOK
<1>7. PlaceOK' /\ PreviewOK' /\ BoundsOK' /\ FoundOK'
  BY <1>0, <1>1 DEF PlaceOK, PreviewOK, BoundsOK, FoundOK
<1>8. UnreadOnlyNearEnd'
  BY <1>0, <1>1 DEF UnreadOnlyNearEnd
<1>9. FailsOnlyAtEnd'
  <2> SUFFICES ASSUME status' = "EIO", ~ garbage PROVE upto = n
    BY <1>1 DEF FailsOnlyAtEnd
  <2>1. last <= n
    BY <1>0 DEF FoundOK
  <2> QED BY <1>2, <1>4, <2>1 DEF OutputMatches, Return
<1>10. LookupOK'
  <2> SUFFICES ASSUME status' = "ok", equal > 0, ~ garbage
               PROVE  out' = (IF less \in walked THEN less ELSE less + 1)..upto
    BY <1>1, <1>0 DEF LookupOK, PresentExact, slow
  <2>1. last = IF less \in walked THEN less ELSE less + 1
    BY <1>0, <1>1 DEF FoundOK, Found
  <2>2. last # -1 /\ ~ (last > n) /\ ~ (last > upto)
    BY <1>2, <1>4, <2>1
  <2>3. out' = last..upto
    BY <2>2 DEF OutputMatches, Return
  <2> QED BY <1>4, <2>1, <2>3
<1> QED BY <1>3, <1>6, <1>7, <1>8, <1>9, <1>10 DEF SubInv

\* What a comparison with a record of the buffer was made with, and how much of the
\* file is left then.
LEMMA UnreadNear ==
    ASSUME FileOK, Depth \in Nat, BufferRecords \in Nat, NEW d \in Nat, d < Depth, NEW i \in Int, i > n,
           NEW j, j = Down(i, d, Depth, -1), j > n, Left(i, d) <= less,
           Pow2[Depth - d + 1] - 1 <= BufferRecords
    PROVE  4 * (n - less) < BufferRecords + 1
<1>1. Depth - d - 1 \in Nat /\ (Depth - d - 1) + 1 = Depth - d /\ Depth - d \in Nat
  OBVIOUS
<1>2. PICK p \in Nat : p = Pow2[Depth - d - 1]
  BY <1>1, Pow2Rec
<1>3. Pow2[Depth - d] = 2 * p /\ Pow2[Depth - d + 1] = 4 * p
  <2>1. Pow2[(Depth - d - 1) + 1] = 2 * Pow2[Depth - d - 1]
    BY <1>1, Pow2Rec
  <2>2. Pow2[(Depth - d) + 1] = 2 * Pow2[Depth - d]
    BY <1>1, Pow2Rec
  <2>3. Pow2[Depth - d] = 2 * p
    BY <1>1, <1>2, <2>1
  <2> QED BY <1>2, <2>2, <2>3
<1>4. j = i - p
  BY <1>2 DEF Down
<1> QED BY <1>3, <1>4 DEF Left, FileOK

\* A node of the buffer, or the one on the left of a virtual node.
LEMMA BufferNodeStep == SubInv /\ BufferNode => SubInv'
<1> SUFFICES ASSUME SubInv, BufferNode PROVE SubInv'
  OBVIOUS
<1>0. FileOK /\ SubTypeOK /\ PlaceOK /\ PreviewOK /\ BoundsOK /\ FoundOK
  BY DEF SubInv
<1>1. PICK i : i = IF index > n THEN Down(index, depth, Depth, -1) ELSE index
  OBVIOUS
<1>2. PICK d : d = IF index > n THEN depth + 1 ELSE depth
  OBVIOUS
<1>3. PICK c \in BufferCmp(i) :
        /\ last' = IF c = 0 THEN i ELSE last
        /\ index' = Down(i, d, Depth, c)
        /\ depth' = d + 1
        /\ garbage' = (garbage \/ i > n)
  BY <1>1, <1>2 DEF BufferNode
<1>4. /\ pc = "buffer" /\ pc' = "buffer" /\ depth < Depth
      /\ UNCHANGED <<n, preview, less, equal, upto, nIdx, nDepth, out, status, walked>>
  BY DEF BufferNode, file
<1>5. Depth \in Nat \ {0} /\ Pow2[Depth] \in Nat /\ n \in Nat /\ BufferRecords \in Nat
        /\ depth \in Nat \ {0} /\ index \in Int
  BY <1>0, DepthFacts DEF SubTypeOK
<1>6. InTree(index, depth) /\ (~ garbage => Bounds(index, depth, last, walked))
        /\ Pow2[Depth - depth + 1] - 1 <= BufferRecords
  BY <1>0, <1>4, <1>5 DEF PlaceOK, BoundsOK
<1>7. /\ d \in Nat \ {0} /\ d <= Depth /\ i \in Int /\ InTree(i, d) /\ depth <= d
      /\ ~ garbage => Bounds(i, d, last, walked)
  <2>1. CASE index > n
    <3>1. i = Down(index, depth, Depth, -1) /\ d = depth + 1
      BY <1>1, <1>2, <2>1
    <3>2. InTree(i, d) /\ (Bounds(index, depth, last, walked) => Bounds(i, d, last, walked))
      BY <1>0, <1>4, <1>5, <1>6, <2>1, <3>1, GoLeft
    <3>3. i \in Int
      BY <1>4, <1>5, <3>1, DownFacts
    <3> QED BY <1>4, <1>5, <1>6, <3>1, <3>2, <3>3
  <2>2. CASE ~ (index > n)
    BY <1>1, <1>2, <1>4, <1>5, <1>6, <2>2
  <2> QED BY <2>1, <2>2
<1>8. ASSUME i > n, ~ garbage PROVE 4 * (n - less) < BufferRecords + 1
  <2>1. index > n /\ i = Down(index, depth, Depth, -1)
    BY <1>1, <1>8
  <2>2. Left(index, depth) <= less
    BY <1>6, <1>8 DEF Bounds
  <2> QED BY <1>0, <1>4, <1>5, <1>6, <1>8, <2>1, <2>2, UnreadNear
<1>9. ~ garbage' => ~ garbage /\ i <= n /\ c = Cmp(i) /\ Bounds(i, d, last, walked)
  <2> SUFFICES ASSUME ~ garbage' PROVE ~ garbage /\ ~ (i > n)
    BY <1>3, <1>5, <1>7 DEF BufferCmp
  <2> QED BY <1>3
<1>10. /\ FileOK' /\ Depth' = Depth
       /\ LookupOK' /\ FailsOnlyAtEnd' /\ UnreadOnlyNearEnd'
  <2>1. garbage' => garbage \/ 4 * (n - less) < BufferRecords + 1
    BY <1>3, <1>8
  <2> QED BY <1>4, <1>9, <2>1, GoesOn
<1>11. i \in 1..(Pow2[Depth] - 1)
  BY <1>5, <1>7, InTreeType
<1>12. last' \in {-1} \cup 1..(Pow2[Depth] - 1)
  BY <1>0, <1>3, <1>11 DEF SubTypeOK
<1>13. ~ garbage' => last' <= n
  BY <1>0, <1>3, <1>9 DEF FoundOK
<1>14. PreviewDepth' = PreviewDepth /\ garbage' \in BOOLEAN
  BY <1>3 DEF PreviewDepth
<1>15. PreviewOK'
  BY <1>4 DEF PreviewOK
<1>16. CASE d < Depth
  <2>1. InTree(index', depth')
    BY <1>0, <1>3, <1>5, <1>7, <1>16, GoOn
  <2>2. ~ garbage' => Bounds(index', depth', last', walked)
    BY <1>0, <1>3, <1>5, <1>7, <1>9, <1>16, GoCmp
  <2>3. depth' <= Depth /\ index' \in Int /\ depth' \in Nat
    BY <1>3, <1>5, <1>7, <1>16, DownFacts
  <2>4. index' \in 1..(Pow2[Depth] - 1)
    BY <1>5, <2>1, <2>3, InTreeType
  <2>5. Pow2[Depth - depth' + 1] - 1 <= BufferRecords
    <3>1. Depth - depth' + 1 \in Nat /\ Depth - depth + 1 \in Nat /\ Depth - depth' + 1 < Depth - depth + 1
      BY <1>3, <1>4, <1>5, <1>7, <2>3
    <3>2. 2 * Pow2[Depth - depth' + 1] <= Pow2[Depth - depth + 1]
      BY <3>1, Pow2Mono
    <3>3. Pow2[Depth - depth' + 1] \in Nat /\ Pow2[Depth - depth + 1] \in Nat
      BY <3>1, Pow2Rec
    <3> QED BY <1>5, <1>6, <3>2, <3>3
  <2>6. PlaceOK'
    BY <1>4, <1>10, <2>1, <2>5 DEF PlaceOK, InTree, Left, Right
  <2>7. BoundsOK'
    BY <1>4, <1>10, <2>2 DEF BoundsOK, Bounds, Left, Right
  <2>8. FoundOK'
    <3>1. ~ (depth' > Depth)
      BY <1>5, <2>3
    <3> QED BY <1>4, <1>10, <1>13, <3>1 DEF FoundOK
  <2>9. SubTypeOK'
    <3>1. depth' \in 1..(Depth + 1)
      BY <1>3, <1>5, <1>7, <2>3
    <3> QED BY <1>0, <1>4, <1>10, <1>12, <1>14, <2>4, <3>1 DEF SubTypeOK
  <2> QED BY <1>10, <1>15, <2>6, <2>7, <2>8, <2>9 DEF SubInv
<1>17. CASE d = Depth
  <2>1. index' = i /\ depth' = Depth + 1
    BY <1>3, <1>5, <1>17 DEF Down
  <2>2. depth' > Depth /\ ~ (depth' <= Depth)
    BY <1>5, <2>1
  <2>3. ~ garbage' => Found(last', walked)
    <3>1. ASSUME ~ garbage' PROVE Found(IF Cmp(i) = 0 THEN i ELSE last, walked)
      BY <1>0, <1>5, <1>7, <1>9, <1>17, <3>1, AtBottom
    <3> QED BY <1>3, <1>9, <3>1
  <2>4. ~ garbage' => index' <= n /\ (Cmp(index') = 0 => last' = index')
    BY <1>3, <1>9, <2>1
  <2>5. FoundOK'
    BY <1>4, <1>10, <1>13, <2>3, <2>4 DEF FoundOK, Found, Cmp
  <2>6. PlaceOK' /\ BoundsOK'
    BY <1>4, <1>10, <2>2 DEF PlaceOK, BoundsOK
  <2>7. SubTypeOK'
    <3>1. depth' \in 1..(Depth + 1)
      BY <1>5, <2>1
    <3> QED BY <1>0, <1>4, <1>10, <1>11, <1>12, <1>14, <2>1, <3>1 DEF SubTypeOK
  <2> QED BY <1>10, <1>15, <2>5, <2>6, <2>7 DEF SubInv
<1> QED BY <1>5, <1>7, <1>16, <1>17

\* The node at the bottom decides what was found.
LEMMA BottomNodeStep == SubInv /\ BottomNode => SubInv'
<1> SUFFICES ASSUME SubInv, BottomNode PROVE SubInv'
  OBVIOUS
<1>0. FileOK /\ SubTypeOK /\ PlaceOK /\ PreviewOK /\ BoundsOK /\ FoundOK
  BY DEF SubInv
<1>1. PICK c \in BufferCmp(index) : last' = IF c = 0 THEN index ELSE last
  BY DEF BottomNode
<1>2. /\ pc = "buffer" /\ pc' = "found" /\ depth >= Depth /\ garbage' = (garbage \/ index > n)
      /\ UNCHANGED <<n, preview, less, equal, upto, index, depth, nIdx, nDepth, out, status, walked>>
  BY DEF BottomNode, file, Goto
<1>3. Depth \in Nat \ {0} /\ Pow2[Depth] \in Nat /\ n \in Nat /\ BufferRecords \in Nat
        /\ depth \in Nat \ {0} /\ index \in Int /\ index \in 1..(Pow2[Depth] - 1)
  BY <1>0, DepthFacts DEF SubTypeOK
<1>4. ASSUME depth = Depth, ~ garbage PROVE Bounds(index, Depth, last, walked)
  BY <1>0, <1>2, <1>3, <1>4 DEF BoundsOK
<1>5. ASSUME index > n, ~ garbage PROVE 4 * (n - less) < BufferRecords + 1
  <2>1. CASE depth = Depth
    <3>1. Left(index, Depth) = index - 1
      BY <1>3, Pow2Rec DEF Left
    <3>2. index - 1 <= less
      BY <1>4, <1>5, <2>1, <3>1 DEF Bounds
    <3> QED BY <1>0, <1>3, <1>5, <3>2 DEF FileOK
  <2>2. CASE depth > Depth
    BY <1>0, <1>2, <1>3, <1>5, <2>2 DEF FoundOK
  <2> QED BY <1>2, <1>3, <2>1, <2>2
<1>6. ~ garbage' => ~ garbage /\ index <= n /\ c = Cmp(index)
  <2> SUFFICES ASSUME ~ garbage' PROVE ~ garbage /\ ~ (index > n)
    BY <1>1, <1>3 DEF BufferCmp
  <2> QED BY <1>2
<1>7. /\ FileOK' /\ Depth' = Depth
      /\ LookupOK' /\ FailsOnlyAtEnd' /\ UnreadOnlyNearEnd'
  <2>1. garbage' => garbage \/ 4 * (n - less) < BufferRecords + 1
    BY <1>2, <1>5
  <2> QED BY <1>2, <1>6, <2>1, GoesOn
<1>8. ~ garbage' => Found(last', walked)
  <2> SUFFICES ASSUME ~ garbage' PROVE Found(last', walked)
    OBVIOUS
  <2>1. last' = IF Cmp(index) = 0 THEN index ELSE last
    BY <1>1, <1>6
  <2>2. CASE depth = Depth
    <3>1. Found(IF Cmp(index) = 0 THEN index ELSE last, walked)
      BY <1>0, <1>3, <1>4, <1>6, <2>2, AtBottom
    <3> QED BY <2>1, <3>1
  <2>3. CASE depth > Depth
    <3>1. (Cmp(index) = 0 => last = index) /\ Found(last, walked)
      BY <1>0, <1>2, <1>6, <2>3 DEF FoundOK
    <3> QED BY <2>1, <3>1
  <2> QED BY <1>2, <1>3, <2>2, <2>3
<1>9. FoundOK'
  <2>1. ~ garbage' => last' <= n
    BY <1>0, <1>1, <1>6 DEF FoundOK
  <2> QED BY <1>2, <1>7, <1>8, <2>1 DEF FoundOK, Found
<1>10. PlaceOK' /\ BoundsOK' /\ PreviewOK'
  BY <1>2 DEF PlaceOK, BoundsOK, PreviewOK
<1>11. SubTypeOK'
  <2>1. PreviewDepth' = PreviewDepth /\ garbage' \in BOOLEAN
    BY <1>2 DEF PreviewDepth
  <2>2. last' \in {-1} \cup 1..(Pow2[Depth] - 1)
    BY <1>0, <1>1, <1>3 DEF SubTypeOK
  <2> QED BY <1>0, <1>2, <1>7, <2>1, <2>2 DEF SubTypeOK
<1> QED BY <1>7, <1>9, <1>10, <1>11 DEF SubInv

\* Every step keeps the invariant.
LEMMA SubInvNext == SubInv /\ [SubNext]_subVars => SubInv'
<1> SUFFICES ASSUME SubInv, [SubNext]_subVars PROVE SubInv'
  OBVIOUS
<1>1. CASE SubNext
  BY <1>1, PreviewNodeStep, PreviewVirtualStep, PreviewEndsStep, SlowVirtualStep, SlowNodeStep,
     ReadSubtreeStep, BufferNodeStep, BottomNodeStep, OutputMatchesStep DEF SubNext
<1>2. CASE UNCHANGED subVars
  <2>1. UNCHANGED <<n, preview, less, equal, upto, pc, index, depth, nIdx, nDepth, last, out, status,
                    garbage, walked>>
    BY <1>2 DEF subVars, file
  <2>2. Depth' = Depth /\ PreviewDepth' = PreviewDepth /\ preview_depth(n)' = preview_depth(n)
    BY <2>1 DEF Depth, PreviewDepth, preview_depth
  <2>3. FileOK' /\ SubTypeOK' /\ PlaceOK'
    BY <2>1, <2>2 DEF SubInv, FileOK, SubTypeOK, PlaceOK, InTree, Left, Right
  <2>4. PreviewOK' /\ BoundsOK' /\ FoundOK'
    BY <2>1, <2>2 DEF SubInv, PreviewOK, BoundsOK, Bounds, Left, Right, FoundOK, Found, Cmp
  <2>5. LookupOK' /\ FailsOnlyAtEnd' /\ UnreadOnlyNearEnd'
    BY <2>1 DEF SubInv, LookupOK, PresentExact, slow, FailsOnlyAtEnd, UnreadOnlyNearEnd
  <2> QED BY <2>3, <2>4, <2>5 DEF SubInv
<1> QED BY <1>1, <1>2

\* Every lookup keeps within the bounds of the range it looks for, in the preview and
\* in the records (search_preview, search_index).
THEOREM SubInvariant == SubSpec => []SubInv
BY SubInvInit, SubInvNext, PTL DEF SubSpec

-----------------------------------------------------------------------------
\* A lookup stays within the tree and the preview tree, and outputs only records of
\* the file (search_subindex).
THEOREM LookupTypes == SubSpec => []SubTypeOK
<1>1. SubInv => SubTypeOK
  BY DEF SubInv
<1> QED BY <1>1, SubInvariant, PTL

\* The preview list that write_index writes and the walk of search_preview agree
\* about every node, for every size of the file, of a block and of the header.
THEOREM PreviewsAgree == SubSpec => []PreviewAgrees
<1>1. ASSUME SubInv PROVE PreviewAgrees
  <2> SUFFICES ASSUME pc = "preview", nDepth <= PreviewDepth, nIdx <= Len(preview)
               PROVE  preview[nIdx] = index
    BY DEF PreviewAgrees
  <2>1. FileOK /\ SubTypeOK /\ PreviewOK /\ n \in Nat /\ preview = PreviewList(n)
    BY <1>1 DEF SubInv, FileOK
  <2>2. preview_depth(n) = PreviewDepth /\ index = nIdx * Pow2[Depth - PreviewDepth]
          /\ nIdx - Pow2[PreviewDepth - nDepth] >= 0
    BY <2>1 DEF PreviewOK
  <2>3. nIdx \in Nat /\ PreviewDepth - nDepth \in Nat
    <3>1. PreviewDepth \in Nat
      BY <2>1, DepthFacts
    <3>2. Pow2[PreviewDepth] \in Nat
      BY <3>1, Pow2Rec
    <3> QED BY <2>1, <3>1, <3>2 DEF SubTypeOK
  <2>4. nIdx \in 1..Len(preview)
    <3>1. Pow2[PreviewDepth - nDepth] \in Nat \ {0}
      BY <2>3, Pow2Grows
    <3>2. nIdx >= 1
      BY <2>2, <2>3, <3>1
    <3>3. Len(preview) \in Nat
      BY <2>1, PreviewListFacts
    <3> QED BY <2>3, <3>2, <3>3
  <2>5. preview[nIdx] = nIdx * Pow2[TreeDepth(n) - preview_depth(n)]
    <3>1. \A j \in 1..Len(preview) : preview[j] = j * Pow2[TreeDepth(n) - preview_depth(n)]
      BY <2>1, PreviewListFacts
    <3> QED BY <2>4, <3>1
  <2> QED BY <2>2, <2>5 DEF Depth
<1> QED BY <1>1, SubInvariant, PTL

\* The match m for a key that is not in the index: the lowest of the records that the
\* walk came by with the place of the key behind them.
Nearest(m, ws) ==
    \/ m = -1 /\ \A w \in ws : w < less
    \/ m \in ws /\ less <= m /\ \A w \in ws : less <= w => m <= w

\* None of those is in the subtree.
Above(i, d, ws) == \A w \in ws : less <= w => Right(i, d) <= w

AbsentInv ==
    equal = 0 /\ ~ garbage =>
        /\ pc \in {"preview", "index", "buffer", "found"} => Nearest(last, walked)
        /\ pc \in {"preview", "index"} => Above(index, depth, walked)
        /\ pc # "done" => out = {}
        /\ AbsentExact

\* Going down leaves them above.
LEMMA AboveDown ==
    ASSUME FileOK, Depth \in Nat, NEW i \in Int, NEW d \in Nat, d < Depth, NEW c, NEW j,
           j = Down(i, d, Depth, c), NEW ws \in SUBSET Int, Above(i, d, ws)
    PROVE  Above(j, d + 1, ws)
<1>1. Right(j, d + 1) \in {i, Right(i, d)} /\ i < Right(i, d) /\ Right(i, d) \in Int
  BY DownFacts
<1> QED BY <1>1 DEF Above

\* A record read on its own becomes the match if the place of the key is behind it.
LEMMA AboveSlow ==
    ASSUME FileOK, Depth \in Nat, NEW i \in Int, NEW d \in Nat, d < Depth, NEW c, NEW j, equal = 0,
           c = Cmp(i + 1), j = Down(i, d, Depth, c), NEW m, NEW ws \in SUBSET Int,
           Above(i, d, ws), Nearest(m, ws)
    PROVE  Above(j, d + 1, ws \cup {i}) /\ Nearest(IF c = 1 THEN m ELSE i, ws \cup {i})
<1>1. /\ c = 1 => Right(j, d + 1) = Right(i, d)
      /\ c # 1 => Right(j, d + 1) = i
      /\ i < Right(i, d) /\ Right(i, d) \in Int
  BY DownFacts
<1>2. less \in Nat /\ (c = 1 <=> i < less)
  BY DEF FileOK, Cmp
<1>3. CASE c = 1
  <2>1. Above(j, d + 1, ws \cup {i})
    BY <1>1, <1>2, <1>3 DEF Above
  <2>2. Nearest(m, ws \cup {i})
    BY <1>2, <1>3 DEF Nearest
  <2> QED BY <1>3, <2>1, <2>2
<1>4. CASE c # 1
  <2>1. \A w \in ws : less <= w => i <= w
    BY <1>1 DEF Above
  <2>2. Above(j, d + 1, ws \cup {i})
    BY <1>1, <1>4, <2>1 DEF Above
  <2>3. Nearest(i, ws \cup {i})
    BY <1>2, <1>4, <2>1 DEF Nearest
  <2> QED BY <1>4, <2>2, <2>3
<1> QED BY <1>3, <1>4

\* Every step keeps it.
LEMMA AbsentKept == SubInv /\ AbsentInv /\ [SubNext]_subVars => AbsentInv'
<1> SUFFICES ASSUME SubInv, AbsentInv, [SubNext]_subVars, equal' = 0, ~ garbage'
             PROVE  /\ pc' \in {"preview", "index", "buffer", "found"} => Nearest(last, walked)'
                    /\ pc' \in {"preview", "index"} => Above(index, depth, walked)'
                    /\ (pc # "done" => out = {})'
                    /\ AbsentExact'
  BY DEF AbsentInv
<1>0. /\ FileOK /\ SubTypeOK /\ PlaceOK /\ BoundsOK /\ FoundOK /\ Depth \in Nat \ {0}
      /\ depth \in Nat \ {0} /\ index \in Int /\ walked \in SUBSET Int /\ less \in Nat /\ n \in Nat
  <2>1. FileOK /\ SubTypeOK /\ PlaceOK /\ BoundsOK /\ FoundOK
    BY DEF SubInv
  <2>2. Depth \in Nat \ {0} /\ Pow2[Depth] \in Nat /\ n \in Nat
    BY <2>1, DepthFacts
  <2> QED BY <2>1, <2>2 DEF SubTypeOK, FileOK
<1>1. UNCHANGED <<n, less, equal, upto>> /\ Depth' = Depth /\ equal = 0
  BY DEF SubNext, PreviewNode, PreviewVirtual, PreviewEnds, SlowVirtual, SlowNode, ReadSubtree,
         BufferNode, BottomNode, OutputMatches, subVars, file, Depth
<1>2. ~ garbage
  BY DEF SubNext, PreviewNode, PreviewVirtual, PreviewEnds, SlowVirtual, SlowNode, ReadSubtree,
         BufferNode, BottomNode, OutputMatches, subVars
<1>3. /\ pc \in {"preview", "index", "buffer", "found"} => Nearest(last, walked)
      /\ pc \in {"preview", "index"} => Above(index, depth, walked)
      /\ pc # "done" => out = {}
      /\ AbsentExact
  BY <1>1, <1>2 DEF AbsentInv
<1>4. Nearest(last, walked)' <=> Nearest(last', walked')
  BY <1>1 DEF Nearest
<1>5. Above(index, depth, walked)' <=> Above(index', depth', walked')
  BY <1>1 DEF Above, Right
<1>6. \A i : Cmp(i) # 0
  BY <1>0, <1>1 DEF Cmp
<1>7. pc' # "done" => AbsentExact' /\ out' = {}
  BY <1>3 DEF AbsentExact, SubNext, PreviewNode, PreviewVirtual, PreviewEnds, SlowVirtual, SlowNode,
     ReadSubtree, BufferNode, BottomNode, OutputMatches, Return, Goto, subVars
<1>8. CASE PreviewNode
  <2>1. PICK c : c = Cmp(preview[nIdx])
    OBVIOUS
  <2>2. /\ pc = "preview" /\ pc' = "preview" /\ walked' = walked /\ last' = last
        /\ index' = Down(index, depth, Depth, c) /\ depth' = depth + 1
    BY <1>6, <1>8, <2>1 DEF PreviewNode
  <2>3. depth < Depth
    BY <1>8, <2>2, PreviewAbove DEF PreviewNode
  <2>4. Above(index', depth', walked')
    BY <1>0, <1>3, <2>2, <2>3, AboveDown
  <2> QED BY <1>3, <1>4, <1>5, <1>7, <2>2, <2>4
<1>9. CASE PreviewVirtual \/ SlowVirtual
  <2>1. /\ pc \in {"preview", "index"} /\ walked' = walked /\ last' = last
        /\ pc' = "hung" \/ (/\ pc' = pc /\ index' = Down(index, depth, Depth, -1)
                           /\ depth' = depth + 1 /\ depth < Depth)
    BY <1>9, SlowAbove DEF PreviewVirtual, SlowVirtual, Goto
  <2>2. pc' # "hung" => Above(index', depth', walked')
    BY <1>0, <1>3, <2>1, AboveDown
  <2> QED BY <1>3, <1>4, <1>5, <1>7, <2>1, <2>2
<1>10. CASE PreviewEnds
  BY <1>3, <1>4, <1>5, <1>7, <1>10 DEF PreviewEnds, Goto
<1>11. CASE SlowNode
  <2>1. pc = "index" /\ walked' = walked \cup {index} /\ depth < Depth
    BY <1>11, SlowAbove DEF SlowNode
  <2>2. CASE index + 1 > n
    <3>1. pc' = "done" /\ status' = "EIO"
      BY <1>11, <2>2 DEF SlowNode, Return, Goto
    <3> QED BY <3>1 DEF AbsentExact
  <2>3. CASE ~ (index + 1 > n)
    <3>1. PICK c : c = Cmp(index + 1)
      OBVIOUS
    <3>2. /\ last' = IF c = 1 THEN last ELSE index
          /\ index' = Down(index, depth, Depth, c) /\ depth' = depth + 1 /\ pc' = "index"
      BY <1>11, <2>1, <2>3, <3>1 DEF SlowNode
    <3>3. Above(index', depth', walked') /\ Nearest(last', walked')
      BY <1>0, <1>1, <1>3, <2>1, <3>1, <3>2, AboveSlow
    <3> QED BY <1>4, <1>5, <1>7, <3>2, <3>3
  <2> QED BY <2>2, <2>3
<1>12. CASE ReadSubtree
  <2>1. /\ pc = "index" /\ walked' = walked /\ last' = last
        /\ pc' = "buffer" \/ (pc' = "done" /\ status' = "EIO")
    BY <1>12 DEF ReadSubtree, Return, Goto
  <2>2. pc' = "done" => AbsentExact'
    BY <2>1 DEF AbsentExact
  <2> QED BY <1>3, <1>4, <1>7, <2>1, <2>2
<1>13. CASE BufferNode \/ BottomNode
  <2>1. pc = "buffer" /\ walked' = walked /\ pc' \in {"buffer", "found"}
    BY <1>13 DEF BufferNode, BottomNode, Goto
  <2>2. last' = last
    <3>1. PICK i, c : c \in BufferCmp(i) /\ last' = (IF c = 0 THEN i ELSE last) /\ garbage' = (garbage \/ i > n)
      BY <1>13 DEF BufferNode, BottomNode
    <3>2. c = Cmp(i)
      BY <3>1 DEF BufferCmp
    <3> QED BY <1>6, <3>1, <3>2
  <2> QED BY <1>3, <1>4, <1>7, <2>1, <2>2
<1>14. CASE OutputMatches
  <2>1. pc = "found" /\ pc' = "done" /\ walked' = walked /\ Nearest(last, walked)
    BY <1>3, <1>14 DEF OutputMatches, Return, Goto
  <2>2. out = {}
    BY <1>3, <2>1
  <2>3. walked \subseteq 1..n /\ upto \in Nat /\ upto <= n
    BY <1>0 DEF SubTypeOK, FileOK
  <2>4. ASSUME status' = "ok"
        PROVE  out' = {i \in 1..upto : \E w \in walked : less <= w /\ w <= i}
    <3>1. CASE last = -1
      <4>1. out' = {}
        BY <1>14, <2>2, <3>1 DEF OutputMatches
      <4>2. \A w \in walked : w < less
        BY <2>1, <2>3, <3>1 DEF Nearest
      <4> QED BY <1>0, <2>3, <4>1, <4>2
    <3>2. CASE last # -1
      <4>1. last \in walked /\ less <= last /\ \A w \in walked : less <= w => last <= w
        BY <2>1, <3>2 DEF Nearest
      <4>2. last \in 1..n
        BY <2>3, <4>1
      <4>3. out' = last..upto
        <5>1. CASE last > upto
          <6>1. out' = {} /\ last..upto = {}
            BY <1>0, <1>14, <2>2, <2>3, <2>4, <3>2, <4>2, <5>1 DEF OutputMatches, Return
          <6> QED BY <6>1
        <5>2. CASE ~ (last > upto)
          BY <1>0, <1>14, <2>4, <3>2, <4>2, <5>2 DEF OutputMatches, Return
        <5> QED BY <5>1, <5>2
      <4> QED BY <1>0, <2>3, <4>1, <4>2, <4>3
    <3> QED BY <3>1, <3>2
  <2> QED BY <1>1, <2>1, <2>4 DEF AbsentExact
<1>15. CASE UNCHANGED subVars
  <2>1. UNCHANGED <<pc, index, depth, last, walked, out, status, garbage>>
    BY <1>15 DEF subVars
  <2> QED BY <1>1, <1>3, <1>4, <1>5, <2>1 DEF AbsentExact
<1> QED BY <1>8, <1>9, <1>10, <1>11, <1>12, <1>13, <1>14, <1>15 DEF SubNext

\* A lookup that succeeds and compared only with keys it had read outputs what
\* LookupComplete says, for every index, block and buffer: the range if its start is in
\* an index that is small for the buffer, and else what the walk that reads one record
\* at a time makes of it (search_preview, search_index, output_matches).
THEOREM LookupFinds == SubSpec => []LookupComplete
<1>1. SubInit => AbsentInv
  BY DEF SubInit, AbsentInv, AbsentExact, Nearest, Above
<1>2. SubSpec => []AbsentInv
  BY <1>1, AbsentKept, SubInvariant, PTL DEF SubSpec
<1>3. SubInv /\ AbsentInv => LookupComplete
  BY DEF SubInv, LookupOK, AbsentInv, AbsentExact, LookupComplete
<1> QED BY <1>2, <1>3, SubInvariant, PTL

\* A lookup hangs, or fails in the regular way, only when its range reaches to the end
\* of the index (search_preview, search_index, output_matches).
THEOREM LookupFailsAtEnd == SubSpec => []FailsOnlyAtEnd
<1>1. SubInv => FailsOnlyAtEnd
  BY DEF SubInv
<1> QED BY <1>1, SubInvariant, PTL

\* Memory that was not filled is compared with only near the end of the index
\* (the last loop of search_index).
THEOREM LookupUnreadNearEnd == SubSpec => []UnreadOnlyNearEnd
<1>1. SubInv => UnreadOnlyNearEnd
  BY DEF SubInv
<1> QED BY <1>1, SubInvariant, PTL
=============================================================================
