--------------------------- MODULE ReceiptsProofs ---------------------------
(***************************************************************************)
(* Proofs about Merkle and Receipts, for trees of any size.                *)
(***************************************************************************)
EXTENDS Receipts, WellFoundedInduction, FiniteSetTheorems, SequenceTheorems, TLAPS

-----------------------------------------------------------------------------
\* Induction over the naturals, with a set for the predicate.

\* A set that holds 0 and is closed under successor holds every natural.
LEMMA NatSetInduction ==
  ASSUME NEW S, 0 \in S, \A n \in Nat : n \in S => n + 1 \in S
  PROVE  \A n \in Nat : n \in S
<1> SUFFICES ASSUME Nat \ S # {} PROVE FALSE
  OBVIOUS
<1> DEFINE T == Nat \ S
<1>1. PICK x \in T : \A y \in T : ~(<<y, x>> \in OpToRel(<, Nat))
  BY WFMin, NatLessThanWellFounded
<1>2. x # 0
  OBVIOUS
<1>3. x - 1 \in Nat
  BY <1>2
<1>4. <<x - 1, x>> \in OpToRel(<, Nat)
  BY <1>3 DEF OpToRel
<1>5. x - 1 \notin T
  BY <1>1, <1>4
<1> QED BY <1>3, <1>5

\* A set of naturals has a least element.
LEMMA LeastOfNat ==
  ASSUME NEW S, S \subseteq Nat, S # {}
  PROVE  \E x \in S : \A y \in S : x <= y
<1>1. PICK x \in S : \A y \in S : ~(<<y, x>> \in OpToRel(<, Nat))
  BY WFMin, NatLessThanWellFounded
<1>2. \A y \in S : ~(y < x)
  BY <1>1 DEF OpToRel
<1> QED BY <1>2

\* The induction with the hypothesis for every smaller number.
LEMMA NatSetStrongInduction ==
  ASSUME NEW S, \A n \in Nat : (\A m \in 0..(n - 1) : m \in S) => n \in S
  PROVE  \A n \in Nat : n \in S
<1> DEFINE B == {n \in Nat : \A m \in 0..(n - 1) : m \in S}
<1>1. 0 \in B
  OBVIOUS
<1>2. \A n \in Nat : n \in B => n + 1 \in B
  OBVIOUS
<1> HIDE DEF B
<1>3. \A n \in Nat : n \in B
  BY <1>1, <1>2, NatSetInduction
<1> QED BY <1>3 DEF B

-----------------------------------------------------------------------------
\* The recursive functions of Merkle are what their equations say.

\* The powers of two.
LEMMA TwoToDef ==
  \A i \in Nat : TwoTo[i] = IF i = 0 THEN 1 ELSE 2 * TwoTo[i - 1]
<1> DEFINE Body(g, n) ==
             IF n = 0 THEN 1 ELSE 2 * g[n - 1]
           Upto(g, n) == \A i \in 0..n : g[i] = Body(g, i)
           Good == {n \in Nat : \E g : Upto(g, n)}
           Same == {n \in Nat : \A g, h : Upto(g, n) /\ Upto(h, n) => g[n] = h[n]}
<1>1. ASSUME NEW g, NEW h, NEW n \in Nat, \A i \in 0..(n - 1) : g[i] = h[i]
      PROVE  Body(g, n) = Body(h, n)
  <2>1. n # 0 => n - 1 \in 0..(n - 1)
    OBVIOUS
  <2> QED BY <1>1, <2>1
<1> HIDE DEF Body
<1>2. \A n \in Nat : n \in Good
  <2>1. 0 \in Good
    <3> DEFINE g == [i \in Nat |-> Body(<<>>, 0)]
    <3>1. Body(g, 0) = Body(<<>>, 0)
      BY <1>1
    <3>2. Upto(g, 0)
      BY <3>1
    <3> QED BY <3>2
  <2>2. ASSUME NEW n \in Nat, n \in Good PROVE n + 1 \in Good
    <3>1. PICK g : Upto(g, n)
      BY <2>2
    <3> DEFINE h == [i \in Nat |-> IF i <= n THEN g[i] ELSE Body(g, n + 1)]
    <3>2. \A i \in 0..(n + 1) : Body(h, i) = Body(g, i)
      BY <1>1
    <3>3. Upto(h, n + 1)
      BY <3>1, <3>2
    <3> HIDE DEF h
    <3> QED BY <3>3
  <2> HIDE DEF Good
  <2> QED BY <2>1, <2>2, NatSetInduction
<1>3. \A n \in Nat : n \in Same
  <2>1. ASSUME NEW n \in Nat, \A m \in 0..(n - 1) : m \in Same
        PROVE  n \in Same
    <3> SUFFICES ASSUME NEW g, NEW h, Upto(g, n), Upto(h, n)
                 PROVE  g[n] = h[n]
      OBVIOUS
    <3>1. \A m \in 0..(n - 1) : Upto(g, m) /\ Upto(h, m)
      OBVIOUS
    <3>2. \A m \in 0..(n - 1) : g[m] = h[m]
      <4> HIDE DEF Upto
      <4> QED BY <2>1, <3>1
    <3>3. Body(g, n) = Body(h, n)
      BY <1>1, <3>2
    <3> QED BY <3>3
  <2> HIDE DEF Same
  <2> QED BY <2>1, NatSetStrongInduction
<1> DEFINE G(n) == CHOOSE g : Upto(g, n)
           f == [n \in Nat |-> G(n)[n]]
<1>4. \A n \in Nat : Upto(G(n), n)
  BY <1>2
<1>5. ASSUME NEW n \in Nat PROVE f[n] = Body(f, n)
  <2>1. \A i \in 0..(n - 1) : Upto(G(n), i) /\ Upto(G(i), i)
    BY <1>4
  <2>2. \A i \in 0..(n - 1) : G(n)[i] = G(i)[i]
    <3> HIDE DEF Upto, G
    <3> QED BY <1>3, <2>1
  <2>3. Body(f, n) = Body(G(n), n)
    <3> HIDE DEF G
    <3> QED BY <1>1, <2>2
  <2> QED BY <1>4, <2>3
<1>6. f = [n \in Nat |-> Body(f, n)]
  BY <1>5
<1> HIDE DEF f
<1>7. TwoTo = [n \in Nat |-> Body(TwoTo, n)]
  BY <1>6 DEF TwoTo, Body
<1> QED BY <1>7 DEF Body

\* The inner loop's divisor.
LEMMA LowestBitDef ==
  \A fn \in Nat : LowestBit[fn] = IF fn = 0 \/ fn % 2 = 1 THEN 1
                                 ELSE 2 * LowestBit[fn \div 2]
<1> DEFINE Body(g, n) ==
             IF n = 0 \/ n % 2 = 1 THEN 1 ELSE 2 * g[n \div 2]
           Upto(g, n) == \A i \in 0..n : g[i] = Body(g, i)
           Good == {n \in Nat : \E g : Upto(g, n)}
           Same == {n \in Nat : \A g, h : Upto(g, n) /\ Upto(h, n) => g[n] = h[n]}
<1>1. ASSUME NEW g, NEW h, NEW n \in Nat, \A i \in 0..(n - 1) : g[i] = h[i]
      PROVE  Body(g, n) = Body(h, n)
  <2>1. n # 0 => n \div 2 \in 0..(n - 1)
    OBVIOUS
  <2> QED BY <1>1, <2>1
<1> HIDE DEF Body
<1>2. \A n \in Nat : n \in Good
  <2>1. 0 \in Good
    <3> DEFINE g == [i \in Nat |-> Body(<<>>, 0)]
    <3>1. Body(g, 0) = Body(<<>>, 0)
      BY <1>1
    <3>2. Upto(g, 0)
      BY <3>1
    <3> QED BY <3>2
  <2>2. ASSUME NEW n \in Nat, n \in Good PROVE n + 1 \in Good
    <3>1. PICK g : Upto(g, n)
      BY <2>2
    <3> DEFINE h == [i \in Nat |-> IF i <= n THEN g[i] ELSE Body(g, n + 1)]
    <3>2. \A i \in 0..(n + 1) : Body(h, i) = Body(g, i)
      BY <1>1
    <3>3. Upto(h, n + 1)
      BY <3>1, <3>2
    <3> HIDE DEF h
    <3> QED BY <3>3
  <2> HIDE DEF Good
  <2> QED BY <2>1, <2>2, NatSetInduction
<1>3. \A n \in Nat : n \in Same
  <2>1. ASSUME NEW n \in Nat, \A m \in 0..(n - 1) : m \in Same
        PROVE  n \in Same
    <3> SUFFICES ASSUME NEW g, NEW h, Upto(g, n), Upto(h, n)
                 PROVE  g[n] = h[n]
      OBVIOUS
    <3>1. \A m \in 0..(n - 1) : Upto(g, m) /\ Upto(h, m)
      OBVIOUS
    <3>2. \A m \in 0..(n - 1) : g[m] = h[m]
      <4> HIDE DEF Upto
      <4> QED BY <2>1, <3>1
    <3>3. Body(g, n) = Body(h, n)
      BY <1>1, <3>2
    <3> QED BY <3>3
  <2> HIDE DEF Same
  <2> QED BY <2>1, NatSetStrongInduction
<1> DEFINE G(n) == CHOOSE g : Upto(g, n)
           f == [n \in Nat |-> G(n)[n]]
<1>4. \A n \in Nat : Upto(G(n), n)
  BY <1>2
<1>5. ASSUME NEW n \in Nat PROVE f[n] = Body(f, n)
  <2>1. \A i \in 0..(n - 1) : Upto(G(n), i) /\ Upto(G(i), i)
    BY <1>4
  <2>2. \A i \in 0..(n - 1) : G(n)[i] = G(i)[i]
    <3> HIDE DEF Upto, G
    <3> QED BY <1>3, <2>1
  <2>3. Body(f, n) = Body(G(n), n)
    <3> HIDE DEF G
    <3> QED BY <1>1, <2>2
  <2> QED BY <1>4, <2>3
<1>6. f = [n \in Nat |-> Body(f, n)]
  BY <1>5
<1> HIDE DEF f
<1>7. LowestBit = [n \in Nat |-> Body(LowestBit, n)]
  BY <1>6 DEF LowestBit, Body
<1> QED BY <1>7 DEF Body

\* Its state after each turn.
IsWalkUp(walk, hash, index, size, path) ==
  \A k \in Nat :
    walk[k] = IF k = 0 THEN [ok |-> 0 <= index /\ index < size, fn |-> index,
                             sn |-> size - 1, r |-> Leaf(hash)]
              ELSE Absorb(walk[k - 1], path[k])

\* The turns of the walk.
LEMMA WalkDef ==
  ASSUME NEW hash, NEW index, NEW size, NEW path
  PROVE  \E walk : /\ IsWalkUp(walk, hash, index, size, path)
                   /\ WalkUp(hash, index, size, path) = walk[Len(path)]
<1> DEFINE Body(g, n) ==
             IF n = 0 THEN [ok |-> 0 <= index /\ index < size, fn |-> index,
                            sn |-> size - 1, r |-> Leaf(hash)]
             ELSE Absorb(g[n - 1], path[n])
           Upto(g, n) == \A i \in 0..n : g[i] = Body(g, i)
           Good == {n \in Nat : \E g : Upto(g, n)}
           Same == {n \in Nat : \A g, h : Upto(g, n) /\ Upto(h, n) => g[n] = h[n]}
<1>1. ASSUME NEW g, NEW h, NEW n \in Nat, \A i \in 0..(n - 1) : g[i] = h[i]
      PROVE  Body(g, n) = Body(h, n)
  <2>1. n # 0 => n - 1 \in 0..(n - 1)
    OBVIOUS
  <2> QED BY <1>1, <2>1
<1> HIDE DEF Body
<1>2. \A n \in Nat : n \in Good
  <2>1. 0 \in Good
    <3> DEFINE g == [i \in Nat |-> Body(<<>>, 0)]
    <3>1. Body(g, 0) = Body(<<>>, 0)
      BY <1>1
    <3>2. Upto(g, 0)
      BY <3>1
    <3> QED BY <3>2
  <2>2. ASSUME NEW n \in Nat, n \in Good PROVE n + 1 \in Good
    <3>1. PICK g : Upto(g, n)
      BY <2>2
    <3> DEFINE h == [i \in Nat |-> IF i <= n THEN g[i] ELSE Body(g, n + 1)]
    <3>2. \A i \in 0..(n + 1) : Body(h, i) = Body(g, i)
      BY <1>1
    <3>3. Upto(h, n + 1)
      BY <3>1, <3>2
    <3> HIDE DEF h
    <3> QED BY <3>3
  <2> HIDE DEF Good
  <2> QED BY <2>1, <2>2, NatSetInduction
<1>3. \A n \in Nat : n \in Same
  <2>1. ASSUME NEW n \in Nat, \A m \in 0..(n - 1) : m \in Same
        PROVE  n \in Same
    <3> SUFFICES ASSUME NEW g, NEW h, Upto(g, n), Upto(h, n)
                 PROVE  g[n] = h[n]
      OBVIOUS
    <3>1. \A m \in 0..(n - 1) : Upto(g, m) /\ Upto(h, m)
      OBVIOUS
    <3>2. \A m \in 0..(n - 1) : g[m] = h[m]
      <4> HIDE DEF Upto
      <4> QED BY <2>1, <3>1
    <3>3. Body(g, n) = Body(h, n)
      BY <1>1, <3>2
    <3> QED BY <3>3
  <2> HIDE DEF Same
  <2> QED BY <2>1, NatSetStrongInduction
<1> DEFINE G(n) == CHOOSE g : Upto(g, n)
           f == [n \in Nat |-> G(n)[n]]
<1>4. \A n \in Nat : Upto(G(n), n)
  BY <1>2
<1>5. ASSUME NEW n \in Nat PROVE f[n] = Body(f, n)
  <2>1. \A i \in 0..(n - 1) : Upto(G(n), i) /\ Upto(G(i), i)
    BY <1>4
  <2>2. \A i \in 0..(n - 1) : G(n)[i] = G(i)[i]
    <3> HIDE DEF Upto, G
    <3> QED BY <1>3, <2>1
  <2>3. Body(f, n) = Body(G(n), n)
    <3> HIDE DEF G
    <3> QED BY <1>1, <2>2
  <2> QED BY <1>4, <2>3
<1>6. f = [n \in Nat |-> Body(f, n)]
  BY <1>5
<1> HIDE DEF f
<1> DEFINE walk == CHOOSE w : w = [n \in Nat |-> Body(w, n)]
<1>7. walk = [n \in Nat |-> Body(walk, n)]
  BY <1>6
<1>8. WalkUp(hash, index, size, path) = walk[Len(path)]
  BY DEF WalkUp, Body
<1> HIDE DEF walk
<1>9. \A k \in Nat : walk[k] = Body(walk, k)
  BY <1>7
<1>10. IsWalkUp(walk, hash, index, size, path)
  BY <1>9 DEF Body, IsWalkUp
<1> QED BY <1>8, <1>10

-----------------------------------------------------------------------------
\* Powers of two, and the split of a tree.

\* Doubling.
LEMMA TwoToFacts ==
  /\ TwoTo[0] = 1
  /\ \A i \in Nat : TwoTo[i] \in Nat /\ TwoTo[i] > 0 /\ TwoTo[i + 1] = 2 * TwoTo[i]
<1>1. TwoTo[0] = 1
  BY TwoToDef
<1>2. \A i \in Nat : TwoTo[i + 1] = 2 * TwoTo[i]
  BY TwoToDef
<1> DEFINE S == {i \in Nat : TwoTo[i] \in Nat /\ TwoTo[i] > 0}
<1>3. 0 \in S
  BY <1>1
<1>4. \A i \in Nat : i \in S => i + 1 \in S
  BY <1>2
<1> HIDE DEF S
<1>5. \A i \in Nat : i \in S
  BY <1>3, <1>4, NatSetInduction
<1> QED BY <1>1, <1>2, <1>5 DEF S

\* A smaller power of two divides a larger one.
LEMMA TwoToDivides ==
  \A i, j \in Nat : TwoTo[i + j] = TwoTo[i] * TwoTo[j]
<1> SUFFICES ASSUME NEW i \in Nat
             PROVE  \A j \in Nat : TwoTo[i + j] = TwoTo[i] * TwoTo[j]
  OBVIOUS
<1> DEFINE S == {j \in Nat : TwoTo[i + j] = TwoTo[i] * TwoTo[j]}
<1>1. 0 \in S
  BY TwoToFacts
<1>2. ASSUME NEW j \in Nat, j \in S PROVE j + 1 \in S
  <2>1. TwoTo[i] \in Nat /\ TwoTo[j] \in Nat /\ TwoTo[j + 1] = 2 * TwoTo[j]
    BY TwoToFacts
  <2>2. TwoTo[i + (j + 1)] = 2 * TwoTo[i + j]
    <3>1. i + j \in Nat /\ i + (j + 1) = (i + j) + 1
      OBVIOUS
    <3> QED BY <3>1, TwoToFacts
  <2>3. TwoTo[i + j] = TwoTo[i] * TwoTo[j]
    BY <1>2
  <2>4. \A a, b \in Nat : 2 * (a * b) = a * (2 * b)
    OBVIOUS
  <2> QED BY <2>1, <2>2, <2>3, <2>4
<1> HIDE DEF S
<1>3. \A j \in Nat : j \in S
  BY <1>1, <1>2, NatSetInduction
<1> QED BY <1>3 DEF S

\* The powers of two grow with the exponent.
LEMMA TwoToGrows ==
  ASSUME NEW i \in Nat, NEW j \in Nat
  PROVE  /\ i <= j => TwoTo[i] <= TwoTo[j]
         /\ TwoTo[i] <= TwoTo[j] => i <= j
<1>0. \A a, b \in Nat : TwoTo[a + b + 1] > TwoTo[a]
  <2> TAKE a, b \in Nat
  <2>1. TwoTo[a + (b + 1)] = TwoTo[a] * TwoTo[b + 1]
    BY TwoToDivides
  <2>2. TwoTo[b + 1] = 2 * TwoTo[b] /\ TwoTo[b] \in Nat /\ TwoTo[b] > 0 /\ TwoTo[a] \in Nat /\ TwoTo[a] > 0
    BY TwoToFacts
  <2>3. \A x, y \in Nat : x > 0 /\ y > 0 => x * (2 * y) > x
    <3> TAKE x, y \in Nat
    <3> HAVE x > 0 /\ y > 0
    <3>1. PICK z \in Nat : 2 * y = 2 + z
      <4>1. 2 * y - 2 \in Nat
        OBVIOUS
      <4> QED BY <4>1
    <3>2. x * (2 + z) = x + x + x * z /\ x * z \in Nat
      OBVIOUS
    <3> QED BY <3>1, <3>2
  <2>4. a + b + 1 = a + (b + 1)
    OBVIOUS
  <2> QED BY <2>1, <2>2, <2>3, <2>4
<1>1. ASSUME i < j PROVE TwoTo[i] < TwoTo[j]
  <2>1. j - i - 1 \in Nat /\ i + (j - i - 1) + 1 = j
    BY <1>1
  <2>2. TwoTo[i + (j - i - 1) + 1] > TwoTo[i]
    BY <1>0, <2>1
  <2> QED BY <2>1, <2>2, TwoToFacts
<1>2. ASSUME j < i PROVE TwoTo[j] < TwoTo[i]
  <2>1. i - j - 1 \in Nat /\ j + (i - j - 1) + 1 = i
    BY <1>2
  <2>2. TwoTo[j + (i - j - 1) + 1] > TwoTo[j]
    BY <1>0, <2>1
  <2> QED BY <2>1, <2>2, TwoToFacts
<1>3. TwoTo[i] \in Nat /\ TwoTo[j] \in Nat
  BY TwoToFacts
<1>4. CASE i = j
  BY <1>3, <1>4
<1>5. CASE i < j
  BY <1>1, <1>3, <1>5
<1>6. CASE j < i
  BY <1>2, <1>3, <1>6
<1> QED BY <1>4, <1>5, <1>6

\* _split returns the largest power of two below n.
LEMMA SplitFacts ==
  ASSUME NEW n \in Nat, n > 1
  PROVE  /\ Split(n) \in 1..(n - 1) /\ n - Split(n) \in 1..(n - 1)
         /\ n <= 2 * Split(n)
         /\ \E i \in Nat : Split(n) = TwoTo[i]
<1> DEFINE S == {m \in Nat : m > 1 => \E i \in 0..m : TwoTo[i] < m /\ m <= 2 * TwoTo[i]}
<1>1. 0 \in S
  OBVIOUS
<1>2. ASSUME NEW m \in Nat, m \in S PROVE m + 1 \in S
  <2> SUFFICES ASSUME m + 1 > 1
               PROVE  \E i \in 0..(m + 1) : TwoTo[i] < m + 1 /\ m + 1 <= 2 * TwoTo[i]
    OBVIOUS
  <2>1. CASE m = 1
    BY <2>1, TwoToFacts
  <2>2. CASE m > 1
    <3>1. PICK i \in 0..m : TwoTo[i] < m /\ m <= 2 * TwoTo[i]
      BY <1>2, <2>2
    <3>2. TwoTo[i] \in Nat /\ TwoTo[i] > 0 /\ TwoTo[i + 1] = 2 * TwoTo[i]
      BY TwoToFacts
    <3>3. CASE m + 1 <= 2 * TwoTo[i]
      BY <3>1, <3>2, <3>3
    <3>4. CASE m + 1 > 2 * TwoTo[i]
      <4>1. i + 1 \in 0..(m + 1) /\ TwoTo[i + 1] < m + 1 /\ m + 1 <= 2 * TwoTo[i + 1]
        BY <3>1, <3>2, <3>4
      <4> QED BY <4>1
    <3> QED BY <3>2, <3>3, <3>4
  <2> QED BY <2>1, <2>2
<1> HIDE DEF S
<1>3. n \in S
  BY <1>1, <1>2, NatSetInduction
<1>4. PICK i \in 0..n : TwoTo[i] < n /\ n <= 2 * TwoTo[i]
  BY <1>3 DEF S
<1>5. /\ Split(n) \in {TwoTo[j] : j \in 0..n}
      /\ Split(n) < n /\ n <= 2 * Split(n)
  <2>1. TwoTo[i] \in {TwoTo[j] : j \in 0..n}
    OBVIOUS
  <2> HIDE DEF TwoTo
  <2> QED BY <1>4, <2>1 DEF Split
<1>6. PICK j \in 0..n : Split(n) = TwoTo[j]
  BY <1>5
<1>7. Split(n) \in Nat /\ Split(n) > 0
  BY <1>6, TwoToFacts
<1> QED BY <1>5, <1>6, <1>7

\* The roots of the subtrees.
LEMMA SubtreeRootsDef ==
  ASSUME NEW hashes
  PROVE  \A n, lo \in Nat :
           SubtreeRoots(hashes)[n][lo] =
             IF n <= 1 THEN Leaf(hashes[lo + 1])
             ELSE Node(SubtreeRoots(hashes)[Split(n)][lo],
                       SubtreeRoots(hashes)[n - Split(n)][lo + Split(n)])
<1> DEFINE Body(g, n) ==
             [lo \in Nat |-> IF n <= 1 THEN Leaf(hashes[lo + 1])
                             ELSE Node(g[Split(n)][lo], g[n - Split(n)][lo + Split(n)])]
           Upto(g, n) == \A i \in 0..n : g[i] = Body(g, i)
           Good == {n \in Nat : \E g : Upto(g, n)}
           Same == {n \in Nat : \A g, h : Upto(g, n) /\ Upto(h, n) => g[n] = h[n]}
<1>1. ASSUME NEW g, NEW h, NEW n \in Nat, \A i \in 0..(n - 1) : g[i] = h[i]
      PROVE  Body(g, n) = Body(h, n)
  <2>1. CASE n <= 1
    BY <2>1
  <2>2. CASE n > 1
    <3>1. Split(n) \in 0..(n - 1) /\ n - Split(n) \in 0..(n - 1)
      BY <2>2, SplitFacts
    <3> QED BY <1>1, <2>2, <3>1
  <2> QED BY <2>1, <2>2
<1> HIDE DEF Body
<1>2. \A n \in Nat : n \in Good
  <2>1. 0 \in Good
    <3> DEFINE g == [i \in Nat |-> Body(<<>>, 0)]
    <3>1. Body(g, 0) = Body(<<>>, 0)
      BY <1>1
    <3>2. Upto(g, 0)
      BY <3>1
    <3> QED BY <3>2
  <2>2. ASSUME NEW n \in Nat, n \in Good PROVE n + 1 \in Good
    <3>1. PICK g : Upto(g, n)
      BY <2>2
    <3> DEFINE h == [i \in Nat |-> IF i <= n THEN g[i] ELSE Body(g, n + 1)]
    <3>2. \A i \in 0..(n + 1) : Body(h, i) = Body(g, i)
      BY <1>1
    <3>3. Upto(h, n + 1)
      BY <3>1, <3>2
    <3> HIDE DEF h
    <3> QED BY <3>3
  <2> HIDE DEF Good
  <2> QED BY <2>1, <2>2, NatSetInduction
<1>3. \A n \in Nat : n \in Same
  <2>1. ASSUME NEW n \in Nat, \A m \in 0..(n - 1) : m \in Same
        PROVE  n \in Same
    <3> SUFFICES ASSUME NEW g, NEW h, Upto(g, n), Upto(h, n)
                 PROVE  g[n] = h[n]
      OBVIOUS
    <3>1. \A m \in 0..(n - 1) : Upto(g, m) /\ Upto(h, m)
      OBVIOUS
    <3>2. \A m \in 0..(n - 1) : g[m] = h[m]
      <4> HIDE DEF Upto
      <4> QED BY <2>1, <3>1
    <3>3. Body(g, n) = Body(h, n)
      BY <1>1, <3>2
    <3> QED BY <3>3
  <2> HIDE DEF Same
  <2> QED BY <2>1, NatSetStrongInduction
<1> DEFINE G(n) == CHOOSE g : Upto(g, n)
           f == [n \in Nat |-> G(n)[n]]
<1>4. \A n \in Nat : Upto(G(n), n)
  BY <1>2
<1>5. ASSUME NEW n \in Nat PROVE f[n] = Body(f, n)
  <2>1. \A i \in 0..(n - 1) : Upto(G(n), i) /\ Upto(G(i), i)
    BY <1>4
  <2>2. \A i \in 0..(n - 1) : G(n)[i] = G(i)[i]
    <3> HIDE DEF Upto, G
    <3> QED BY <1>3, <2>1
  <2>3. Body(f, n) = Body(G(n), n)
    <3> HIDE DEF G
    <3> QED BY <1>1, <2>2
  <2> QED BY <1>4, <2>3
<1>6. f = [n \in Nat |-> Body(f, n)]
  BY <1>5
<1> HIDE DEF f
<1> DEFINE root == CHOOSE w : w = [n \in Nat |-> Body(w, n)]
<1>7. root = [n \in Nat |-> Body(root, n)]
  BY <1>6
<1>8. SubtreeRoots(hashes) = root
  BY DEF SubtreeRoots, Body
<1> HIDE DEF root
<1>9. \A n \in Nat : root[n] = Body(root, n)
  BY <1>7
<1> QED BY <1>8, <1>9 DEF Body

\* The root of one leaf, and of several.
LEMMA SubtreeRootsCases ==
  ASSUME NEW hashes, NEW n \in Nat, NEW lo \in Nat
  PROVE  /\ n <= 1 => SubtreeRoots(hashes)[n][lo] = Leaf(hashes[lo + 1])
         /\ n > 1 => SubtreeRoots(hashes)[n][lo] =
                       Node(SubtreeRoots(hashes)[Split(n)][lo],
                            SubtreeRoots(hashes)[n - Split(n)][lo + Split(n)])
<1>1. n > 1 => ~(n <= 1)
  OBVIOUS
<1> QED BY <1>1, SubtreeRootsDef

\* A path with one more digest.
Longer(path, digest) == Append(path, digest)

\* The audit paths.
LEMMA AuditPathsDef ==
  ASSUME NEW hashes, NEW index
  PROVE  \A n, lo \in Nat :
           AuditPaths(hashes, index)[n][lo] =
             IF n <= 1 THEN <<>>
             ELSE IF index < lo + Split(n)
             THEN Longer(AuditPaths(hashes, index)[Split(n)][lo],
                         SubtreeRoots(hashes)[n - Split(n)][lo + Split(n)])
             ELSE Longer(AuditPaths(hashes, index)[n - Split(n)][lo + Split(n)],
                         SubtreeRoots(hashes)[Split(n)][lo])
<1> DEFINE Body(g, n) ==
             [lo \in Nat |->
                IF n <= 1 THEN <<>>
                ELSE IF index < lo + Split(n)
                THEN Append(g[Split(n)][lo], SubtreeRoots(hashes)[n - Split(n)][lo + Split(n)])
                ELSE Append(g[n - Split(n)][lo + Split(n)], SubtreeRoots(hashes)[Split(n)][lo])]
           Upto(g, n) == \A i \in 0..n : g[i] = Body(g, i)
           Good == {n \in Nat : \E g : Upto(g, n)}
           Same == {n \in Nat : \A g, h : Upto(g, n) /\ Upto(h, n) => g[n] = h[n]}
<1>1. ASSUME NEW g, NEW h, NEW n \in Nat, \A i \in 0..(n - 1) : g[i] = h[i]
      PROVE  Body(g, n) = Body(h, n)
  <2>1. CASE n <= 1
    BY <2>1
  <2>2. CASE n > 1
    <3>1. Split(n) \in 0..(n - 1) /\ n - Split(n) \in 0..(n - 1)
      BY <2>2, SplitFacts
    <3> QED BY <1>1, <2>2, <3>1
  <2> QED BY <2>1, <2>2
<1> HIDE DEF Body
<1>2. \A n \in Nat : n \in Good
  <2>1. 0 \in Good
    <3> DEFINE g == [i \in Nat |-> Body(<<>>, 0)]
    <3>1. Body(g, 0) = Body(<<>>, 0)
      BY <1>1
    <3>2. Upto(g, 0)
      BY <3>1
    <3> QED BY <3>2
  <2>2. ASSUME NEW n \in Nat, n \in Good PROVE n + 1 \in Good
    <3>1. PICK g : Upto(g, n)
      BY <2>2
    <3> DEFINE h == [i \in Nat |-> IF i <= n THEN g[i] ELSE Body(g, n + 1)]
    <3>2. \A i \in 0..(n + 1) : Body(h, i) = Body(g, i)
      BY <1>1
    <3>3. Upto(h, n + 1)
      BY <3>1, <3>2
    <3> HIDE DEF h
    <3> QED BY <3>3
  <2> HIDE DEF Good
  <2> QED BY <2>1, <2>2, NatSetInduction
<1>3. \A n \in Nat : n \in Same
  <2>1. ASSUME NEW n \in Nat, \A m \in 0..(n - 1) : m \in Same
        PROVE  n \in Same
    <3> SUFFICES ASSUME NEW g, NEW h, Upto(g, n), Upto(h, n)
                 PROVE  g[n] = h[n]
      OBVIOUS
    <3>1. \A m \in 0..(n - 1) : Upto(g, m) /\ Upto(h, m)
      OBVIOUS
    <3>2. \A m \in 0..(n - 1) : g[m] = h[m]
      <4> HIDE DEF Upto
      <4> QED BY <2>1, <3>1
    <3>3. Body(g, n) = Body(h, n)
      BY <1>1, <3>2
    <3> QED BY <3>3
  <2> HIDE DEF Same
  <2> QED BY <2>1, NatSetStrongInduction
<1> DEFINE G(n) == CHOOSE g : Upto(g, n)
           f == [n \in Nat |-> G(n)[n]]
<1>4. \A n \in Nat : Upto(G(n), n)
  BY <1>2
<1>5. ASSUME NEW n \in Nat PROVE f[n] = Body(f, n)
  <2>1. \A i \in 0..(n - 1) : Upto(G(n), i) /\ Upto(G(i), i)
    BY <1>4
  <2>2. \A i \in 0..(n - 1) : G(n)[i] = G(i)[i]
    <3> HIDE DEF Upto, G
    <3> QED BY <1>3, <2>1
  <2>3. Body(f, n) = Body(G(n), n)
    <3> HIDE DEF G
    <3> QED BY <1>1, <2>2
  <2> QED BY <1>4, <2>3
<1>6. f = [n \in Nat |-> Body(f, n)]
  BY <1>5
<1> HIDE DEF f
<1> DEFINE path == CHOOSE w : w = [n \in Nat |-> Body(w, n)]
<1>7. path = [n \in Nat |-> Body(path, n)]
  BY <1>6
<1>8. AuditPaths(hashes, index) = path
  BY DEF AuditPaths, Body
<1> HIDE DEF path
<1>9. \A n \in Nat : path[n] = Body(path, n)
  BY <1>7
<1> QED BY <1>8, <1>9 DEF Body, Longer

\* The path of the only leaf of a tree.
LEMMA AuditPathOfLeaf ==
  ASSUME NEW hashes, NEW index \in Nat, NEW lo \in Nat
  PROVE  AuditPaths(hashes, index)[1][lo] = <<>>
BY AuditPathsDef

\* The path in a tree of several leaves.
LEMMA AuditPathStep ==
  ASSUME NEW hashes, NEW index \in Nat, NEW n \in Nat, NEW lo \in Nat, n > 1
  PROVE  AuditPaths(hashes, index)[n][lo] =
           IF index < lo + Split(n)
           THEN Longer(AuditPaths(hashes, index)[Split(n)][lo],
                       SubtreeRoots(hashes)[n - Split(n)][lo + Split(n)])
           ELSE Longer(AuditPaths(hashes, index)[n - Split(n)][lo + Split(n)],
                       SubtreeRoots(hashes)[Split(n)][lo])
<1> DEFINE left == Longer(AuditPaths(hashes, index)[Split(n)][lo],
                          SubtreeRoots(hashes)[n - Split(n)][lo + Split(n)])
           right == Longer(AuditPaths(hashes, index)[n - Split(n)][lo + Split(n)],
                           SubtreeRoots(hashes)[Split(n)][lo])
<1>1. AuditPaths(hashes, index)[n][lo] =
        IF n <= 1 THEN <<>> ELSE IF index < lo + Split(n) THEN left ELSE right
  BY AuditPathsDef
<1>2. ~(n <= 1)
  OBVIOUS
<1> HIDE DEF left, right
<1>3. AuditPaths(hashes, index)[n][lo] = IF index < lo + Split(n) THEN left ELSE right
  BY <1>1, <1>2, Zenon
<1> QED BY <1>3 DEF left, right

\* The path of a leaf in the left part.
LEMMA AuditPathLeft ==
  ASSUME NEW hashes, NEW index \in Nat, NEW n \in Nat, NEW lo \in Nat, n > 1,
         NEW k \in Nat, k = Split(n), index < lo + k
  PROVE  AuditPaths(hashes, index)[n][lo] =
           Longer(AuditPaths(hashes, index)[k][lo], SubtreeRoots(hashes)[n - k][lo + k])
BY AuditPathStep

\* The path of a leaf in the right part.
LEMMA AuditPathRight ==
  ASSUME NEW hashes, NEW index \in Nat, NEW n \in Nat, NEW lo \in Nat, n > 1,
         NEW k \in Nat, k = Split(n), ~(index < lo + k)
  PROVE  AuditPaths(hashes, index)[n][lo] =
           Longer(AuditPaths(hashes, index)[n - k][lo + k], SubtreeRoots(hashes)[k][lo])
BY AuditPathStep

-----------------------------------------------------------------------------
\* What a walk that ends in the root of a tree shows.

\* The state of a walk.
IsWalk(w) == w = [ok |-> w.ok, fn |-> w.fn, sn |-> w.sn, r |-> w.r]

\* One turn of the loop: it fails for good, or it puts the digest beside r.
LEMMA AbsorbFacts ==
  ASSUME NEW walk, NEW digest, IsWalk(walk)
  PROVE  /\ IsWalk(Absorb(walk, digest))
         /\ Absorb(walk, digest).ok =>
              /\ walk.ok
              /\ Absorb(walk, digest).r \in {Node(digest, walk.r), Node(walk.r, digest)}
<1> DEFINE a == Absorb(walk, digest)
<1>1. CASE ~walk.ok \/ walk.sn = 0
  <2>1. a = [ok |-> FALSE, fn |-> walk.fn, sn |-> walk.sn, r |-> walk.r]
    BY <1>1 DEF Absorb, IsWalk
  <2> HIDE DEF a
  <2> QED BY <2>1 DEF IsWalk, a
<1>2. CASE ~(~walk.ok \/ walk.sn = 0) /\ (walk.fn % 2 = 1 \/ walk.fn = walk.sn)
  <2> DEFINE up == 2 * LowestBit[walk.fn]
  <2>1. a = [ok |-> TRUE, fn |-> walk.fn \div up, sn |-> walk.sn \div up,
             r |-> Node(digest, walk.r)]
    BY <1>2 DEF Absorb
  <2> HIDE DEF a, up
  <2>2. IsWalk(a) /\ a.r = Node(digest, walk.r)
    BY <2>1 DEF IsWalk
  <2> QED BY <1>2, <2>2 DEF a
<1>3. CASE ~(~walk.ok \/ walk.sn = 0) /\ ~(walk.fn % 2 = 1 \/ walk.fn = walk.sn)
  <2>1. a = [ok |-> TRUE, fn |-> walk.fn \div 2, sn |-> walk.sn \div 2,
             r |-> Node(walk.r, digest)]
    BY <1>3 DEF Absorb
  <2> HIDE DEF a
  <2>2. IsWalk(a) /\ a.r = Node(walk.r, digest)
    BY <2>1 DEF IsWalk
  <2> QED BY <1>3, <2>2 DEF a
<1> QED BY <1>1, <1>2, <1>3

\* A leaf and a node are never the same digest, and equal digests have equal
\* inputs.
LEMMA DigestsAreFree ==
  /\ \A h, a, b : Leaf(h) # Node(a, b)
  /\ \A h, g : Leaf(h) = Leaf(g) => h = g
  /\ \A a, b, c, d : Node(a, b) = Node(c, d) => a = c /\ b = d
BY DEF Leaf, Node

\* verify_inclusion and receipt_root: whatever index, size and path a proof
\* carries, if the walk from a hash ends in the root of a tree then the hash
\* is that of a leaf of the tree.
LEMMA WalkIsSound ==
  ASSUME NEW hashes, NEW n \in Nat, n > 0,
         NEW hash, NEW index, NEW size, NEW path, Len(path) \in Nat,
         WalkUp(hash, index, size, path).ok,
         WalkUp(hash, index, size, path).r = SubtreeRoots(hashes)[n][0]
  PROVE  \E i \in 1..n : hash = hashes[i]
<1> DEFINE L == Len(path)
           Root(m, lo) == SubtreeRoots(hashes)[m][lo]
           In(x) == \E m, lo \in Nat : m > 0 /\ lo + m <= n /\ x = Root(m, lo)
<1>0. PICK walk : /\ IsWalkUp(walk, hash, index, size, path)
                  /\ WalkUp(hash, index, size, path) = walk[L]
  BY WalkDef
<1>1. /\ WalkUp(hash, index, size, path) = walk[L]
      /\ walk[0] = [ok |-> 0 <= index /\ index < size, fn |-> index,
                    sn |-> size - 1, r |-> Leaf(hash)]
      /\ \A k \in Nat : walk[k + 1] = Absorb(walk[k], path[k + 1])
  BY <1>0 DEF IsWalkUp
<1>2. ASSUME NEW a, NEW b, In(Node(a, b)) PROVE In(a) /\ In(b)
  <2>1. PICK m \in Nat, lo \in Nat : m > 0 /\ lo + m <= n /\ Node(a, b) = Root(m, lo)
    BY <1>2
  <2>2. m > 1
    <3>1. m <= 1 => Root(m, lo) = Leaf(hashes[lo + 1])
      BY SubtreeRootsCases
    <3>2. ~(m <= 1)
      BY <2>1, <3>1, DigestsAreFree
    <3> QED BY <3>2
  <2>3. Split(m) \in 1..(m - 1) /\ m - Split(m) \in 1..(m - 1)
    BY <2>2, SplitFacts
  <2>4. a = Root(Split(m), lo) /\ b = Root(m - Split(m), lo + Split(m))
    <3>1. Node(a, b) = Node(Root(Split(m), lo), Root(m - Split(m), lo + Split(m)))
      BY <2>1, <2>2, SubtreeRootsCases
    <3> QED BY <3>1, DigestsAreFree
  <2> HIDE DEF Root
  <2>5. In(a)
    BY <2>1, <2>3, <2>4
  <2>6. In(b)
    <3>1. m - Split(m) \in Nat /\ lo + Split(m) \in Nat
          /\ m - Split(m) > 0 /\ (lo + Split(m)) + (m - Split(m)) <= n
      BY <2>1, <2>3
    <3> QED BY <2>4, <3>1
  <2> QED BY <2>5, <2>6
<1> DEFINE Rec == {k \in Nat : IsWalk(walk[k])}
<1>3. \A k \in Nat : k \in Rec
  <2>1. 0 \in Rec
    BY <1>1 DEF IsWalk
  <2>2. ASSUME NEW k \in Nat, k \in Rec PROVE k + 1 \in Rec
    <3>1. walk[k + 1] = Absorb(walk[k], path[k + 1])
      BY <1>1
    <3> QED BY <2>2, <3>1, AbsorbFacts
  <2> HIDE DEF Rec
  <2> QED BY <2>1, <2>2, NatSetInduction
<1> DEFINE Down == {k \in Nat : k <= L => walk[L - k].ok /\ In(walk[L - k].r)}
<1>4. \A k \in Nat : k \in Down
  <2>1. 0 \in Down
    <3>1. n + 0 <= n /\ 0 + n <= n
      OBVIOUS
    <3>2. In(Root(n, 0))
      <4> HIDE DEF Root
      <4> QED BY <3>1
    <3>3. L - 0 = L
      OBVIOUS
    <3> HIDE DEF In
    <3> QED BY <1>1, <3>2, <3>3
  <2>2. ASSUME NEW k \in Nat, k \in Down PROVE k + 1 \in Down
    <3> SUFFICES ASSUME k + 1 <= L
                 PROVE  walk[L - (k + 1)].ok /\ In(walk[L - (k + 1)].r)
      OBVIOUS
    <3>1. PICK j \in Nat : j = L - (k + 1)
      OBVIOUS
    <3>2. j + 1 = L - k /\ k <= L
      BY <3>1
    <3>3. walk[j + 1].ok /\ In(walk[j + 1].r)
      <4> HIDE DEF In
      <4> QED BY <2>2, <3>2
    <3>4. walk[j + 1] = Absorb(walk[j], path[j + 1])
      BY <1>1
    <3>5. IsWalk(walk[j])
      BY <1>3
    <3>6. /\ walk[j].ok
          /\ walk[j + 1].r \in {Node(path[j + 1], walk[j].r), Node(walk[j].r, path[j + 1])}
      BY <3>3, <3>4, <3>5, AbsorbFacts
    <3>7. In(walk[j].r)
      <4> HIDE DEF In
      <4> QED BY <1>2, <3>3, <3>6
    <3> HIDE DEF In
    <3> QED BY <3>1, <3>6, <3>7
  <2> HIDE DEF Down
  <2> QED BY <2>1, <2>2, NatSetInduction
<1>5. In(Leaf(hash))
  <2>1. L \in Down /\ L - L = 0 /\ L <= L
    BY <1>4
  <2>2. In(walk[0].r)
    <3> HIDE DEF In
    <3> QED BY <2>1
  <2>3. walk[0].r = Leaf(hash)
    BY <1>1
  <2> HIDE DEF In
  <2> QED BY <2>2, <2>3
<1>6. PICK m \in Nat, lo \in Nat : m > 0 /\ lo + m <= n /\ Leaf(hash) = Root(m, lo)
  BY <1>5
<1>7. m <= 1 /\ hash = hashes[lo + 1]
  <2>1. m <= 1
    <3>1. m > 1 => Leaf(hash) = Node(Root(Split(m), lo), Root(m - Split(m), lo + Split(m)))
      BY <1>6, SubtreeRootsCases
    <3>2. ~(m > 1)
      BY <3>1, DigestsAreFree
    <3> QED BY <3>2
  <2>2. Leaf(hash) = Leaf(hashes[lo + 1])
    BY <1>6, <2>1, SubtreeRootsCases
  <2> QED BY <2>1, <2>2, DigestsAreFree
<1>8. lo + 1 \in 1..n
  BY <1>6
<1> QED BY <1>7, <1>8

-----------------------------------------------------------------------------
\* The walk up the path of inclusion_proof ends in the root.

\* Quotients.
LEMMA DivFacts ==
  ASSUME NEW a \in Nat, NEW q \in Nat, NEW p \in Nat, p > 0
  PROVE  /\ a \div p \in Nat
         /\ q * p <= a => q <= a \div p
         /\ q * p <= a /\ a < q * p + p => a \div p = q
<1>1. a \div p \in Nat
  OBVIOUS
<1>2. q * p <= a /\ a < q * p + p => a \div p = q
  OBVIOUS
<1>3. ASSUME q * p <= a PROVE q <= a \div p
  <2>1. PICK d \in Nat : d = a \div p
    BY <1>1
  <2>2. a < d * p + p
    BY <2>1
  <2>3. ASSUME d < q PROVE FALSE
    <3>1. PICK e \in Nat : q = d + 1 + e
      <4>1. q - d - 1 \in Nat
        BY <2>3
      <4> QED BY <4>1
    <3>2. (d + 1 + e) * p = d * p + p + e * p
      OBVIOUS
    <3>3. e * p \in Nat /\ d * p \in Nat
      OBVIOUS
    <3> QED BY <1>3, <2>2, <3>1, <3>2, <3>3
  <2> QED BY <2>1, <2>3
<1> QED BY <1>1, <1>2, <1>3

\* Dividing twice.
LEMMA DivDiv ==
  ASSUME NEW a \in Nat, NEW b \in Nat, NEW c \in Nat, b > 0, c > 0
  PROVE  (a \div b) \div c = a \div (b * c)
OBVIOUS

\* The inner loop strips the factors of two of fn.
LEMMA LowestBitFacts ==
  ASSUME NEW q \in Nat
  PROVE  \A z \in Nat : LowestBit[TwoTo[z] * (2 * q + 1)] = TwoTo[z]
<1> DEFINE S == {z \in Nat : LowestBit[TwoTo[z] * (2 * q + 1)] = TwoTo[z]}
<1>1. 0 \in S
  <2>1. TwoTo[0] * (2 * q + 1) = 2 * q + 1 /\ (2 * q + 1) % 2 = 1 /\ 2 * q + 1 \in Nat
    BY TwoToFacts
  <2> QED BY <2>1, TwoToFacts, LowestBitDef
<1>2. ASSUME NEW z \in Nat, z \in S PROVE z + 1 \in S
  <2>1. PICK x \in Nat : x = TwoTo[z] * (2 * q + 1) /\ x > 0
    <3>1. \A a, b \in Nat : a > 0 /\ b > 0 => a * b \in Nat /\ a * b > 0
      OBVIOUS
    <3>2. TwoTo[z] \in Nat /\ TwoTo[z] > 0 /\ 2 * q + 1 \in Nat /\ 2 * q + 1 > 0
      BY TwoToFacts
    <3> HIDE DEF TwoTo
    <3> QED BY <3>1, <3>2
  <2>2. TwoTo[z + 1] * (2 * q + 1) = 2 * x
    <3>1. TwoTo[z + 1] = 2 * TwoTo[z] /\ TwoTo[z] \in Nat
      BY TwoToFacts
    <3>2. \A a, b \in Nat : (2 * a) * b = 2 * (a * b)
      OBVIOUS
    <3> QED BY <2>1, <3>1, <3>2
  <2>3. 2 * x \in Nat /\ 2 * x # 0 /\ (2 * x) % 2 = 0 /\ (2 * x) \div 2 = x
    BY <2>1
  <2>4. LowestBit[2 * x] = 2 * LowestBit[x]
    BY <2>3, LowestBitDef
  <2>5. LowestBit[x] = TwoTo[z]
    BY <1>2, <2>1
  <2>6. TwoTo[z + 1] = 2 * TwoTo[z]
    BY TwoToFacts
  <2> QED BY <2>2, <2>4, <2>5, <2>6
<1> HIDE DEF S
<1>3. \A z \in Nat : z \in S
  BY <1>1, <1>2, NatSetInduction
<1> QED BY <1>3 DEF S

\* A longer path takes one more turn.
LEMMA WalkAppend ==
  ASSUME NEW hash, NEW index, NEW size, NEW D, NEW path \in Seq(D), NEW d \in D
  PROVE  WalkUp(hash, index, size, Longer(path, d)) =
           Absorb(WalkUp(hash, index, size, path), d)
<1> DEFINE L == Len(path)
<1>0. PICK longer : longer = Longer(path, d)
  OBVIOUS
<1>1. /\ L \in Nat /\ Len(longer) = L + 1 /\ longer[L + 1] = d
      /\ \A k \in 1..L : longer[k] = path[k]
  BY <1>0 DEF Longer
<1> HIDE DEF L
<1>2. PICK v : /\ IsWalkUp(v, hash, index, size, longer)
               /\ WalkUp(hash, index, size, longer) = v[Len(longer)]
  BY WalkDef
<1>3. PICK w : /\ IsWalkUp(w, hash, index, size, path)
               /\ WalkUp(hash, index, size, path) = w[L]
  BY WalkDef DEF L
<1> DEFINE S == {k \in Nat : k <= L => v[k] = w[k]}
<1>4. 0 \in S
  BY <1>2, <1>3 DEF IsWalkUp
<1>5. ASSUME NEW k \in Nat, k \in S PROVE k + 1 \in S
  <2> SUFFICES ASSUME k + 1 <= L PROVE v[k + 1] = w[k + 1]
    OBVIOUS
  <2>1. v[k] = w[k] /\ longer[k + 1] = path[k + 1]
    BY <1>1, <1>5
  <2>2. v[k + 1] = Absorb(v[k], longer[k + 1]) /\ w[k + 1] = Absorb(w[k], path[k + 1])
    BY <1>2, <1>3 DEF IsWalkUp
  <2> QED BY <2>1, <2>2
<1> HIDE DEF S
<1>6. L \in S
  BY <1>1, <1>4, <1>5, NatSetInduction
<1>7. v[L] = w[L]
  BY <1>1, <1>6 DEF S
<1>8. v[L + 1] = Absorb(v[L], longer[L + 1])
  BY <1>1, <1>2 DEF IsWalkUp
<1>9. WalkUp(hash, index, size, longer) = Absorb(WalkUp(hash, index, size, path), d)
  BY <1>1, <1>2, <1>3, <1>7, <1>8
<1> QED BY <1>0, <1>9

\* The digests of a tree.
Digests(hashes) == {SubtreeRoots(hashes)[n][lo] : n \in Nat, lo \in Nat}

\* An audit path is a sequence of them.
LEMMA AuditPathsType ==
  ASSUME NEW hashes, NEW index \in Nat
  PROVE  \A n, lo \in Nat : AuditPaths(hashes, index)[n][lo] \in Seq(Digests(hashes))
<1> DEFINE P(n, lo) == AuditPaths(hashes, index)[n][lo]
           D == Digests(hashes)
           S == {n \in Nat : \A lo \in Nat : P(n, lo) \in Seq(D)}
<1>1. ASSUME NEW n \in Nat, \A m \in 0..(n - 1) : m \in S PROVE n \in S
  <2> SUFFICES ASSUME NEW lo \in Nat PROVE P(n, lo) \in Seq(D)
    OBVIOUS
  <2>1. CASE n <= 1
    <3>1. P(n, lo) = <<>>
      BY <2>1, AuditPathsDef
    <3> QED BY <3>1
  <2>2. CASE n > 1
    <3> DEFINE k == Split(n)
    <3>1. k \in 1..(n - 1) /\ n - k \in 1..(n - 1)
      BY <2>2, SplitFacts
    <3>2. k \in 0..(n - 1) /\ n - k \in 0..(n - 1) /\ lo + k \in Nat
      BY <3>1
    <3>3. P(k, lo) \in Seq(D) /\ P(n - k, lo + k) \in Seq(D)
      BY <1>1, <3>2
    <3>4. SubtreeRoots(hashes)[k][lo] \in D /\ SubtreeRoots(hashes)[n - k][lo + k] \in D
      BY <3>2 DEF Digests
    <3>5. \/ P(n, lo) = Longer(P(k, lo), SubtreeRoots(hashes)[n - k][lo + k])
          \/ P(n, lo) = Longer(P(n - k, lo + k), SubtreeRoots(hashes)[k][lo])
      <4>1. CASE index < lo + k
        BY <2>2, <3>2, <4>1, AuditPathLeft
      <4>2. CASE ~(index < lo + k)
        BY <2>2, <3>2, <4>2, AuditPathRight
      <4> QED BY <4>1, <4>2
    <3>6. \A s \in Seq(D), d \in D : Longer(s, d) \in Seq(D)
      BY DEF Longer
    <3> HIDE DEF P, D, k
    <3> QED BY <3>3, <3>4, <3>5, <3>6
  <2> QED BY <2>1, <2>2
<1> HIDE DEF S
<1>2. \A n \in Nat : n \in S
  BY <1>1, NatSetStrongInduction
<1> QED BY <1>2 DEF S

\* The least power of two that is no less than m.
Level(m, t) == IF m = 1 THEN t = 0 ELSE t > 0 /\ Split(m) = TwoTo[t - 1]

\* It exists, and it is m itself when m is a power of two.
LEMMA LevelFacts ==
  ASSUME NEW u \in Nat, NEW m \in 1..TwoTo[u]
  PROVE  \E v \in 0..u : /\ Level(m, v) /\ m <= TwoTo[v]
                         /\ m = TwoTo[u] => v = u
<1>0. TwoTo[u] \in Nat /\ m \in Nat
  BY TwoToFacts
<1>1. CASE m = 1
  <2>1. m = TwoTo[u] => u = 0
    <3> SUFFICES ASSUME m = TwoTo[u], u > 0 PROVE FALSE
      BY <1>0
    <3>1. u - 1 \in Nat /\ (u - 1) + 1 = u
      OBVIOUS
    <3>2. PICK x \in Nat : TwoTo[u] = 2 * x
      BY <3>1, TwoToFacts
    <3>3. 2 * x # 1
      OBVIOUS
    <3> QED BY <1>1, <3>2, <3>3
  <2>2. Level(m, 0) /\ m <= TwoTo[0]
    BY <1>1, TwoToFacts DEF Level
  <2> QED BY <2>1, <2>2
<1>2. CASE m > 1
  <2>1. PICK i \in Nat : Split(m) = TwoTo[i]
    BY <1>0, <1>2, SplitFacts
  <2>2. TwoTo[i] < m /\ m <= 2 * TwoTo[i]
    BY <1>0, <1>2, <2>1, SplitFacts
  <2>3. TwoTo[i + 1] = 2 * TwoTo[i] /\ TwoTo[i] \in Nat
    BY TwoToFacts
  <2>4. i + 1 \in Nat /\ (i + 1) - 1 = i /\ i + 1 > 0
    OBVIOUS
  <2>5. Level(m, i + 1) /\ m <= TwoTo[i + 1]
    BY <1>2, <2>1, <2>2, <2>3, <2>4 DEF Level
  <2>6. i + 1 <= u
    <3>1. ~(TwoTo[u] <= TwoTo[i])
      BY <1>0, <2>2, <2>3
    <3>2. ~(u <= i)
      BY <3>1, TwoToGrows
    <3> QED BY <3>2
  <2>7. m = TwoTo[u] => i + 1 = u
    <3> SUFFICES ASSUME m = TwoTo[u] PROVE i + 1 = u
      OBVIOUS
    <3>1. TwoTo[u] <= TwoTo[i + 1]
      BY <2>2, <2>3
    <3>2. u <= i + 1
      BY <2>4, <3>1, TwoToGrows
    <3> QED BY <2>6, <3>2
  <2>8. i + 1 \in 0..u
    BY <2>6
  <2> QED BY <2>5, <2>7, <2>8
<1> QED BY <1>0, <1>1, <1>2

\* One turn of the loop when the sibling is on the right.
LEMMA AbsorbRight ==
  ASSUME NEW q \in Nat, NEW K \in Nat, K > 0, NEW last \in Nat, (2 * q + 1) * K <= last,
         NEW r, NEW digest
  PROVE  Absorb([ok |-> TRUE, fn |-> 2 * q, sn |-> last \div K, r |-> r], digest) =
           [ok |-> TRUE, fn |-> q, sn |-> last \div (2 * K), r |-> Node(r, digest)]
<1>1. 2 * q + 1 <= last \div K /\ last \div K \in Nat
  BY DivFacts
<1>2. (2 * q) % 2 # 1 /\ 2 * q # last \div K /\ last \div K # 0 /\ (2 * q) \div 2 = q
  BY <1>1
<1>3. (last \div K) \div 2 = last \div (K * 2) /\ K * 2 = 2 * K
  BY DivDiv
<1>4. PICK sn \in Nat : sn = last \div K
  BY <1>1
<1>5. Absorb([ok |-> TRUE, fn |-> 2 * q, sn |-> sn, r |-> r], digest) =
        [ok |-> TRUE, fn |-> (2 * q) \div 2, sn |-> sn \div 2, r |-> Node(r, digest)]
  BY <1>2, <1>4 DEF Absorb
<1> QED BY <1>2, <1>3, <1>4, <1>5

\* The numbers of a turn when it is on the left: the walk skips the levels at
\* which the node at the right edge has no sibling.
LeftTurn(fn, sn, q, s) ==
  /\ fn \in Nat /\ sn \in Nat /\ sn # 0
  /\ fn % 2 = 1 \/ fn = sn
  /\ fn \div (2 * LowestBit[fn]) = q
  /\ sn \div (2 * LowestBit[fn]) = s

\* They are those of the parent's level.
LEMMA LeftNumbers ==
  ASSUME NEW q \in Nat, NEW z \in Nat, NEW P \in Nat, P > 0, NEW last \in Nat,
         NEW fn, fn = TwoTo[z] * (2 * q + 1), fn * P <= last,
         z > 0 => last < fn * P + P
  PROVE  LeftTurn(fn, last \div P, q, last \div (P * (2 * TwoTo[z])))
<1>0. PICK Z \in Nat : Z = TwoTo[z] /\ Z > 0
  BY TwoToFacts
<1>1. fn \in Nat /\ fn > 0
  <2>1. \A a, b \in Nat : a > 0 /\ b > 0 => a * b \in Nat /\ a * b > 0
    OBVIOUS
  <2>2. 2 * q + 1 \in Nat /\ 2 * q + 1 > 0
    OBVIOUS
  <2> QED BY <1>0, <2>1, <2>2
<1>2. PICK sn \in Nat : sn = last \div P
  BY DivFacts
<1>3. fn <= sn /\ sn # 0
  BY <1>1, <1>2, DivFacts
<1>4. fn % 2 = 1 \/ fn = sn
  <2>1. CASE z = 0
    <3>1. fn = 2 * q + 1
      BY <2>1, TwoToFacts
    <3> QED BY <3>1
  <2>2. CASE z > 0
    BY <1>1, <1>2, <2>2, DivFacts
  <2> QED BY <2>1, <2>2
<1>5. LowestBit[fn] = Z
  BY <1>0, LowestBitFacts
<1>6. fn \div (2 * Z) = q
  <2>1. q * (2 * Z) <= fn /\ fn < q * (2 * Z) + 2 * Z
    <3>1. Z * (2 * q + 1) = q * (2 * Z) + Z
      OBVIOUS
    <3>2. q * (2 * Z) \in Nat
      OBVIOUS
    <3> QED BY <1>0, <3>1, <3>2
  <2>2. 2 * Z \in Nat /\ 2 * Z > 0
    BY <1>0
  <2> QED BY <1>1, <2>1, <2>2, DivFacts
<1>7. sn \div (2 * Z) = last \div (P * (2 * Z))
  <2>1. 2 * Z \in Nat /\ 2 * Z > 0
    BY <1>0
  <2> QED BY <1>2, <2>1, DivDiv
<1> QED BY <1>0, <1>1, <1>2, <1>3, <1>4, <1>5, <1>6, <1>7 DEF LeftTurn

\* One turn of the loop when the sibling is on the left.
LEMMA AbsorbLeft ==
  ASSUME NEW fn, NEW sn, NEW q, NEW s, LeftTurn(fn, sn, q, s), NEW r, NEW digest
  PROVE  Absorb([ok |-> TRUE, fn |-> fn, sn |-> sn, r |-> r], digest) =
           [ok |-> TRUE, fn |-> q, sn |-> s, r |-> Node(digest, r)]
BY DEF Absorb, LeftTurn

\* inclusion_proof with verify_inclusion or receipt_root: in a tree of any
\* size, the walk from any of its leaves up the path of inclusion_proof ends
\* at the top of the tree, with its root.
LEMMA WalkIsComplete ==
  ASSUME NEW hashes, NEW n \in Nat, NEW index \in 0..(n - 1)
  PROVE  LET top == WalkUp(hashes[index + 1], index, n, AuditPaths(hashes, index)[n][0])
         IN  top.ok /\ top.sn = 0 /\ top.r = SubtreeRoots(hashes)[n][0]
<1> DEFINE Root(m, lo) == SubtreeRoots(hashes)[m][lo]
           Path(m, lo) == AuditPaths(hashes, index)[m][lo]
           Walk(path) == WalkUp(hashes[index + 1], index, n, path)
           D == Digests(hashes)
           last == n - 1
           \* A subtree that the walk to the index goes through.
           On(m, lo, t, q) ==
             /\ m > 0 /\ Level(m, t) /\ lo = q * TwoTo[t]
             /\ lo + m <= n /\ (m = TwoTo[t] \/ lo + m = n)
             /\ lo <= index /\ index < lo + m
           Top(m, lo, t, q) == [ok |-> TRUE, fn |-> q, sn |-> last \div TwoTo[t], r |-> Root(m, lo)]
           S == {m \in Nat : \A lo, t, q \in Nat :
                   On(m, lo, t, q) => Walk(Path(m, lo)) = Top(m, lo, t, q)}
<1>0. index \in Nat /\ n > 0 /\ last \in Nat
  OBVIOUS
<1>1. ASSUME NEW m \in Nat, \A j \in 0..(m - 1) : j \in S PROVE m \in S
  <2> SUFFICES ASSUME NEW lo \in Nat, NEW t \in Nat, NEW q \in Nat, On(m, lo, t, q)
               PROVE  Walk(Path(m, lo)) = Top(m, lo, t, q)
    OBVIOUS
  <2>1. CASE m = 1
    <3>1. t = 0 /\ TwoTo[t] = 1 /\ lo = q /\ index = lo
      <4>1. t = 0
        BY <2>1 DEF Level
      <4>2. TwoTo[t] = 1
        BY <4>1, TwoToFacts
      <4>3. lo = q * 1 /\ index = lo
        BY <1>0, <2>1, <4>2
      <4> QED BY <4>1, <4>2, <4>3
    <3>2. Path(m, lo) = <<>> /\ Root(m, lo) = Leaf(hashes[lo + 1])
      <4> HIDE DEF On
      <4>1. m <= 1
        BY <2>1
      <4>2. Path(m, lo) = <<>>
        BY <1>0, <2>1, AuditPathOfLeaf
      <4>3. Root(m, lo) = Leaf(hashes[lo + 1])
        BY <4>1, SubtreeRootsCases
      <4> QED BY <4>2, <4>3
    <3>3. Walk(<<>>) = [ok |-> 0 <= index /\ index < n, fn |-> index, sn |-> n - 1,
                        r |-> Leaf(hashes[index + 1])]
      <4>1. PICK walk : /\ IsWalkUp(walk, hashes[index + 1], index, n, <<>>)
                        /\ Walk(<<>>) = walk[Len(<<>>)]
        BY WalkDef
      <4>2. Len(<<>>) = 0
        OBVIOUS
      <4> QED BY <4>1, <4>2 DEF IsWalkUp
    <3>4. last \div TwoTo[t] = n - 1 /\ 0 <= index /\ index < n
      BY <1>0, <3>1
    <3> QED BY <3>1, <3>2, <3>3, <3>4
  <2>2. CASE m > 1
    <3> DEFINE k == Split(m)
    <3>1. /\ k \in 1..(m - 1) /\ m - k \in 1..(m - 1) /\ m <= 2 * k
      BY <2>2, SplitFacts
    <3>2. PICK u \in Nat : t = u + 1 /\ k = TwoTo[u]
      <4>1. t > 0 /\ k = TwoTo[t - 1]
        BY <2>2 DEF Level
      <4>2. t - 1 \in Nat /\ t = (t - 1) + 1
        BY <4>1
      <4> QED BY <4>1, <4>2
    <3>3. TwoTo[t] = 2 * k
      BY <3>2, TwoToFacts
    <3>4. Root(m, lo) = Node(Root(k, lo), Root(m - k, lo + k))
      BY <2>2, SubtreeRootsCases
    <3>5. Root(k, lo) \in D /\ Root(m - k, lo + k) \in D
      BY <3>1 DEF Digests
    <3>6. Path(k, lo) \in Seq(D) /\ Path(m - k, lo + k) \in Seq(D)
      <4>1. k \in Nat /\ m - k \in Nat /\ lo + k \in Nat
        BY <3>1
      <4> QED BY <1>0, <4>1, AuditPathsType
    <3>7. k \in 0..(m - 1) /\ m - k \in 0..(m - 1) /\ lo + k \in Nat
      BY <3>1
    <3>8. CASE index < lo + k
      <4>1. Path(m, lo) = Longer(Path(k, lo), Root(m - k, lo + k))
        <5> HIDE DEF On
        <5> QED BY <1>0, <2>2, <3>8, <3>7, AuditPathLeft
      <4>2. On(k, lo, u, 2 * q)
        <5>1. Level(k, u)
          <6>1. PICK v \in 0..u : Level(k, v) /\ (k = TwoTo[u] => v = u)
            <7>1. k \in 1..TwoTo[u]
              BY <3>1, <3>2
            <7> QED BY <7>1, LevelFacts
          <6> QED BY <3>2, <6>1
        <5>2. lo = (2 * q) * TwoTo[u]
          <6>1. q * (2 * k) = (2 * q) * k
            BY <3>1
          <6> QED BY <3>2, <3>3, <6>1
        <5>3. lo + k <= n /\ k > 0
          BY <3>1
        <5> HIDE DEF k
        <5> QED BY <3>2, <3>8, <5>1, <5>2, <5>3
      <4>3. Walk(Path(k, lo)) = Top(k, lo, u, 2 * q)
        BY <1>1, <3>1, <4>2
      <4>4. (2 * q + 1) * k <= last
        <5>1. (2 * q + 1) * k = q * (2 * k) + k
          BY <3>1
        <5>2. lo = q * (2 * k)
          BY <3>3
        <5>3. lo + m <= n
          OBVIOUS
        <5> QED BY <1>0, <3>1, <5>1, <5>2, <5>3
      <4>5. Absorb(Top(k, lo, u, 2 * q), Root(m - k, lo + k)) = Top(m, lo, t, q)
        <5>1. PICK a, b : a = Root(k, lo) /\ b = Root(m - k, lo + k)
          OBVIOUS
        <5>2. Absorb([ok |-> TRUE, fn |-> 2 * q, sn |-> last \div k, r |-> a], b) =
                [ok |-> TRUE, fn |-> q, sn |-> last \div (2 * k), r |-> Node(a, b)]
          <6>1. k \in Nat /\ k > 0
            BY <3>1
          <6> HIDE DEF k, last
          <6> QED BY <1>0, <4>4, <6>1, AbsorbRight
        <5> HIDE DEF Root, k, last
        <5> QED BY <3>2, <3>3, <3>4, <5>1, <5>2
      <4>6. Walk(Path(m, lo)) = Absorb(Walk(Path(k, lo)), Root(m - k, lo + k))
        BY <3>5, <3>6, <4>1, WalkAppend
      <4> QED BY <4>3, <4>5, <4>6
    <3>9. CASE ~(index < lo + k)
      <4> DEFINE m2 == m - k
                 lo2 == lo + k
      <4>1. Path(m, lo) = Longer(Path(m2, lo2), Root(k, lo))
        <5> HIDE DEF On
        <5> QED BY <1>0, <2>2, <3>9, <3>7, AuditPathRight
      <4>2. PICK v \in 0..u : /\ Level(m2, v) /\ m2 <= TwoTo[v]
                              /\ m2 = TwoTo[u] => v = u
        <5>1. m2 \in 1..TwoTo[u]
          BY <3>1, <3>2
        <5> QED BY <5>1, LevelFacts
      <4>3. PICK z \in Nat : u = v + z
        <5>1. u - v \in Nat /\ u = v + (u - v)
          BY <4>2
        <5> QED BY <5>1
      <4>4. PICK P \in Nat, Z \in Nat : P = TwoTo[v] /\ Z = TwoTo[z] /\ P > 0 /\ Z > 0
        BY <4>2, TwoToFacts
      <4>5. k = P * Z
        BY <3>2, <4>2, <4>3, <4>4, TwoToDivides
      <4>6. PICK q2 \in Nat : q2 = Z * (2 * q + 1)
        <5>1. \A a, b \in Nat : a * b \in Nat
          OBVIOUS
        <5>2. 2 * q + 1 \in Nat
          OBVIOUS
        <5> QED BY <5>1, <5>2
      <4>7. lo2 = q2 * P
        <5>1. lo = q * (2 * k)
          BY <3>3
        <5>2. q * (2 * (P * Z)) + P * Z = (Z * (2 * q + 1)) * P
          OBVIOUS
        <5> QED BY <4>5, <4>6, <5>1, <5>2
      <4>8. m2 \in Nat /\ lo2 \in Nat /\ m2 > 0 /\ lo2 + m2 = lo + m
        BY <3>1
      <4>9. m2 = P \/ lo2 + m2 = n
        <5>1. CASE m = TwoTo[t]
          <6>1. m2 = k
            BY <3>1, <3>3, <5>1
          <6> QED BY <3>2, <4>2, <4>4, <6>1
        <5>2. CASE lo + m = n
          BY <4>8, <5>2
        <5> QED BY <5>1, <5>2
      <4>10. On(m2, lo2, v, q2)
        <5>1. lo2 + m2 <= n /\ lo2 <= index /\ index < lo2 + m2
          BY <1>0, <3>1, <3>9, <4>8
        <5> HIDE DEF m2, lo2
        <5> QED BY <4>2, <4>4, <4>7, <4>8, <4>9, <5>1
      <4>11. Walk(Path(m2, lo2)) = Top(m2, lo2, v, q2)
        <5>1. m2 \in 0..(m - 1)
          BY <3>1
        <5> QED BY <1>1, <4>2, <4>8, <4>10, <5>1
      <4>12. q2 * P <= last /\ (z > 0 => last < q2 * P + P)
        <5>1. q2 * P <= last
          BY <1>0, <4>7, <4>8
        <5>2. ASSUME z > 0 PROVE last < q2 * P + P
          <6>1. v # u
            BY <4>2, <4>3, <5>2
          <6>2. m2 # TwoTo[u]
            BY <4>2, <6>1
          <6>3. m # TwoTo[t]
            BY <3>1, <3>2, <3>3, <6>2
          <6>4. lo + m = n
            BY <6>3
          <6> QED BY <1>0, <4>2, <4>4, <4>7, <4>8, <6>4
        <5> QED BY <5>1, <5>2
      <4>13. P * (2 * Z) = TwoTo[t]
        <5>1. P * (2 * Z) = 2 * (P * Z)
          OBVIOUS
        <5> QED BY <3>3, <4>4, <4>5, <5>1
      <4>14. Absorb(Top(m2, lo2, v, q2), Root(k, lo)) = Top(m, lo, t, q)
        <5>1. PICK a, b : a = Root(k, lo) /\ b = Root(m2, lo2)
          OBVIOUS
        <5>2. Absorb([ok |-> TRUE, fn |-> q2, sn |-> last \div P, r |-> b], a) =
                [ok |-> TRUE, fn |-> q, sn |-> last \div (P * (2 * Z)), r |-> Node(a, b)]
          <6>1. q2 = TwoTo[z] * (2 * q + 1) /\ last \in Nat
            BY <1>0, <4>4, <4>6
          <6> HIDE DEF last, On
          <6>2. LeftTurn(q2, last \div P, q, last \div (P * (2 * TwoTo[z])))
            BY <4>4, <4>12, <6>1, LeftNumbers
          <6>3. LeftTurn(q2, last \div P, q, last \div (P * (2 * Z)))
            BY <4>4, <6>2
          <6> QED BY <6>3, AbsorbLeft
        <5> HIDE DEF Root, k, last
        <5> QED BY <3>4, <4>4, <4>13, <5>1, <5>2
      <4>15. Walk(Path(m, lo)) = Absorb(Walk(Path(m2, lo2)), Root(k, lo))
        BY <3>5, <3>6, <4>1, WalkAppend
      <4> QED BY <4>11, <4>14, <4>15
    <3> QED BY <3>8, <3>9
  <2> QED BY <2>1, <2>2
<1> HIDE DEF S
<1>2. n \in S
  BY <1>1, NatSetStrongInduction
<1>3. PICK t \in Nat : Level(n, t) /\ n <= TwoTo[t]
  <2> DEFINE B == {x \in Nat : x < TwoTo[x]}
  <2>1. 0 \in B
    BY TwoToFacts
  <2>2. \A x \in Nat : x \in B => x + 1 \in B
    BY TwoToFacts
  <2> HIDE DEF B
  <2>3. n \in B
    BY <2>1, <2>2, NatSetInduction
  <2>4. n \in 1..TwoTo[n]
    BY <1>0, <2>3, TwoToFacts DEF B
  <2> QED BY <2>4, LevelFacts
<1>4. On(n, 0, t, 0)
  BY <1>0, <1>3, TwoToFacts
<1>5. Walk(Path(n, 0)) = Top(n, 0, t, 0)
  <2> HIDE DEF On, Walk, Top, Path
  <2> QED BY <1>2, <1>4 DEF S
<1>6. last \div TwoTo[t] = 0
  <2>1. PICK P \in Nat : P = TwoTo[t] /\ P > 0
    BY TwoToFacts
  <2>2. 0 * P <= last /\ last < 0 * P + P
    BY <1>0, <1>3, <2>1
  <2> QED BY <1>0, <2>1, <2>2, DivFacts
<1>7. /\ Walk(Path(n, 0)).ok = TRUE /\ Walk(Path(n, 0)).sn = 0
      /\ Walk(Path(n, 0)).r = Root(n, 0)
  <2> HIDE DEF Walk, Path, Root, last
  <2> QED BY <1>5, <1>6
<1> QED BY <1>7, Zenon

-----------------------------------------------------------------------------
\* Lists of hashes, and the receipts cut from them.

\* A function on 1..n is a list of n.
LEMMA ListFacts ==
  ASSUME NEW S, NEW n \in Nat, NEW hashes \in [1..n -> S]
  PROVE  /\ hashes \in Seq(S) /\ Len(hashes) = n
         /\ n > 0 => hashes # <<>> /\ MerkleRoot(hashes) = SubtreeRoots(hashes)[n][0]
<1>1. hashes \in Seq(S) /\ Len(hashes) = n
  OBVIOUS
<1>2. n > 0 => hashes # <<>>
  BY <1>1
<1> QED BY <1>1, <1>2 DEF MerkleRoot

\* The hashes of the written entries.
LEMMA WrittenHashesFacts ==
  ASSUME NEW n \in Nat
  PROVE  /\ Len(WrittenHashes(n)) = n
         /\ \A i \in 1..n : WrittenHashes(n)[i] = Written(i).hash
         /\ n > 0 => MerkleRoot(WrittenHashes(n)) = SubtreeRoots(WrittenHashes(n))[n][0]
<1> DEFINE S == {Written(i).hash : i \in 1..n}
<1>1. WrittenHashes(n) \in [1..n -> S]
  BY DEF WrittenHashes
<1>2. \A i \in 1..n : WrittenHashes(n)[i] = Written(i).hash
  BY DEF WrittenHashes
<1> HIDE DEF S
<1> QED BY <1>1, <1>2, ListFacts

\* The receipt that make_receipt cuts for a written entry, from a tree that
\* holds it, satisfies verify_transparent_statement, and gives its root.
LEMMA ReceiptOfTreeHolds ==
  ASSUME NEW n \in Nat, NEW seq \in 1..n, NEW key, NEW receipt,
         receipt = MakeReceipt(WrittenHashes(n), seq, key)
  PROVE  /\ ReceiptHolds(receipt, Written(seq), key)
         /\ receipt.unprotected[1].size = n
         /\ WalkUp(Written(seq).hash, receipt.unprotected[1].index,
                   receipt.unprotected[1].size, receipt.unprotected[1].path).r
              = MerkleRoot(WrittenHashes(n))
<1> DEFINE hashes == WrittenHashes(n)
           index == seq - 1
           path == AuditPaths(hashes, index)[n][0]
           top == WalkUp(Written(seq).hash, index, n, path)
           root == MerkleRoot(hashes)
<1>1. index \in 0..(n - 1) /\ index + 1 = seq /\ n > 0
  OBVIOUS
<1>2. Len(hashes) = n /\ hashes[seq] = Written(seq).hash /\ root = SubtreeRoots(hashes)[n][0]
  BY <1>1, WrittenHashesFacts
<1>3. top.ok /\ top.sn = 0 /\ top.r = root
  <2> HIDE DEF hashes, index
  <2>1. LET t == WalkUp(hashes[index + 1], index, n, AuditPaths(hashes, index)[n][0])
        IN  t.ok /\ t.sn = 0 /\ t.r = SubtreeRoots(hashes)[n][0]
    BY <1>1, WalkIsComplete
  <2>2. hashes[index + 1] = Written(seq).hash
    BY <1>1, <1>2
  <2> QED BY <1>2, <2>1, <2>2, Zenon
<1>4. receipt = [protected |-> [alg |-> "EdDSA", kid |-> key, vds |-> "RFC9162_SHA256"],
                 unprotected |-> <<[size |-> n, index |-> index, path |-> path]>>,
                 payload |-> None,
                 signature |-> <<key, [alg |-> "EdDSA", kid |-> key, vds |-> "RFC9162_SHA256"],
                                 root>>]
  <2> HIDE DEF hashes
  <2> QED BY <1>2 DEF MakeReceipt, Sign1, InclusionProof, hashes
<1> HIDE DEF hashes, path, top, root
<1>5. /\ receipt.unprotected[1].size = n /\ receipt.unprotected[1].index = index
      /\ receipt.unprotected[1].path = path
      /\ receipt.protected.vds = "RFC9162_SHA256" /\ receipt.protected.alg = "EdDSA"
      /\ receipt.signature = <<key, receipt.protected, root>>
  BY <1>4
<1>6. WalkUp(Written(seq).hash, receipt.unprotected[1].index, receipt.unprotected[1].size,
             receipt.unprotected[1].path) = top
  BY <1>5 DEF top
<1>7. receipt.unprotected[1].index = Written(seq).seq - 1
  BY <1>5 DEF Written, Entry
<1>8. ReceiptHolds(receipt, Written(seq), key)
  BY <1>3, <1>5, <1>6, <1>7 DEF ReceiptHolds, CoseVerify
<1> QED BY <1>3, <1>5, <1>6, <1>8 DEF root, hashes

-----------------------------------------------------------------------------
\* The inductive invariant.

\* The rows of a list.
LEMMA RowFacts ==
  ASSUME NEW i \in 1..MaxLen, NEW e \in RowsAt(i)
  PROVE  e \in Rows /\ e.seq = i
<1>1. e \in Rows
  BY DEF Rows
<1>2. e.seq = i
  BY DEF RowsAt, Written, Entry
<1> QED BY <1>1, <1>2

\* While nobody rewrites rows the tree of a size is that of the written rows;
\* whoever does, it is a list of hashes of rows.
LEMMA PrefixHashes ==
  ASSUME LedgerOK, NEW n \in 1..Len(ledger)
  PROVE  /\ SubSeq(EntryHashes, 1, n) \in HashLists
         /\ NobodyRewrote => SubSeq(EntryHashes, 1, n) = WrittenHashes(n)
<1> DEFINE H == {e.hash : e \in Rows}
           p == SubSeq(EntryHashes, 1, n)
<1>1. Len(ledger) \in Nat /\ Len(ledger) <= MaxLen /\ DOMAIN ledger = 1..Len(ledger)
  BY DEF LedgerOK
<1>2. MaxLen \in Nat /\ n \in 1..MaxLen
  BY <1>1, ReceiptsAssumption
<1>3. \A i \in 1..n : EntryHashes[i] = ledger[i].hash /\ EntryHashes[i] \in H
  <2>1. \A i \in 1..Len(ledger) : ledger[i] \in Rows
    BY DEF LedgerOK
  <2> QED BY <1>1, <2>1 DEF EntryHashes
<1>4. /\ p \in Seq(H) /\ Len(p) = n
      /\ \A i \in 1..n : p[i] = EntryHashes[i]
  BY <1>2, <1>3, SubSeqProperties
<1>5. p \in [1..n -> H]
  <2> HIDE DEF p, H
  <2>1. DOMAIN p = 1..n /\ p \in [1..n -> H]
    BY <1>2, <1>4
  <2> QED BY <2>1
<1>6. p \in HashLists
  BY <1>2, <1>5 DEF HashLists
<1>7. ASSUME NobodyRewrote PROVE p = WrittenHashes(n)
  <2>1. \A i \in 1..n : p[i] = Written(i).hash
    BY <1>1, <1>3, <1>4, <1>7 DEF NobodyRewrote
  <2> HIDE DEF p
  <2> QED BY <1>5, <2>1 DEF WrittenHashes
<1> QED BY <1>6, <1>7

\* Nothing restores a rewritten row.
LEMMA RewritesStay ==
  ASSUME LedgerOK, [Next]_vars, NobodyRewrote'
  PROVE  NobodyRewrote
<1> USE DEF NobodyRewrote
<1>0. Len(ledger) \in Nat /\ DOMAIN ledger = 1..Len(ledger)
  BY DEF LedgerOK
<1>1. CASE AppendEntry
  <2>1. ledger \in Seq(Rows \cup {Written(Len(ledger) + 1)})
    BY DEF LedgerOK
  <2>2. DOMAIN ledger' = 1..(Len(ledger) + 1) /\ \A i \in 1..Len(ledger) : ledger'[i] = ledger[i]
    BY <1>0, <1>1, <2>1 DEF AppendEntry
  <2> QED BY <1>0, <2>2
<1>2. ASSUME NEW seq \in 1..MaxLen, NEW row \in RowsAt(seq), Rewrite(seq, row) PROVE FALSE
  <2>1. seq \in DOMAIN ledger
    BY <1>0, <1>2 DEF Rewrite
  <2>2. ledger'[seq] = row /\ seq \in DOMAIN ledger' /\ row # Written(seq)
    BY <1>2, <2>1 DEF Rewrite
  <2> QED BY <2>2
<1>3. CASE UNCHANGED ledger
  BY <1>3
<1> QED
  BY <1>1, <1>2, <1>3 DEF Next, vars, Checkpoint, Restart, SelectEntry, SelectTreeSize, Answer

\* An answer stays what it is while entries and checkpoints are added.
LEMMA AnswerStays ==
  ASSUME NEW a, AnswerOK(a), NobodyRewrote' => NobodyRewrote, checkpoints \subseteq checkpoints'
  PROVE  AnswerOK(a)'
BY DEF AnswerOK

\* The invariant holds initially.
LEMMA ReceiptsInvInit ==
  Init => ReceiptsInv
<1> SUFFICES ASSUME Init PROVE ReceiptsInv
  OBVIOUS
<1>1. LedgerOK
  <2>1. ledger \in Seq(Rows) /\ Len(ledger) = 0
    BY DEF Init
  <2> QED BY <2>1, ReceiptsAssumption DEF LedgerOK
<1>2. CheckpointsOK /\ \A a \in issued : AnswerOK(a)
  BY DEF Init, CheckpointsOK
<1>3. RequestOK
  BY DEF Init, RequestOK, NoRequest
<1> QED BY <1>1, <1>2, <1>3 DEF ReceiptsInv

\* The rows stay rows.
LEMMA LedgerOKStep ==
  ASSUME LedgerOK, [Next]_vars
  PROVE  LedgerOK' /\ Len(ledger)' >= Len(ledger) /\ Len(ledger) \in Nat
<1>0. Len(ledger) \in Nat /\ MaxLen \in Nat
  BY ReceiptsAssumption DEF LedgerOK
<1>1. CASE AppendEntry
  <2> DEFINE n == Len(ledger) + 1
  <2>1. n \in 1..MaxLen
    BY <1>0, <1>1 DEF AppendEntry
  <2>2. Written(n) \in RowsAt(n) /\ Written(n) \in Rows
    BY <2>1 DEF RowsAt, Rows
  <2>3. ledger' \in Seq(Rows) /\ Len(ledger') = n /\ ledger'[n] = Written(n)
        /\ \A i \in 1..Len(ledger) : ledger'[i] = ledger[i]
    BY <1>1, <2>2 DEF AppendEntry, LedgerOK
  <2>4. \A i \in 1..n : ledger'[i] \in RowsAt(i)
    BY <1>0, <2>2, <2>3 DEF LedgerOK
  <2> QED BY <1>0, <2>1, <2>3, <2>4 DEF LedgerOK
<1>2. ASSUME NEW seq \in 1..MaxLen, NEW row \in RowsAt(seq), Rewrite(seq, row)
      PROVE  LedgerOK' /\ Len(ledger)' >= Len(ledger)
  <2>1. row \in Rows
    BY DEF Rows
  <2>2. seq \in 1..Len(ledger)
    BY <1>0, <1>2 DEF Rewrite
  <2>3. /\ ledger' \in Seq(Rows) /\ Len(ledger') = Len(ledger)
        /\ \A i \in 1..Len(ledger) :
             ledger'[i] = IF i = seq THEN row ELSE ledger[i]
    BY <1>2, <2>1, <2>2 DEF Rewrite, LedgerOK
  <2> QED BY <1>0, <2>1, <2>3 DEF LedgerOK
<1>3. CASE UNCHANGED ledger
  BY <1>0, <1>3 DEF LedgerOK
<1> QED
  BY <1>0, <1>1, <1>2, <1>3
  DEF Next, vars, Checkpoint, Restart, SelectEntry, SelectTreeSize, Answer

\* The checkpoints stay roots of written rows while nobody rewrites them.
LEMMA CheckpointsOKStep ==
  ASSUME LedgerOK, CheckpointsOK, [Next]_vars
  PROVE  CheckpointsOK' /\ checkpoints \subseteq checkpoints'
<1>1. /\ LedgerOK' /\ Len(ledger)' >= Len(ledger) /\ Len(ledger) \in Nat
      /\ NobodyRewrote' => NobodyRewrote
  BY LedgerOKStep, RewritesStay
<1>2. Len(ledger)' \in Nat
  BY <1>1 DEF LedgerOK
<1>3. ASSUME NEW c \in checkpoints
      PROVE  /\ c.size \in 1..Len(ledger)'
             /\ NobodyRewrote' => c.root = MerkleRoot(WrittenHashes(c.size))
  BY <1>1, <1>2 DEF CheckpointsOK
<1>4. CASE Checkpoint
  <2> DEFINE n == Len(ledger)
             d == [size |-> n, root |-> MerkleRoot(EntryHashes)]
  <2>1. n \in 1..n /\ n > 0
    BY <1>1, <1>4 DEF Checkpoint, LedgerOK
  <2>2. SubSeq(EntryHashes, 1, n) = EntryHashes
    <3>1. EntryHashes \in Seq({ledger[i].hash : i \in 1..n}) /\ Len(EntryHashes) = n
      BY <1>1 DEF EntryHashes
    <3> QED BY <3>1, SubSeqFull
  <2>3. NobodyRewrote => d.root = MerkleRoot(WrittenHashes(d.size))
    BY <2>1, <2>2, PrefixHashes
  <2>4. d.size = n /\ Len(ledger)' = n /\ checkpoints' = checkpoints \cup {d}
    BY <1>4 DEF Checkpoint
  <2> HIDE DEF d
  <2> QED BY <1>1, <1>3, <2>1, <2>3, <2>4 DEF CheckpointsOK
<1>5. CASE UNCHANGED checkpoints
  BY <1>3, <1>5 DEF CheckpointsOK
<1> QED
  BY <1>4, <1>5 DEF Next, vars, AppendEntry, Rewrite, Restart, SelectEntry, SelectTreeSize, Answer

\* A request keeps its row between its reads, and picks a tree that covers it.
LEMMA RequestOKStep ==
  ASSUME LedgerOK, CheckpointsOK, RequestOK, [Next]_vars
  PROVE  RequestOK'
<1>1. /\ LedgerOK' /\ Len(ledger)' >= Len(ledger) /\ Len(ledger) \in Nat
      /\ NobodyRewrote' => NobodyRewrote
  BY LedgerOKStep, RewritesStay
<1>2. checkpoints \subseteq checkpoints'
  BY CheckpointsOKStep
<1>3. Len(ledger)' \in Nat
  BY <1>1 DEF LedgerOK
<1>4. CASE UNCHANGED request
  BY <1>1, <1>2, <1>3, <1>4 DEF RequestOK
<1>5. CASE request' = NoRequest
  BY <1>5 DEF RequestOK, NoRequest
<1>6. ASSUME NEW seq \in 1..MaxLen, SelectEntry(seq) PROVE RequestOK'
  <2>1. request' = [pc |-> "size", seq |-> seq, entry |-> ledger[seq], size |-> 0]
    BY <1>6 DEF SelectEntry, NoRequest
  <2>2. ledger' = ledger /\ seq \in 1..Len(ledger)
    BY <1>1, <1>6 DEF SelectEntry
  <2>3. ledger[seq] \in RowsAt(seq) /\ (NobodyRewrote => ledger[seq] = Written(seq))
    BY <2>2 DEF LedgerOK, NobodyRewrote
  <2>4. /\ request'.pc = "size" /\ request'.seq = seq /\ request'.entry = ledger[seq]
        /\ request'.size = 0
    BY <2>1
  <2> QED BY <1>1, <2>1, <2>2, <2>3, <2>4 DEF RequestOK
<1>7. CASE SelectTreeSize
  <2> DEFINE covering == {c.size : c \in {d \in checkpoints : d.size >= request.seq}}
             least == IF covering = {} THEN 0
                      ELSE CHOOSE x \in covering : \A m \in covering : x <= m
  <2>0. request' = [request EXCEPT !.pc = "hashes", !.size = least]
    BY <1>7 DEF SelectTreeSize
  <2> HIDE DEF least
  <2>1. PICK n : n = least /\ request' = [request EXCEPT !.pc = "hashes", !.size = n]
    BY <2>0
  <2>2. covering # {} => n \in covering
    <3> SUFFICES ASSUME covering # {} PROVE n \in covering
      OBVIOUS
    <3>1. covering \subseteq Nat
      BY <1>1 DEF CheckpointsOK
    <3> HIDE DEF covering
    <3>2. \E x \in covering : \A m \in covering : x <= m
      BY <3>1, LeastOfNat
    <3> QED BY <2>1, <3>2 DEF least
  <2>3. n # 0 => \E c \in checkpoints : c.size = n /\ request.seq <= c.size
    <3> SUFFICES ASSUME n # 0 PROVE \E c \in checkpoints : c.size = n /\ request.seq <= c.size
      OBVIOUS
    <3>1. n \in covering
      <4> HIDE DEF covering
      <4> QED BY <2>1, <2>2 DEF least
    <3>2. PICK c \in checkpoints : c.size >= request.seq /\ c.size = n
      BY <3>1
    <3>3. c.size \in Nat /\ request.seq \in Nat
      BY <1>1, <1>7 DEF CheckpointsOK, RequestOK, SelectTreeSize
    <3> QED BY <3>2, <3>3
  <2>4. /\ request' = [pc |-> "hashes", seq |-> request.seq, entry |-> request.entry, size |-> n]
        /\ ledger' = ledger /\ request.pc = "size"
    BY <1>7, <2>1 DEF RequestOK, SelectTreeSize
  <2>5. /\ request'.pc = "hashes" /\ request'.seq = request.seq /\ request'.size = n
        /\ request'.entry = request.entry
    BY <2>4
  <2> HIDE DEF covering
  <2> QED BY <1>1, <1>2, <2>3, <2>4, <2>5 DEF RequestOK
<1> QED
  BY <1>4, <1>5, <1>6, <1>7 DEF Next, vars, AppendEntry, Rewrite, Checkpoint, Restart, Answer

\* An answer is made of what the request read.
LEMMA NewAnswerOK ==
  ASSUME LedgerOK, CheckpointsOK, RequestOK, Answer, NEW a \in issued', a \notin issued
  PROVE  AnswerOK(a)'
<1> DEFINE key == signer
           entry == request.entry
           n == request.size
           rs == IF n = 0 THEN <<>>
                 ELSE <<MakeReceipt(SubSeq(EntryHashes, 1, n), request.seq, key)>>
<1>1. a = [statement |-> MakeSignedStatement(entry, key), receipts |-> rs,
           trace |-> TrustRecord(entry, rs)]
  BY DEF Answer
<1>2. /\ request.pc = "hashes" /\ ledger' = ledger /\ checkpoints' = checkpoints
  BY DEF Answer
<1>3. Len(ledger) \in Nat /\ Len(ledger) <= MaxLen /\ MaxLen \in Nat
  BY ReceiptsAssumption DEF LedgerOK
<1>4. request.seq \in 1..MaxLen /\ entry \in RowsAt(request.seq)
  BY <1>2, <1>3 DEF RequestOK
<1>5. entry.seq = request.seq
  BY <1>4, RowFacts
<1>6. NobodyRewrote => entry = Written(entry.seq)
  BY <1>2, <1>5 DEF RequestOK
<1>7. n # 0 => \E c \in checkpoints : c.size = n /\ request.seq <= c.size
  BY <1>2 DEF RequestOK
<1>8. n # 0 => n \in 1..Len(ledger)
  BY <1>7 DEF CheckpointsOK
<1>9. \/ rs = <<>>
      \/ \E hashes \in HashLists : rs = <<MakeReceipt(hashes, entry.seq, key)>>
  BY <1>5, <1>8, PrefixHashes
<1>10. ASSUME NobodyRewrote
       PROVE  \/ rs = <<>>
              \/ \E c \in checkpoints :
                   /\ entry.seq <= c.size
                   /\ rs = <<MakeReceipt(WrittenHashes(c.size), entry.seq, key)>>
  <2>1. CASE n = 0
    BY <2>1
  <2>2. CASE n # 0
    <3>1. PICK c \in checkpoints : c.size = n /\ request.seq <= c.size
      BY <1>7, <2>2
    <3>2. rs = <<MakeReceipt(WrittenHashes(n), request.seq, key)>>
      BY <1>8, <1>10, <2>2, PrefixHashes
    <3> HIDE DEF rs
    <3> QED BY <1>5, <3>1, <3>2
  <2> QED BY <2>1, <2>2
<1> HIDE DEF rs
<1>11. /\ a.statement = MakeSignedStatement(entry, key) /\ a.receipts = rs
       /\ a.trace = [subject |-> entry.hash, receipt |-> rs # <<>>, key |-> key]
  BY <1>1 DEF TrustRecord
<1>12. a.statement.protected.kid = key /\ a.statement.payload = entry
  BY <1>11 DEF MakeSignedStatement, Sign1
<1>13. NobodyRewrote' => NobodyRewrote
  BY <1>2 DEF NobodyRewrote
<1> HIDE DEF key, entry, n
<1> QED BY <1>2, <1>4, <1>6, <1>9, <1>10, <1>11, <1>12, <1>13 DEF AnswerOK

\* The inductive invariant of the evidence endpoint: what a request holds
\* between its reads, what an answer is made of, and, while nobody rewrites
\* rows, of which tree, however entries, checkpoints, restarts and rewrites
\* come between.
THEOREM ReceiptsInvariant == Spec => []ReceiptsInv
<1>1. Init => ReceiptsInv
  BY ReceiptsInvInit
<1>2. ReceiptsInv /\ [Next]_vars => ReceiptsInv'
  <2> SUFFICES ASSUME ReceiptsInv, [Next]_vars PROVE ReceiptsInv'
    OBVIOUS
  <2>0. LedgerOK /\ CheckpointsOK /\ RequestOK
    BY DEF ReceiptsInv
  <2>1. LedgerOK' /\ CheckpointsOK' /\ RequestOK' /\ checkpoints \subseteq checkpoints'
    BY <2>0, LedgerOKStep, CheckpointsOKStep, RequestOKStep
  <2>2. ASSUME NEW a \in issued' PROVE AnswerOK(a)'
    <3>1. CASE a \in issued
      <4>1. NobodyRewrote' => NobodyRewrote
        BY <2>0, RewritesStay
      <4>2. AnswerOK(a)
        BY <3>1 DEF ReceiptsInv
      <4> QED BY <2>1, <4>1, <4>2, AnswerStays
    <3>2. CASE a \notin issued
      <4>1. Answer
        BY <2>2, <3>2
        DEF Next, vars, AppendEntry, Rewrite, Checkpoint, Restart, SelectEntry, SelectTreeSize
      <4> QED BY <2>0, <3>2, <4>1, NewAnswerOK
    <3> QED BY <3>1, <3>2
  <2> QED BY <2>1, <2>2 DEF ReceiptsInv
<1> QED BY <1>1, <1>2, PTL DEF Spec

\* While nobody rewrites rows, every answer of entry_evidence verifies with
\* verify_transparent_statement, its receipt gives the root of the checkpoint
\* of its size, and its TRACE record is about the same entry, for a ledger of
\* any length, any keys and any number of answers.
THEOREM AnswersAlwaysVerify == Spec => []AnswersVerify
<1>1. ReceiptsInv => AnswersVerify
  <2> SUFFICES ASSUME ReceiptsInv, NobodyRewrote, NEW a \in issued
               PROVE  /\ VerifyTransparentStatement(a.statement, a.receipts,
                                                    a.statement.protected.kid)
                      /\ Roots(a.statement, a.receipts)
                           \subseteq {<<c.root, c.size>> : c \in checkpoints}
                      /\ a.trace = [subject |-> a.statement.payload.hash,
                                    receipt |-> a.receipts # <<>>,
                                    key |-> a.statement.protected.kid]
    BY DEF AnswersVerify
  <2>1. PICK key, entry : key = a.statement.protected.kid /\ entry = a.statement.payload
    OBVIOUS
  <2>2. /\ a.statement = MakeSignedStatement(entry, key)
        /\ a.trace = [subject |-> entry.hash, receipt |-> a.receipts # <<>>, key |-> key]
        /\ \E i \in 1..MaxLen : entry \in RowsAt(i)
        /\ entry = Written(entry.seq)
        /\ \/ a.receipts = <<>>
           \/ \E c \in checkpoints :
                /\ entry.seq <= c.size
                /\ a.receipts = <<MakeReceipt(WrittenHashes(c.size), entry.seq, key)>>
    BY <2>1 DEF ReceiptsInv, AnswerOK
  <2>3. PICK seq \in 1..MaxLen : seq = entry.seq
    BY <2>2, RowFacts
  <2>4. CoseVerify(a.statement, key, entry) /\ a.statement.protected.content_type = "ledger-entry"
    BY <2>2 DEF MakeSignedStatement, Sign1, CoseVerify
  <2>5. CASE a.receipts = <<>>
    <3>1. Range(a.receipts) = {} /\ DOMAIN a.receipts = {}
      BY <2>5 DEF Range
    <3>2. Roots(a.statement, a.receipts) = {}
      BY <3>1 DEF Roots
    <3>3. VerifyTransparentStatement(a.statement, a.receipts, key)
      BY <2>1, <2>4, <3>1 DEF VerifyTransparentStatement
    <3> QED BY <2>1, <2>2, <3>2, <3>3
  <2>6. CASE a.receipts # <<>>
    <3>1. PICK c \in checkpoints :
            /\ entry.seq <= c.size
            /\ a.receipts = <<MakeReceipt(WrittenHashes(c.size), entry.seq, key)>>
      BY <2>2, <2>6
    <3>2. PICK receipt : receipt = MakeReceipt(WrittenHashes(c.size), seq, key)
      OBVIOUS
    <3>3. a.receipts = <<receipt>>
      BY <2>3, <3>1, <3>2
    <3>4. c.size \in Nat /\ seq \in 1..c.size /\ c.root = MerkleRoot(WrittenHashes(c.size))
      <4>1. c.size \in 1..Len(ledger) /\ c.root = MerkleRoot(WrittenHashes(c.size))
        BY DEF ReceiptsInv, CheckpointsOK
      <4>2. Len(ledger) \in Nat /\ MaxLen \in Nat
        BY ReceiptsAssumption DEF ReceiptsInv, LedgerOK
      <4> QED BY <2>3, <3>1, <4>1, <4>2
    <3>5. /\ ReceiptHolds(receipt, Written(seq), key)
          /\ receipt.unprotected[1].size = c.size
          /\ WalkUp(Written(seq).hash, receipt.unprotected[1].index,
                    receipt.unprotected[1].size, receipt.unprotected[1].path).r
               = MerkleRoot(WrittenHashes(c.size))
      BY <3>2, <3>4, ReceiptOfTreeHolds
    <3>6. DOMAIN a.receipts = {1} /\ a.receipts[1] = receipt /\ Range(a.receipts) = {receipt}
      BY <3>3 DEF Range
    <3>7. entry = Written(seq)
      BY <2>2, <2>3
    <3>8. VerifyTransparentStatement(a.statement, a.receipts, key)
      BY <2>1, <2>4, <3>5, <3>6, <3>7 DEF VerifyTransparentStatement
    <3>9. Roots(a.statement, a.receipts) = {<<c.root, c.size>>}
      BY <2>1, <3>4, <3>5, <3>6, <3>7 DEF Roots
    <3> QED BY <2>1, <2>2, <3>8, <3>9
  <2> QED BY <2>5, <2>6
<1> QED BY <1>1, ReceiptsInvariant, PTL

\* Whatever receipt, with whatever index, size and path, reaches a relying
\* party with a statement: if verify_transparent_statement accepts them and
\* the root it returns is that of a checkpoint of the ledger as it was
\* written, then the hash the statement names is that of an entry the
\* checkpoint covers, and a statement that hashes to it says what was
\* appended.  The walk of receipt_root is sound for trees of any size.
THEOREM AcceptedIsAlwaysOriginal == Spec => []AcceptedIsOriginal
<1>1. ReceiptsInv => AcceptedIsOriginal
  <2> DEFINE receipts == UNION {Range(b.receipts) : b \in issued}
  <2> SUFFICES ASSUME ReceiptsInv, NEW a \in issued, NEW r \in Delivered(receipts), NEW key \in Keys,
                      VerifyTransparentStatement(a.statement, <<r>>, key),
                      NEW c \in Sealed,
                      c.root \in {pair[1] : pair \in Roots(a.statement, <<r>>)}
               PROVE  LET entry == a.statement.payload IN
                      /\ \E i \in 1..c.size : entry.hash = Written(i).hash
                      /\ entry = Entry(entry.seq, entry.text)
                           => entry.seq \in 1..c.size /\ entry = Written(entry.seq)
    BY DEF AcceptedIsOriginal
  <2>0. MaxLen \in Nat /\ Len(ledger) \in Nat
    BY ReceiptsAssumption DEF ReceiptsInv, LedgerOK
  <2>1. PICK m, entry : m \in 1..MaxLen /\ entry = a.statement.payload /\ entry \in RowsAt(m)
    BY DEF ReceiptsInv, AnswerOK
  <2>2. PICK proof : /\ proof = r.unprotected[1] /\ Len(proof.path) \in Nat
    <3>1. PICK r0, n, i, path :
            /\ r0 \in receipts /\ n \in 1..MaxLen /\ i \in 0..MaxLen - 1
            /\ r = [r0 EXCEPT !.unprotected = <<[size |-> n, index |-> i, path |-> path]>>]
            /\ \E p \in {x.unprotected[1].path : x \in receipts}, f \in 1..2, j \in 0..1 :
                 path = SubSeq(p, f, Len(p) - j)
      BY DEF Delivered
    <3>2. ASSUME NEW x \in receipts
          PROVE  /\ DOMAIN x = {"protected", "unprotected", "payload", "signature"}
                 /\ \E D : x.unprotected[1].path \in Seq(D)
      <4>1. PICK b \in issued : x \in Range(b.receipts)
        OBVIOUS
      <4>2. PICK hashes \in HashLists :
              b.receipts = <<MakeReceipt(hashes, b.statement.payload.seq,
                                         b.statement.protected.kid)>>
        <5>1. b.receipts # <<>>
          BY <4>1 DEF Range
        <5> QED BY <5>1 DEF ReceiptsInv, AnswerOK
      <4>3. x = MakeReceipt(hashes, b.statement.payload.seq, b.statement.protected.kid)
        BY <4>1, <4>2 DEF Range
      <4>4. PICK s \in Nat : s = b.statement.payload.seq - 1
        <5>1. PICK q \in 1..MaxLen : b.statement.payload \in RowsAt(q)
          BY DEF ReceiptsInv, AnswerOK
        <5>2. b.statement.payload.seq = q
          BY <5>1, RowFacts
        <5> QED BY <2>0, <5>2
      <4>5. x.unprotected[1].path = InclusionProof(hashes, s)
        BY <4>3, <4>4 DEF MakeReceipt, Sign1
      <4>6. Len(hashes) \in Nat
        <5>1. PICK q \in 1..MaxLen : hashes \in [1..q -> {e.hash : e \in Rows}]
          BY <4>2 DEF HashLists
        <5> QED BY <2>0, <5>1, ListFacts
      <4>7. InclusionProof(hashes, s) \in Seq(Digests(hashes))
        BY <4>6, AuditPathsType DEF InclusionProof
      <4>8. DOMAIN x = {"protected", "unprotected", "payload", "signature"}
        BY <4>3 DEF MakeReceipt, Sign1
      <4> QED BY <4>5, <4>7, <4>8
    <3>3. r.unprotected[1] = [size |-> n, index |-> i, path |-> path]
      BY <3>1, <3>2
    <3>4. Len(path) \in Nat
      <4> HIDE DEF receipts
      <4>1. PICK p \in {x.unprotected[1].path : x \in receipts}, f \in 1..2, j \in 0..1 :
              path = SubSeq(p, f, Len(p) - j)
        BY <3>1
      <4>2. PICK x \in receipts : p = x.unprotected[1].path
        BY <4>1
      <4>3. PICK D : p \in Seq(D) /\ path = SubSeq(p, f, Len(p) - j)
        BY <3>2, <4>2, <4>1
      <4>4. f \in Int /\ Len(p) - j \in Int /\ \A l \in f..(Len(p) - j) : p[l] \in D
        BY <4>3
      <4>5. path \in Seq(D)
        BY <4>3, <4>4, SubSeqProperties
      <4> QED BY <4>5
    <3> QED BY <3>3, <3>4
  <2>3. PICK top : top = WalkUp(entry.hash, proof.index, proof.size, proof.path)
    OBVIOUS
  <2>4. top.ok
    <3>1. ReceiptHolds(r, entry, key)
      <4>1. DOMAIN <<r>> = {1} /\ <<r>>[1] = r
        OBVIOUS
      <4> QED BY <2>1, <4>1 DEF VerifyTransparentStatement
    <3> QED BY <2>2, <2>3, <3>1 DEF ReceiptHolds
  <2>5. c.root = top.r
    <3>1. Range(<<r>>) = {r}
      BY DEF Range
    <3>2. Roots(a.statement, <<r>>) = {<<top.r, proof.size>>}
      BY <2>1, <2>2, <2>3, <3>1 DEF Roots
    <3> QED BY <3>2
  <2>6. c.size \in Nat /\ c.size > 0 /\ c.root = MerkleRoot(WrittenHashes(c.size))
    BY <2>0 DEF ReceiptsInv, CheckpointsOK, Sealed
  <2>7. c.root = SubtreeRoots(WrittenHashes(c.size))[c.size][0]
    BY <2>6, WrittenHashesFacts
  <2>8. PICK i \in 1..c.size : entry.hash = WrittenHashes(c.size)[i]
    <3>1. PICK n, hashes : n = c.size /\ hashes = WrittenHashes(c.size)
      OBVIOUS
    <3>2. PICK hash, index, size, path :
            /\ hash = entry.hash /\ index = proof.index /\ size = proof.size /\ path = proof.path
      OBVIOUS
    <3>3. /\ n \in Nat /\ n > 0 /\ Len(path) \in Nat
          /\ WalkUp(hash, index, size, path).ok
          /\ WalkUp(hash, index, size, path).r = SubtreeRoots(hashes)[n][0]
      BY <2>2, <2>3, <2>4, <2>5, <2>6, <2>7, <3>1, <3>2
    <3>4. \E i \in 1..n : hash = hashes[i]
      BY <3>3, WalkIsSound
    <3> QED BY <3>1, <3>2, <3>4
  <2>9. entry.hash = Written(i).hash
    BY <2>6, <2>8 DEF WrittenHashes
  <2>10. ASSUME entry = Entry(entry.seq, entry.text)
         PROVE  entry.seq \in 1..c.size /\ entry = Written(entry.seq)
    <3>1. <<"entry", entry.seq, entry.text>> = <<"entry", i, "written">>
      <4>1. entry.hash = <<"entry", entry.seq, entry.text>>
        BY <2>10 DEF Entry
      <4> QED BY <2>9, <4>1 DEF Written, Entry
    <3>2. entry.seq = i /\ entry.text = "written"
      BY <3>1
    <3> QED BY <2>10, <3>2 DEF Written
  <2> QED BY <2>1, <2>9, <2>10
<1> QED BY <1>1, ReceiptsInvariant, PTL
=============================================================================
