------------------------------ MODULE ConfigProofs ------------------------------
(***************************************************************************)
(* Proofs about the config structs, for every program, every value and     *)
(* every number of values of a byte: a call that ends well has written     *)
(* what the subsystems returned, every file is what C reads as the struct  *)
(* it was written for, its strings end, the types of a program that is     *)
(* read are complete, and nothing that the serialiser is made for is       *)
(* refused.                                                                *)
(*                                                                         *)
(* The code that is recursive is a function of levels in CTypes: what is   *)
(* said of all of it is proved of one level, from the level below.         *)
(***************************************************************************)
EXTENDS ConfigEmit, Arithmetic, SequenceTheorems, TLAPS

-----------------------------------------------------------------------------
(* Recursion, and lists in a row.                                          *)

\* A step from one level to the next that stays in a set has all its levels.
Levels(f, f0, W, n) == f = [k \in 0..n |-> IF k = 0 THEN f0 ELSE W[f[k - 1]]]

\* A recursion over levels that stays in a set has a solution in it.
LEMMA LevelRecursion ==
  ASSUME NEW n \in Nat, NEW S, NEW f0 \in S, NEW W, \A g \in S : W[g] \in S
  PROVE  \E f : Levels(f, f0, W, n) /\ \A k \in 0..n : f[k] \in S
<1> DEFINE F == [x \in S \X (1..n) |-> W[x[1]]]
<1>1. \A g \in S, i \in 1..n : F[<<g, i>>] = W[g] /\ F[<<g, i>>] \in S
  OBVIOUS
<1> HIDE DEF F
<1>2. PICK g : Computes(g, F, f0, n) /\ \A k \in 0..n : g[k] \in S
  <2>1. StaysIn(F, S, n)
    BY <1>1 DEF StaysIn
  <2> QED
    BY <2>1, FiniteRecursion
<1> DEFINE f == [k \in 0..n |-> g[k]]
<1>3. ASSUME NEW k \in 0..n
      PROVE  f[k] = (IF k = 0 THEN f0 ELSE W[f[k - 1]]) /\ f[k] \in S
  <2>1. CASE k = 0
    BY <2>1, <1>2 DEF Computes
  <2>2. CASE k # 0
    <3>1. k \in 1..n /\ k - 1 \in 0..n
      BY <2>2
    <3>2. g[k] = F[<<g[k - 1], k>>] /\ g[k - 1] \in S
      BY <3>1, <1>2 DEF Computes
    <3> QED
      BY <3>1, <3>2, <1>1, <1>2, <2>2
  <2> QED
    BY <2>1, <2>2
<1>4. f = [k \in 0..n |-> f[k]]
  OBVIOUS
<1> HIDE DEF f
<1>5. Levels(f, f0, W, n)
  BY <1>3, <1>4 DEF Levels
<1> QED
  BY <1>3, <1>5

\* FlattenSeq, as a row that grows.
Joins(c, es, S) ==
  /\ \A i \in 0..Len(es) : c[i] \in Seq(S)
  /\ c[0] = <<>> /\ \A i \in 1..Len(es) : c[i] = c[i - 1] \o es[i]

\* FlattenSeq is the last of rows that grow by one list each.
LEMMA FlattenJoins ==
  ASSUME NEW S, NEW es \in Seq(Seq(S))
  PROVE  \E c : Joins(c, es, S) /\ FlattenSeq(es) = c[Len(es)]
<1> DEFINE m == Len(es)
<1> DEFINE U == Seq(S)
<1>1. m \in Nat /\ \A i \in 1..m : es[i] \in U
  <2>1. es \in Seq(U)
    OBVIOUS
  <2> HIDE DEF U
  <2> QED
    BY <2>1
<1> DEFINE F == [x \in U \X (1..m) |-> x[1] \o es[x[2]]]
<1>2. \A x \in U, i \in 1..m : F[<<x, i>>] = x \o es[i] /\ F[<<x, i>>] \in U
  <2> SUFFICES ASSUME NEW x \in U, NEW i \in 1..m
               PROVE  F[<<x, i>>] = x \o es[i] /\ F[<<x, i>>] \in U
    OBVIOUS
  <2>1. F[<<x, i>>] = x \o es[i]
    OBVIOUS
  <2>2. es[i] \in U
    BY <1>1
  <2> QED
    BY <2>1, <2>2, ConcatProperties
<1>3. <<>> \in U
  OBVIOUS
<1> HIDE DEF m, F, U
<1>4. PICK g : Computes(g, F, <<>>, m) /\ \A i \in 0..m : g[i] \in U
  <2>1. StaysIn(F, U, m)
    BY <1>2 DEF StaysIn
  <2> QED
    BY <1>1, <1>3, <2>1, FiniteRecursion
<1>5. \A i \in 1..m : i - 1 \in 0..m /\ i \in 0..m /\ g[i] = g[i - 1] \o es[i]
  <2> SUFFICES ASSUME NEW i \in 1..m PROVE i - 1 \in 0..m /\ i \in 0..m /\ g[i] = g[i - 1] \o es[i]
    OBVIOUS
  <2>1. i - 1 \in 0..m /\ i \in 0..m
    BY <1>1
  <2>2. g[i] = F[<<g[i - 1], i>>] /\ g[i - 1] \in U
    BY <2>1, <1>4 DEF Computes
  <2> QED
    BY <2>1, <2>2, <1>2
<1>6. g[0] = <<>> /\ \A i \in 1..m, h \in 0..m : h = i - 1 => g[i] = g[h] \o es[i]
  BY <1>4, <1>5 DEF Computes
<1>7. Joins(g, es, S)
  BY <1>4, <1>5, <1>6 DEF Joins, m, U
<1>8. CASE m = 0
  <2>1. FlattenSeq(es) = es /\ es = <<>>
    BY <1>8 DEF FlattenSeq, m
  <2> QED
    BY <1>6, <1>7, <1>8, <2>1 DEF m
<1>9. CASE m # 0
  <2> DEFINE Solves(f) == f = [i \in 1..m |-> IF i = 1 THEN es[i] ELSE f[i - 1] \o es[i]]
  <2> DEFINE f == [i \in 1..m |-> g[i]]
  <2>1. \A i \in 1..m : f[i] = IF i = 1 THEN es[i] ELSE f[i - 1] \o es[i]
    <3> SUFFICES ASSUME NEW i \in 1..m PROVE f[i] = IF i = 1 THEN es[i] ELSE f[i - 1] \o es[i]
      OBVIOUS
    <3>1. CASE i = 1
      <4>1. 1 \in 1..m /\ 0 \in 0..m /\ 0 = 1 - 1 /\ es[1] \in U
        BY <3>1, <1>1
      <4>2. g[1] = <<>> \o es[1]
        BY <4>1, <1>6
      <4>3. g[1] = es[1]
        BY <4>1, <4>2, ConcatEmptySeq DEF U
      <4> QED
        BY <3>1, <4>3
    <3>2. CASE i # 1
      <4>1. i - 1 \in 1..m
        BY <3>2, <1>1
      <4>2. f[i - 1] = g[i - 1] /\ f[i] = g[i]
        BY <4>1
      <4> QED
        BY <3>2, <4>2, <1>5
    <3> QED
      BY <3>1, <3>2
  <2>2. f = [i \in 1..m |-> f[i]]
    OBVIOUS
  <2> HIDE DEF f
  <2>3. Solves(f)
    BY <2>1, <2>2
  <2>4. PICK c : Solves(c) /\ FlattenSeq(es) = c[m]
    <3>1. Solves(CHOOSE e : Solves(e))
      BY <2>3, Zenon
    <3> QED
      BY <3>1, <1>9 DEF FlattenSeq, m
  <2>5. \A i \in 1..m : c[i] = IF i = 1 THEN es[i] ELSE c[i - 1] \o es[i]
    BY <2>4
  <2> HIDE DEF Solves
  <2> DEFINE G == {i \in 0..m : i # 0 => c[i] = g[i]}
  <2>6. 0 \in G
    BY <1>1
  <2>7. ASSUME NEW i \in 1..m, i - 1 \in G PROVE i \in G
    <3>1. CASE i = 1
      <4>1. 1 \in 1..m /\ 0 \in 0..m /\ 0 = 1 - 1 /\ es[1] \in U
        BY <3>1, <1>1
      <4>2. g[1] = <<>> \o es[1]
        BY <4>1, <1>6
      <4>3. g[1] = es[1]
        BY <4>1, <4>2, ConcatEmptySeq DEF U
      <4> QED
        BY <3>1, <4>3, <2>5
    <3>2. CASE i # 1
      <4>1. c[i - 1] = g[i - 1]
        BY <3>2, <2>7
      <4>2. c[i] = c[i - 1] \o es[i]
        BY <3>2, <2>5
      <4> QED
        BY <4>1, <4>2, <1>5
    <3> QED
      BY <3>1, <3>2
  <2> HIDE DEF G
  <2>8. 0..m \subseteq G
    BY <1>1, <2>6, <2>7, UpTo
  <2>9. m \in 0..m
    BY <1>1
  <2>10. c[m] = g[m]
    BY <2>8, <2>9, <1>9 DEF G
  <2> QED
    BY <1>7, <2>4, <2>10 DEF m
<1> QED
  BY <1>8, <1>9

\* off[i] is where the list behind the i-th begins.
Offsets(off, es) == off[0] = 0 /\ \A i \in 1..Len(es) : off[i] = off[i - 1] + Len(es[i])

\* What is where in lists that are put in a row.
InRow(es, off, S) ==
  /\ FlattenSeq(es) \in Seq(S) /\ Len(FlattenSeq(es)) = off[Len(es)]
  /\ \A i \in 0..Len(es) : off[i] \in Nat /\ off[i] <= off[Len(es)]
  /\ \A i \in 1..Len(es) : \A j \in 1..Len(es[i]) : FlattenSeq(es)[off[i - 1] + j] = es[i][j]

\* Every entry of every list is in the row, where its list begins.
LEMMA FlattenAt ==
  ASSUME NEW S, NEW es \in Seq(Seq(S)), NEW off, Offsets(off, es)
  PROVE  InRow(es, off, S)
<1> DEFINE n == Len(es)
<1>1. PICK c : Joins(c, es, S) /\ FlattenSeq(es) = c[Len(es)]
  BY FlattenJoins
<1>2. n \in Nat /\ \A i \in 1..n : es[i] \in Seq(S) /\ Len(es[i]) \in Nat
  <2> DEFINE U == Seq(S)
  <2>1. es \in Seq(U)
    OBVIOUS
  <2>2. \A u \in U : Len(u) \in Nat
    OBVIOUS
  <2> HIDE DEF U
  <2>3. \A i \in 1..n : es[i] \in U
    BY <2>1
  <2>4. n \in Nat
    BY <2>1
  <2> QED
    BY <2>2, <2>3, <2>4 DEF U
<1>3. /\ \A i \in 0..n : c[i] \in Seq(S)
      /\ c[0] = <<>> /\ \A i \in 1..n : c[i] = c[i - 1] \o es[i]
  BY <1>1 DEF Joins
<1>4. off[0] = 0 /\ \A i \in 1..n : off[i] = off[i - 1] + Len(es[i])
  BY DEF Offsets
<1>5. FlattenSeq(es) = c[n]
  BY <1>1
<1> HIDE DEF n
<1> DEFINE Good(i) == /\ off[i] \in Nat /\ Len(c[i]) = off[i]
                      /\ \A h \in 0..i : off[h] \in Nat /\ off[h] <= off[i]
                      /\ \A h \in 1..i : \A j \in 1..Len(es[h]) : c[i][off[h - 1] + j] = es[h][j]
<1> DEFINE G == {i \in 0..n : Good(i)}
<1>6. 0 \in G
  <2>1. Len(c[0]) = 0
    BY <1>3
  <2> QED
    BY <2>1, <1>2, <1>4
<1>7. ASSUME NEW i \in 1..n, i - 1 \in G PROVE i \in G
  <2>1. i \in 0..n /\ i - 1 \in 0..n /\ Good(i - 1)
    BY <1>7
  <2>2. c[i - 1] \in Seq(S) /\ es[i] \in Seq(S) /\ c[i] = c[i - 1] \o es[i] /\ Len(es[i]) \in Nat
    BY <2>1, <1>2, <1>3
  <2>3. /\ Len(c[i]) = Len(c[i - 1]) + Len(es[i])
        /\ \A p \in 1..Len(c[i - 1]) + Len(es[i]) : c[i][p] =
             IF p <= Len(c[i - 1]) THEN c[i - 1][p] ELSE es[i][p - Len(c[i - 1])]
    <3>1. /\ Len(c[i - 1] \o es[i]) = Len(c[i - 1]) + Len(es[i])
          /\ \A p \in 1..Len(c[i - 1]) + Len(es[i]) : (c[i - 1] \o es[i])[p] =
               IF p <= Len(c[i - 1]) THEN c[i - 1][p] ELSE es[i][p - Len(c[i - 1])]
      BY <2>2, ConcatProperties
    <3> QED
      BY <2>2, <3>1
  <2>4. off[i] = off[i - 1] + Len(es[i]) /\ off[i - 1] \in Nat /\ Len(c[i - 1]) = off[i - 1]
    BY <2>1, <1>4
  <2>5. off[i] \in Nat /\ Len(c[i]) = off[i]
    BY <2>2, <2>3, <2>4
  <2>6. ASSUME NEW h \in 0..i PROVE off[h] \in Nat /\ off[h] <= off[i]
    <3>1. CASE h = i
      BY <3>1, <2>5
    <3>2. CASE h # i
      <4>1. h \in 0..i - 1
        BY <3>2
      <4>2. off[h] \in Nat /\ off[h] <= off[i - 1]
        BY <4>1, <2>1
      <4> DEFINE x == off[i - 1]
      <4> DEFINE y == off[i]
      <4> DEFINE z == off[h]
      <4> DEFINE l == Len(es[i])
      <4>3. y = x + l /\ x \in Nat /\ l \in Nat /\ z \in Nat /\ z <= x
        BY <4>2, <2>2, <2>4
      <4> HIDE DEF x, y, z, l
      <4>4. z \in Nat /\ z <= y
        BY <4>3
      <4> QED
        BY <4>4 DEF y, z
    <3> QED
      BY <3>1, <3>2
  <2>7. ASSUME NEW h \in 1..i, NEW j \in 1..Len(es[h])
        PROVE  c[i][off[h - 1] + j] = es[h][j]
    <3>1. CASE h = i
      <4>1. off[i - 1] + j \in 1..Len(c[i - 1]) + Len(es[i]) /\ ~(off[i - 1] + j <= Len(c[i - 1]))
            /\ (off[i - 1] + j) - Len(c[i - 1]) = j
        <5> DEFINE x == off[i - 1]
        <5> DEFINE l == Len(es[i])
        <5> DEFINE k == Len(c[i - 1])
        <5>1. x \in Nat /\ l \in Nat /\ k = x /\ j \in 1..l
          BY <3>1, <2>2, <2>4
        <5> HIDE DEF x, l, k
        <5>2. x + j \in 1..k + l /\ ~(x + j <= k) /\ (x + j) - k = j
          BY <5>1
        <5> QED
          BY <5>2 DEF x, l, k
      <4> DEFINE p == off[i - 1] + j
      <4> DEFINE d == p - Len(c[i - 1])
      <4>2. p \in 1..Len(c[i - 1]) + Len(es[i]) /\ ~(p <= Len(c[i - 1])) /\ d = j
        BY <4>1
      <4> HIDE DEF p
      <4>3. c[i][p] = es[i][d]
        BY <4>2, <2>3
      <4> HIDE DEF d
      <4>4. c[i][p] = es[h][j]
        BY <4>2, <4>3, <3>1
      <4> QED
        BY <4>4, <3>1 DEF p
    <3>2. CASE h # i
      <4>1. h \in 1..i - 1 /\ h \in 0..i - 1 /\ h - 1 \in 0..i - 1 /\ h \in 1..n
        BY <3>2, <1>2
      <4>2. /\ off[h] = off[h - 1] + Len(es[h]) /\ off[h] \in Nat /\ off[h - 1] \in Nat
            /\ off[h] <= off[i - 1] /\ Len(es[h]) \in Nat
        BY <4>1, <2>1, <1>4, <1>2
      <4> HIDE DEF G, Good
      <4>3. off[h - 1] + j \in 1..Len(c[i - 1]) + Len(es[i]) /\ off[h - 1] + j <= Len(c[i - 1])
        <5> DEFINE x == off[h - 1]
        <5> DEFINE y == off[i - 1]
        <5> DEFINE z == Len(es[h])
        <5>1. x \in Nat /\ y \in Nat /\ z \in Nat /\ x + z <= y /\ j \in 1..z /\ Len(es[i]) \in Nat
          BY <4>2, <2>2, <2>4
        <5>2. Len(c[i - 1]) = y
          BY <2>4
        <5> DEFINE w == Len(es[i])
        <5> HIDE DEF x, y, z, w
        <5>3. w \in Nat
          BY <5>1 DEF w
        <5>4. x + j \in 1..y + w /\ x + j <= y
          BY <5>1, <5>3
        <5> QED
          BY <5>2, <5>4 DEF x, w
      <4>4. c[i - 1][off[h - 1] + j] = es[h][j]
        BY <4>1, <2>1 DEF Good
      <4> QED
        BY <4>3, <4>4, <2>3
    <3> QED
      BY <3>1, <3>2
  <2>8. Good(i)
    BY <2>5, <2>6, <2>7
  <2> QED
    BY <2>8, <2>1
<1> HIDE DEF G
<1>8. n \in G
  <2>1. 0..n \subseteq G
    BY <1>2, <1>6, <1>7, UpTo
  <2> QED
    BY <2>1, <1>2
<1>9. Good(n) /\ c[n] \in Seq(S)
  BY <1>8, <1>3, <1>2 DEF G
<1> QED
  BY <1>9, <1>5 DEF n, InRow

-----------------------------------------------------------------------------
(* Order.                                                                  *)

\* What has less of a key than x.
Below(key, x) == {y \in DOMAIN key : key[y] < key[x]}

\* The keys are numbers, and differ.
Keys(key) ==
  /\ IsFiniteSet(DOMAIN key) /\ \A x \in DOMAIN key : key[x] \in Int
  /\ \A x, y \in DOMAIN key : key[x] = key[y] => x = y

\* Of two things that have a key, the one with the less key has less below it.
LEMMA LessBelow ==
  ASSUME NEW key, Keys(key), NEW x \in DOMAIN key
  PROVE  /\ IsFiniteSet(Below(key, x)) /\ Cardinality(Below(key, x)) \in 0..Cardinality(DOMAIN key) - 1
         /\ \A y \in DOMAIN key : key[x] < key[y] =>
              Cardinality(Below(key, x)) < Cardinality(Below(key, y))
<1> DEFINE D == DOMAIN key
<1>1. IsFiniteSet(D) /\ Cardinality(D) \in Nat
  BY FS_CardinalityType DEF Keys
<1>2. ASSUME NEW y \in D
      PROVE  /\ IsFiniteSet(Below(key, y)) /\ Cardinality(Below(key, y)) \in Nat
             /\ \A z \in D : z \notin Below(key, y) => TRUE
  <2>1. Below(key, y) \in SUBSET D
    BY DEF Below
  <2>2. IsFiniteSet(Below(key, y))
    BY <1>1, <2>1, FS_Subset
  <2> QED
    BY <2>2, FS_CardinalityType
<1>3. Cardinality(Below(key, x)) \in 0..Cardinality(D) - 1
  <2>1. IsFiniteSet(D \ {x}) /\ Cardinality(D \ {x}) = Cardinality(D) - 1
    BY <1>1, FS_RemoveElement
  <2>2. ~(key[x] < key[x])
    BY DEF Keys
  <2>3. Below(key, x) \in SUBSET (D \ {x})
    BY <2>2 DEF Below
  <2>4. Cardinality(Below(key, x)) <= Cardinality(D \ {x})
    BY <2>1, <2>3, FS_Subset
  <2> QED
    BY <1>1, <1>2, <2>1, <2>4
<1>4. ASSUME NEW y \in D, key[x] < key[y]
      PROVE  Cardinality(Below(key, x)) < Cardinality(Below(key, y))
  <2>1. x \in Below(key, y) /\ x \notin Below(key, x)
    BY <1>4 DEF Below, Keys
  <2>2. Below(key, x) \in SUBSET Below(key, y)
    BY <1>4 DEF Below, Keys
  <2>3. /\ Cardinality(Below(key, x)) <= Cardinality(Below(key, y))
        /\ Cardinality(Below(key, y)) = Cardinality(Below(key, x)) => Below(key, y) = Below(key, x)
    BY <1>2, <2>2, FS_Subset
  <2> QED
    BY <1>2, <2>1, <2>3
<1> QED
  BY <1>2, <1>3, <1>4

\* What has a key is arranged, each thing once, in ascending order.
LEMMA ArrangedOrder ==
  ASSUME NEW key, Keys(key)
  PROVE  /\ Cardinality(DOMAIN key) \in Nat
         /\ \A k \in 1..Cardinality(DOMAIN key) : Arranged(key)[k] \in DOMAIN key
         /\ \A x \in DOMAIN key : \E k \in 1..Cardinality(DOMAIN key) : Arranged(key)[k] = x
         /\ \A k, l \in 1..Cardinality(DOMAIN key) :
              k < l => key[Arranged(key)[k]] < key[Arranged(key)[l]]
<1> DEFINE D == DOMAIN key
<1> DEFINE n == Cardinality(D)
<1> DEFINE r == [x \in D |-> Cardinality(Below(key, x)) + 1]
<1>1. IsFiniteSet(D) /\ n \in Nat
  BY FS_CardinalityType DEF Keys
<1>2. \A x \in D : r[x] = Cardinality(Below(key, x)) + 1 /\ r[x] \in 1..n
  <2> SUFFICES ASSUME NEW x \in D
               PROVE  r[x] = Cardinality(Below(key, x)) + 1 /\ r[x] \in 1..n
    OBVIOUS
  <2>1. Cardinality(Below(key, x)) \in 0..n - 1
    BY LessBelow
  <2>2. r[x] = Cardinality(Below(key, x)) + 1
    OBVIOUS
  <2> HIDE DEF r, n
  <2> QED
    BY <1>1, <2>1, <2>2
<1>3. \A x, y \in D : key[x] < key[y] => r[x] < r[y]
  <2> SUFFICES ASSUME NEW x \in D, NEW y \in D, key[x] < key[y] PROVE r[x] < r[y]
    OBVIOUS
  <2>1. Cardinality(Below(key, x)) < Cardinality(Below(key, y))
    BY LessBelow
  <2>2. Cardinality(Below(key, x)) \in 0..n - 1 /\ Cardinality(Below(key, y)) \in 0..n - 1
    BY LessBelow
  <2> HIDE DEF r, n
  <2> QED
    BY <1>1, <1>2, <2>1, <2>2
<1>4. r \in [D -> 1..n]
  <2>1. r = [x \in D |-> r[x]]
    OBVIOUS
  <2> HIDE DEF r
  <2> QED
    BY <1>2, <2>1
<1>5. \A x, y \in D : r[x] = r[y] => x = y
  <2> SUFFICES ASSUME NEW x \in D, NEW y \in D, r[x] = r[y], x # y PROVE FALSE
    OBVIOUS
  <2>1. key[x] < key[y] \/ key[y] < key[x]
    BY DEF Keys
  <2>2. r[x] \in Int /\ r[y] \in Int
    BY <1>2
  <2> HIDE DEF r
  <2> QED
    BY <1>3, <2>1, <2>2
<1> HIDE DEF r
<1>6. \A k \in 1..n : \E x \in D : r[x] = k
  <2>1. r \in Injection(D, 1..n)
    BY <1>4, <1>5 DEF Injection, IsInjective
  <2>2. IsFiniteSet(1..n) /\ Cardinality(1..n) = n
    <3>1. IsFiniteSet(1..n) /\ Cardinality(1..n) = IF 1 > n THEN 0 ELSE n - 1 + 1
      BY <1>1, FS_Interval
    <3> HIDE DEF n
    <3> QED
      BY <1>1, <3>1
  <2>3. r \in Surjection(D, 1..n)
    BY <2>1, <2>2, FS_Injection
  <2> QED
    BY <2>3 DEF Surjection
<1>7. \A k \in 1..n : /\ Arranged(key)[k] \in D
                      /\ Cardinality(Below(key, Arranged(key)[k])) = k - 1
  <2> SUFFICES ASSUME NEW k \in 1..n
               PROVE  /\ Arranged(key)[k] \in D
                      /\ Cardinality(Below(key, Arranged(key)[k])) = k - 1
    OBVIOUS
  <2> DEFINE a == Arranged(key)[k]
  <2>1. a = CHOOSE x \in D : Cardinality({y \in D : key[y] < key[x]}) = k - 1
    BY DEF Arranged
  <2>2. PICK x \in D : r[x] = k
    BY <1>6
  <2>3. r[x] = Cardinality(Below(key, x)) + 1 /\ Cardinality(Below(key, x)) \in 0..n - 1
    BY <1>2, LessBelow
  <2>4. Cardinality(Below(key, x)) = k - 1
    <3> DEFINE q == Cardinality(Below(key, x))
    <3>1. q + 1 = k /\ q \in 0..n - 1
      BY <2>2, <2>3
    <3> HIDE DEF q, n
    <3>2. q = k - 1
      BY <3>1
    <3> QED
      BY <3>2 DEF q
  <2>5. Cardinality({y \in D : key[y] < key[x]}) = k - 1
    BY <2>4 DEF Below
  <2> HIDE DEF a
  <2>6. a \in D /\ Cardinality({y \in D : key[y] < key[a]}) = k - 1
    BY <2>1, <2>5
  <2> QED
    BY <2>6 DEF Below, a
<1>8. \A k \in 1..n : r[Arranged(key)[k]] = k
  BY <1>2, <1>7
<1>9. ASSUME NEW x \in D PROVE \E k \in 1..n : Arranged(key)[k] = x
  <2>1. r[x] \in 1..n
    BY <1>2
  <2>2. r[Arranged(key)[r[x]]] = r[x] /\ Arranged(key)[r[x]] \in D
    BY <1>7, <1>8, <2>1
  <2>3. Arranged(key)[r[x]] = x
    BY <2>2, <1>5
  <2> QED
    BY <2>1, <2>3
<1>10. ASSUME NEW k \in 1..n, NEW l \in 1..n, k < l
       PROVE  key[Arranged(key)[k]] < key[Arranged(key)[l]]
  <2> DEFINE a == Arranged(key)[k]
  <2> DEFINE b == Arranged(key)[l]
  <2>1. a \in D /\ b \in D /\ r[a] = k /\ r[b] = l
    BY <1>7, <1>8
  <2> HIDE DEF a, b
  <2>2. key[a] \in Int /\ key[b] \in Int
    BY <2>1 DEF Keys
  <2>3. ~(key[b] < key[a]) /\ key[a] # key[b]
    <3>1. CASE key[b] < key[a]
      <4>1. r[b] < r[a]
        BY <2>1, <3>1, <1>3
      <4> QED
        BY <4>1, <2>1, <1>10
    <3>2. CASE key[a] = key[b]
      <4>1. a = b
        BY <2>1, <3>2 DEF Keys
      <4> QED
        BY <4>1, <2>1, <1>10
    <3> QED
      BY <3>1, <3>2
  <2>4. key[a] < key[b]
    BY <2>2, <2>3
  <2> QED
    BY <2>4 DEF a, b
<1> QED
  BY <1>1, <1>7, <1>9, <1>10

-----------------------------------------------------------------------------
(* Tables.                                                                 *)

\* A table of a program whose numbers are as the code accepts them.
TableOK(T) ==
  /\ DOMAIN T \subseteq Nat
  /\ \A t \in DOMAIN T :
       /\ T[t].byte_size \in (Nat \ {0}) \cup {None} /\ T[t].data_member_location \in Nat \cup {None}
       /\ T[t].count \in Nat \cup {None} /\ T[t].upper_bound \in Nat \cup {None}
       /\ T[t].members \in Seq(DOMAIN T)
  /\ Sane(T)

\* The members of an entry are entries of the table.
LEMMA MembersFacts ==
  ASSUME NEW T, TableOK(T), NEW t \in DOMAIN T
  PROVE  /\ Len(T[t].members) \in Nat /\ DOMAIN T[t].members = 1..Len(T[t].members)
         /\ \A i \in 1..Len(T[t].members) : T[t].members[i] \in DOMAIN T
<1> DEFINE D == DOMAIN T
<1>1. T[t].members \in Seq(D)
  BY DEF TableOK
<1> HIDE DEF D
<1>2. /\ Len(T[t].members) \in Nat /\ DOMAIN T[t].members = 1..Len(T[t].members)
      /\ \A i \in 1..Len(T[t].members) : T[t].members[i] \in D
  BY <1>1, LenProperties, ElementOfSeq
<1> QED
  BY <1>2 DEF D

\* The members in the order of their places are the members.
LEMMA LocationOrder ==
  ASSUME NEW T, TableOK(T), NEW t \in DOMAIN T
  PROVE  /\ DOMAIN ByLocation(T, t) = 1..Len(T[t].members)
         /\ \A i \in 1..Len(T[t].members) :
              ByLocation(T, t)[i] \in MembersOf(T, t) /\ ByLocation(T, t)[i] \in DOMAIN T
         /\ \A m \in MembersOf(T, t) : \E i \in 1..Len(T[t].members) : ByLocation(T, t)[i] = m
         /\ \A i, j \in 1..Len(T[t].members) : i < j =>
              T[ByLocation(T, t)[i]].data_member_location <= T[ByLocation(T, t)[j]].data_member_location
         /\ Apart(T, t) => \A i, j \in 1..Len(T[t].members) : i < j =>
              T[ByLocation(T, t)[i]].data_member_location # T[ByLocation(T, t)[j]].data_member_location
<1> DEFINE ms == T[t].members
<1> DEFINE n == Len(ms)
<1> DEFINE at(i) == T[ms[i]].data_member_location
<1> DEFINE key == [i \in DOMAIN ms |-> n * at(i) + i - 1]
<1>1. n \in Nat /\ DOMAIN ms = 1..n /\ \A i \in 1..n : ms[i] \in DOMAIN T /\ at(i) \in Int
  <2>1. n \in Nat /\ DOMAIN ms = 1..n /\ \A i \in 1..n : ms[i] \in DOMAIN T
    BY MembersFacts
  <2>2. \A m \in DOMAIN T : T[m].data_member_location \in Int
    BY DEF TableOK, None
  <2> QED
    BY <2>1, <2>2
<1>2. DOMAIN key = 1..n /\ \A i \in 1..n : key[i] = n * at(i) + i - 1
  BY <1>1
<1>3. ByLocation(T, t) = [k \in DOMAIN ms |-> ms[Arranged(key)[k]]]
  BY DEF ByLocation
<1>4. MembersOf(T, t) = {ms[i] : i \in DOMAIN ms}
  BY DEF MembersOf
<1> HIDE DEF key, n
<1>5. \A i \in 1..n : key[i] \in Int /\ i - 1 \in 0..n - 1 /\ key[i] = n * at(i) + (i - 1)
  <2> SUFFICES ASSUME NEW i \in 1..n
               PROVE  key[i] \in Int /\ i - 1 \in 0..n - 1 /\ key[i] = n * at(i) + (i - 1)
    OBVIOUS
  <2> DEFINE x == n * at(i)
  <2>1. x \in Int
    BY <1>1
  <2>2. key[i] = x + i - 1
    BY <1>2
  <2> HIDE DEF x
  <2>3. key[i] \in Int /\ i - 1 \in 0..n - 1 /\ key[i] = x + (i - 1)
    BY <2>1, <2>2, <1>1
  <2> QED
    BY <2>3 DEF x
<1>6. ASSUME NEW i \in 1..n, NEW j \in 1..n, key[i] = key[j] PROVE i = j
  <2>1. n \in Nat \ {0} /\ at(i) \in Int /\ at(j) \in Int /\ i - 1 \in 0..n - 1 /\ j - 1 \in 0..n - 1
    BY <1>1, <1>5
  <2> HIDE DEF at
  <2>2. (n * at(i) + (i - 1)) % n = i - 1 /\ (n * at(j) + (j - 1)) % n = j - 1
    BY <2>1, Remainder
  <2>3. key[i] = n * at(i) + (i - 1) /\ key[j] = n * at(j) + (j - 1)
    BY <1>5 DEF at
  <2>4. i - 1 = j - 1
    BY <1>6, <2>2, <2>3
  <2> QED
    BY <2>4
<1>7. IsFiniteSet(1..n) /\ Cardinality(1..n) = n
  <2>1. IsFiniteSet(1..n) /\ Cardinality(1..n) = IF 1 > n THEN 0 ELSE n - 1 + 1
    BY <1>1, FS_Interval
  <2> QED
    BY <1>1, <2>1
<1>8. Keys(key) /\ Cardinality(DOMAIN key) = n
  BY <1>2, <1>5, <1>6, <1>7 DEF Keys
<1> DEFINE a == Arranged(key)
<1>9. /\ \A k \in 1..n : a[k] \in 1..n
      /\ \A i \in 1..n : \E k \in 1..n : a[k] = i
      /\ \A k, l \in 1..n : k < l => key[a[k]] < key[a[l]]
  BY <1>8, <1>2, ArrangedOrder
<1> HIDE DEF a
<1>10. \A k \in 1..n : ByLocation(T, t)[k] = ms[a[k]]
  BY <1>1, <1>3 DEF a
<1>11. DOMAIN ByLocation(T, t) = 1..n
  BY <1>1, <1>3
<1>12. ASSUME NEW i \in 1..n, NEW j \in 1..n, i < j
       PROVE  at(a[i]) <= at(a[j])
  <2> DEFINE p == a[i]
  <2> DEFINE q == a[j]
  <2>1. p \in 1..n /\ q \in 1..n /\ key[p] < key[q]
    BY <1>9, <1>12
  <2> HIDE DEF p, q
  <2>2. /\ key[p] = n * at(p) + (p - 1) /\ key[q] = n * at(q) + (q - 1)
        /\ at(p) \in Int /\ at(q) \in Int
    BY <2>1, <1>1, <1>5
  <2> HIDE DEF at
  <2>3. ASSUME at(q) < at(p) PROVE FALSE
    <3> DEFINE x == at(p) - at(q) - 1
    <3>1. x \in Nat /\ at(p) = at(q) + 1 + x
      BY <2>2, <2>3
    <3> HIDE DEF x
    <3> DEFINE X == n * at(q)
    <3> DEFINE Y == n * x
    <3>2. n * at(p) = X + n + Y
      BY <3>1, <2>2, <1>1
    <3>3. Y \in Nat /\ X \in Int
      BY <3>1, <2>2, <1>1
    <3>4. key[p] = n * at(p) + (p - 1) /\ key[q] = X + (q - 1)
      BY <2>2
    <3> DEFINE Z == n * at(p)
    <3> HIDE DEF X, Y, Z
    <3>5. Z = X + n + Y /\ key[p] = Z + (p - 1)
      BY <3>2, <3>4 DEF Z
    <3> DEFINE k == key[p]
    <3> DEFINE m == key[q]
    <3>6. k = Z + (p - 1) /\ m = X + (q - 1) /\ k < m /\ Z \in Int
      BY <3>3, <3>4, <3>5, <2>1, <1>1
    <3>7. n \in Nat /\ p \in 1..n /\ q \in 1..n
      BY <2>1, <1>1
    <3>8. Y \in Nat /\ X \in Int /\ Z = X + n + Y
      BY <3>3, <3>5
    <3> HIDE DEF k, m, n
    <3> QED
      BY <3>6, <3>7, <3>8
  <2>4. at(p) <= at(q)
    BY <2>2, <2>3
  <2> QED
    BY <2>4 DEF p, q
<1> HIDE DEF at
<1>13. \A i \in 1..n : ByLocation(T, t)[i] \in MembersOf(T, t) /\ ByLocation(T, t)[i] \in DOMAIN T
  BY <1>1, <1>4, <1>9, <1>10
<1>14. \A m \in MembersOf(T, t) : \E i \in 1..n : ByLocation(T, t)[i] = m
  <2> SUFFICES ASSUME NEW m \in MembersOf(T, t) PROVE \E i \in 1..n : ByLocation(T, t)[i] = m
    OBVIOUS
  <2>1. PICK i \in 1..n : m = ms[i]
    BY <1>1, <1>4
  <2>2. PICK k \in 1..n : a[k] = i
    BY <1>9
  <2> QED
    BY <2>1, <2>2, <1>10
<1>15. \A i, j \in 1..n : i < j =>
         T[ByLocation(T, t)[i]].data_member_location <= T[ByLocation(T, t)[j]].data_member_location
  BY <1>10, <1>12 DEF at
<1>16. ASSUME Apart(T, t), NEW i \in 1..n, NEW j \in 1..n, i < j
       PROVE  T[ByLocation(T, t)[i]].data_member_location # T[ByLocation(T, t)[j]].data_member_location
  <2> DEFINE p == a[i]
  <2> DEFINE q == a[j]
  <2>1. p \in 1..n /\ q \in 1..n /\ key[p] < key[q] /\ key[p] \in Int
    BY <1>5, <1>9, <1>16
  <2> HIDE DEF p, q
  <2>2. p # q
    BY <2>1
  <2>3. at(p) # at(q)
    BY <2>1, <2>2, <1>1, <1>16 DEF Apart, at
  <2> QED
    BY <2>3, <1>10 DEF at, p, q
<1> QED
  BY <1>11, <1>13, <1>14, <1>15, <1>16 DEF n

-----------------------------------------------------------------------------
(* What base_type, array_dimensions and array_count yield.                 *)

\* However many typedefs there are, the loop stays in the table.
LEMMA UnwrapHeld ==
  ASSUME NEW T, Sane(T), NEW t \in DOMAIN T
  PROVE  Unwrap(T, t) \in DOMAIN T
<1> DEFINE D == DOMAIN T
<1> DEFINE M == MaxNesting
<1> DEFINE W == [u \in D |-> Typedefs(T, u)]
<1>1. M \in Nat
  BY NestingAssumption
<1>2. \A u \in D : W[u] = Typedefs(T, u) /\ Typedefs(T, u) \in D
  BY DEF Typedefs, Sane
<1>3. PICK f : Levels(f, t, W, M) /\ \A k \in 0..M : f[k] \in D
  BY <1>1, <1>2, LevelRecursion
<1> DEFINE Solves(e) == e = [i \in 0..M |-> IF i = 0 THEN t ELSE Typedefs(T, e[i - 1])]
<1>4. Solves(f)
  <2>1. f = [k \in 0..M |-> IF k = 0 THEN t ELSE W[f[k - 1]]]
    BY <1>3 DEF Levels
  <2>2. \A k \in 0..M : k # 0 => k - 1 \in 0..M
    BY <1>1
  <2> HIDE DEF W, M
  <2>3. \A k \in 0..M : k # 0 => W[f[k - 1]] = Typedefs(T, f[k - 1])
    BY <2>2, <1>2, <1>3
  <2> QED
    BY <2>1, <2>3
<1>5. PICK c : Solves(c) /\ Unwrap(T, t) = c[M]
  <2>1. Solves(CHOOSE e : Solves(e))
    BY <1>4, Zenon
  <2> QED
    BY <2>1 DEF Unwrap
<1>6. \A i \in 0..M : c[i] = IF i = 0 THEN t ELSE Typedefs(T, c[i - 1])
  BY <1>5
<1> HIDE DEF Solves, M
<1> DEFINE G == {i \in 0..M : c[i] \in D}
<1>7. 0 \in G
  BY <1>1, <1>6
<1>8. ASSUME NEW i \in 1..M, i - 1 \in G PROVE i \in G
  <2>1. i \in 0..M /\ i # 0 /\ c[i - 1] \in D
    BY <1>8, <1>1
  <2>2. c[i] = Typedefs(T, c[i - 1])
    BY <2>1, <1>6
  <2> QED
    BY <2>1, <2>2, <1>2
<1> HIDE DEF G
<1>9. 0..M \subseteq G
  BY <1>1, <1>7, <1>8, UpTo
<1> QED
  BY <1>1, <1>5, <1>9 DEF G

\* base_type yields an entry of the table, if any.
LEMMA BaseTypeHeld ==
  ASSUME NEW T, Sane(T), NEW t \in DOMAIN T
  PROVE  BaseType(T, t) \in DOMAIN T \cup {None}
<1>1. CASE T[t].tag \notin {"typedef", "member", "array"}
  BY <1>1 DEF BaseType
<1>2. CASE T[t].tag \in {"typedef", "member", "array"}
  <2>1. T[t].type \in DOMAIN T
    BY <1>2 DEF Sane
  <2>2. Unwrap(T, T[t].type) \in DOMAIN T
    BY <2>1, UnwrapHeld
  <2> QED
    BY <1>2, <2>2 DEF BaseType
<1> QED
  BY <1>1, <1>2

\* The product of numbers is a number.
LEMMA ProductTyped ==
  ASSUME NEW ns \in Seq(Nat)
  PROVE  Product(ns) \in Nat
<1> DEFINE m == Len(ns)
<1> DEFINE F == [x \in Nat \X (1..m) |-> x[1] * ns[x[2]]]
<1>1. m \in Nat /\ \A i \in 1..m : ns[i] \in Nat
  OBVIOUS
<1>2. \A x \in Nat, i \in 1..m : F[<<x, i>>] = x * ns[i] /\ F[<<x, i>>] \in Nat
  BY <1>1
<1> HIDE DEF F, m
<1>3. PICK g : Computes(g, F, 1, m) /\ \A i \in 0..m : g[i] \in Nat
  <2>1. StaysIn(F, Nat, m)
    BY <1>2 DEF StaysIn
  <2> QED
    BY <1>1, <2>1, FiniteRecursion
<1>4. g[0] = 1 /\ \A i \in 1..m : g[i] = g[i - 1] * ns[i]
  <2>1. \A i \in 1..m : i - 1 \in 0..m /\ g[i] = F[<<g[i - 1], i>>]
    BY <1>1, <1>3 DEF Computes
  <2> QED
    BY <2>1, <1>2, <1>3 DEF Computes
<1> DEFINE Solves(e) == e = [i \in 0..m |-> IF i = 0 THEN 1 ELSE e[i - 1] * ns[i]]
<1> DEFINE f == [i \in 0..m |-> g[i]]
<1>5. Solves(f)
  BY <1>1, <1>4
<1>6. PICK c : Solves(c) /\ Product(ns) = c[m]
  <2>1. Solves(CHOOSE e : Solves(e))
    BY <1>5, Zenon
  <2> QED
    BY <2>1 DEF Product, m
<1>7. c[0] = g[0] /\ \A i \in 1..m : c[i - 1] = g[i - 1] => c[i] = g[i]
  <2>1. c[0] = 1 /\ \A i \in 1..m : c[i] = c[i - 1] * ns[i]
    <3> HIDE DEF m
    <3>1. 0 \in 0..m /\ \A i \in 1..m : i \in 0..m /\ i # 0
      BY <1>1
    <3> QED
      BY <1>6, <3>1
  <2> HIDE DEF Solves, m
  <2> QED
    BY <1>4, <2>1
<1>8. \A i \in 0..m : c[i] = g[i]
  <2>1. m \in Nat
    BY <1>1
  <2> HIDE DEF m, Solves
  <2> DEFINE S == {i \in 0..m : c[i] = g[i]}
  <2>2. 0 \in S
    BY <2>1, <1>7
  <2>3. \A i \in 1..m : i - 1 \in S => i \in S
    BY <2>1, <1>7
  <2>4. \A i \in S : c[i] = g[i]
    OBVIOUS
  <2> HIDE DEF S
  <2>5. \A i \in 0..m : i \in S
    BY <2>1, <2>2, <2>3, UpTo
  <2> QED
    BY <2>4, <2>5
<1> QED
  BY <1>1, <1>3, <1>6, <1>8

\* The number of entries of an array is a number.
LEMMA CountTyped ==
  ASSUME NEW T, TableOK(T), NEW t \in DOMAIN T
  PROVE  ArrayCount(T, t) \in Nat
<1> DEFINE ms == T[t].members
<1> DEFINE n == Len(ms)
<1>1. n \in Nat /\ DOMAIN ms = 1..n /\ \A i \in 1..n : ms[i] \in DOMAIN T
  BY MembersFacts
<1>2. ASSUME NEW u \in DOMAIN T PROVE Dimension(T[u]) \in Nat
  <2>1. T[u].count \in Nat \cup {None} /\ T[u].upper_bound \in Nat \cup {None}
    BY DEF TableOK
  <2> QED
    BY <2>1 DEF Dimension, None
<1>3. Dimensions(T, t) = [i \in 1..n |-> Dimension(T[ms[i]])]
  BY <1>1 DEF Dimensions
<1>4. \A i \in 1..n : Dimension(T[ms[i]]) \in Nat
  BY <1>1, <1>2
<1> HIDE DEF n, ms
<1>5. Dimensions(T, t) \in Seq(Nat)
  BY <1>1, <1>3, <1>4
<1> QED
  BY <1>5, ProductTyped DEF ArrayCount

-----------------------------------------------------------------------------
(* Numbers in bytes.                                                       *)

\* Power is what its recursion says.
LEMMA PowerSolved ==
  ASSUME NEW n \in Nat
  PROVE  \E g :
           /\ Power(n) = g[n] /\ g[0] = 1
           /\ \A i \in 0..n : g[i] \in Nat \ {0}
           /\ \A i \in 1..n : g[i] = Byte * g[i - 1]
<1> DEFINE S == Nat \ {0}
<1> DEFINE F == [x \in S \X (1..n) |-> Byte * x[1]]
<1>1. \A x \in S, i \in 1..n : F[<<x, i>>] = Byte * x /\ Byte * x \in S
  BY ByteAssumption
<1>2. 1 \in S
  OBVIOUS
<1> HIDE DEF F, S
<1>3. PICK g : /\ \A i \in 0..n : g[i] \in S
               /\ g[0] = 1 /\ \A i \in 1..n : g[i] = F[<<g[i - 1], i>>]
  <2>1. StaysIn(F, S, n)
    BY <1>1 DEF StaysIn
  <2>2. \E g : Computes(g, F, 1, n) /\ \A i \in 0..n : g[i] \in S
    BY <1>2, <2>1, FiniteRecursion
  <2> QED
    BY <2>2 DEF Computes
<1>4. \A i \in 1..n : g[i] = Byte * g[i - 1]
  <2> SUFFICES ASSUME NEW i \in 1..n PROVE g[i] = Byte * g[i - 1]
    OBVIOUS
  <2>1. g[i - 1] \in S
    BY <1>3
  <2> QED
    BY <2>1, <1>1, <1>3
<1> DEFINE Solves(f) == f = [i \in 0..n |-> IF i = 0 THEN 1 ELSE Byte * f[i - 1]]
<1> DEFINE f == [i \in 0..n |-> g[i]]
<1>5. Solves(f)
  BY <1>3, <1>4
<1>6. PICK c : Solves(c) /\ Power(n) = c[n]
  <2>1. Solves(CHOOSE e : Solves(e))
    BY <1>5, Zenon
  <2> QED
    BY <2>1 DEF Power
<1>7. c[0] = g[0] /\ \A i \in 1..n : c[i - 1] = g[i - 1] => c[i] = g[i]
  BY <1>3, <1>4, <1>6
<1>8. \A i \in 0..n : c[i] = g[i]
  BY <1>7, SameValues
<1> QED
  BY <1>3, <1>4, <1>6, <1>8 DEF S

\* One more byte has Byte times as many values.
LEMMA PowerFacts ==
  /\ Power(0) = 1
  /\ \A k \in Nat : Power(k) \in Nat \ {0} /\ Power(k + 1) = Byte * Power(k)
<1>1. Power(0) = 1
  BY PowerSolved
<1>2. ASSUME NEW k \in Nat
      PROVE  Power(k) \in Nat \ {0} /\ Power(k + 1) = Byte * Power(k)
  <2>1. PICK g : /\ Power(k) = g[k] /\ g[0] = 1
                 /\ \A i \in 0..k : g[i] \in Nat \ {0}
                 /\ \A i \in 1..k : g[i] = Byte * g[i - 1]
    BY PowerSolved
  <2> DEFINE n == k + 1
  <2>2. PICK h : /\ Power(n) = h[n] /\ h[0] = 1
                 /\ \A i \in 0..n : h[i] \in Nat \ {0}
                 /\ \A i \in 1..n : h[i] = Byte * h[i - 1]
    BY n \in Nat, PowerSolved
  <2>3. g[0] = h[0] /\ \A i \in 1..k : g[i - 1] = h[i - 1] => g[i] = h[i]
    BY <2>1, <2>2
  <2>4. \A i \in 0..k : g[i] = h[i]
    BY <2>3, SameValues
  <2>5. h[n] = Byte * h[k]
    BY <2>2
  <2> QED
    BY <2>1, <2>2, <2>4, <2>5
<1> QED
  BY <1>1, <1>2

\* The number in the bytes of a number that fits.
LEMMA UnsignedBytes ==
  ASSUME NEW v \in Nat, NEW k \in Nat, v < Power(k)
  PROVE  /\ LittleEndian(v, k) \in Blobs /\ Len(LittleEndian(v, k)) = k
         /\ Unsigned(LittleEndian(v, k)) = v
<1> DEFINE bs == LittleEndian(v, k)
<1>1. \A j \in 0..k : Power(j) \in Nat \ {0}
  BY PowerFacts
<1>2. \A i \in 1..k : bs[i] = (v \div Power(i - 1)) % Byte /\ bs[i] \in 0..Byte - 1
  <2> SUFFICES ASSUME NEW i \in 1..k PROVE bs[i] = (v \div Power(i - 1)) % Byte /\ bs[i] \in 0..Byte - 1
    OBVIOUS
  <2>1. Power(i - 1) \in Nat \ {0}
    BY <1>1
  <2>2. v \div Power(i - 1) \in Int
    BY <2>1
  <2>3. (v \div Power(i - 1)) % Byte \in 0..Byte - 1
    BY <2>2, DivMod, ByteAssumption
  <2>4. bs[i] = (v \div Power(i - 1)) % Byte
    BY DEF LittleEndian
  <2> HIDE DEF bs
  <2> QED
    BY <2>3, <2>4
<1>3. bs \in Seq(0..Byte - 1) /\ Len(bs) = k
  <2> DEFINE B == 0..Byte - 1
  <2>1. bs = [i \in 1..k |-> bs[i]]
    BY DEF LittleEndian
  <2>2. \A i \in 1..k : bs[i] \in B
    BY <1>2
  <2> HIDE DEF bs, B
  <2>3. bs \in Seq(B) /\ Len(bs) = k
    BY <2>1, <2>2
  <2> QED
    BY <2>3 DEF B
<1> DEFINE Solves(f) == f = [i \in 0..Len(bs) |-> IF i = 0 THEN 0 ELSE f[i - 1] * Byte + bs[Len(bs) - i + 1]]
<1> DEFINE g == [i \in 0..k |-> v \div Power(k - i)]
<1> HIDE DEF bs
<1>4. g[0] = 0
  <2>1. Power(k) \in Nat \ {0} /\ v < Power(k)
    BY <1>1
  <2>2. v \div Power(k) = 0
    BY <2>1
  <2> QED
    BY <2>2
<1>5. ASSUME NEW i \in 1..k
      PROVE  g[i] = g[i - 1] * Byte + bs[k - i + 1]
  <2> DEFINE P == Power(k - i)
  <2>1. P \in Nat \ {0}
    BY <1>1
  <2>2. Power(k - (i - 1)) = Byte * P
    <3>1. k - i \in Nat /\ (k - i) + 1 = k - (i - 1)
      OBVIOUS
    <3>2. Power((k - i) + 1) = Byte * Power(k - i)
      BY <3>1, PowerFacts
    <3> QED
      BY <3>1, <3>2
  <2>3. g[i] = v \div P /\ g[i - 1] = v \div (Byte * P)
    BY <2>2
  <2>4. bs[k - i + 1] = (v \div P) % Byte
    <3>1. k - i + 1 \in 1..k /\ (k - i + 1) - 1 = k - i
      OBVIOUS
    <3> QED
      BY <3>1, <1>2
  <2> HIDE DEF P, g
  <2>5. v \div P = Byte * (v \div (Byte * P)) + ((v \div P) % Byte)
    BY <2>1, DivDiv, ByteAssumption
  <2>6. v \div (Byte * P) \in Int
    <3>1. Byte * P \in Nat \ {0}
      BY <2>1, ByteAssumption
    <3> QED
      BY <3>1
  <2>7. Byte * (v \div (Byte * P)) = (v \div (Byte * P)) * Byte
    BY <2>6, ByteAssumption
  <2> QED
    BY <2>3, <2>4, <2>5, <2>7
<1>6. Solves(g)
  <2>1. DOMAIN g = 0..k /\ g = [i \in 0..k |-> g[i]]
    OBVIOUS
  <2> HIDE DEF g
  <2>2. \A i \in 0..k : g[i] = IF i = 0 THEN 0 ELSE g[i - 1] * Byte + bs[k - i + 1]
    BY <1>4, <1>5
  <2> QED
    BY <2>1, <2>2, <1>3
<1>7. PICK c : Solves(c) /\ Unsigned(bs) = c[k]
  <2>1. Solves(CHOOSE e : Solves(e))
    BY <1>6, Zenon
  <2> QED
    BY <2>1, <1>3 DEF Unsigned
<1>8. c[0] = g[0] /\ \A i \in 1..k : c[i - 1] = g[i - 1] => c[i] = g[i]
  <2>1. c[0] = 0 /\ \A i \in 1..k : c[i] = c[i - 1] * Byte + bs[k - i + 1]
    BY <1>3, <1>7
  <2> HIDE DEF g, Solves
  <2> QED
    BY <2>1, <1>4, <1>5
<1>9. g[k] = v
  <2>1. k - k = 0
    OBVIOUS
  <2> QED
    BY <2>1, PowerFacts
<1> HIDE DEF g, Solves
<1>10. \A i \in 0..k : c[i] = g[i]
  BY <1>8, SameValues
<1> QED
  BY <1>3, <1>7, <1>9, <1>10 DEF bs, Blobs

\* What stands for a refusal is an empty blob.
LEMMA FailTyped == Fail \in Blobs /\ Len(Fail) = 0
BY DEF Fail, Blobs

\* A sequence of entries of a set is a sequence over the set.
LEMMA Retyped ==
  ASSUME NEW A, NEW B, NEW s \in Seq(A), \A i \in 1..Len(s) : s[i] \in B
  PROVE  s \in Seq(B)
<1>1. Len(s) \in Nat /\ s \in [1..Len(s) -> A]
  BY LenProperties
<1>2. s \in [1..Len(s) -> B]
  BY <1>1
<1> DEFINE F == {[1..n -> B] : n \in Nat}
<1>3. [1..Len(s) -> B] \in F
  BY <1>1
<1>4. s \in UNION F
  BY <1>2, <1>3
<1> QED
  BY <1>4, SeqDef

\* The powers of a number of bytes that is not 0.
LEMMA PowerGreat ==
  ASSUME NEW k \in Nat \ {0}
  PROVE  Power(k) \in Nat /\ Power(k) >= 2
<1>1. k - 1 \in Nat /\ (k - 1) + 1 = k
  OBVIOUS
<1>2. Power(k - 1) \in Nat \ {0} /\ Power((k - 1) + 1) = Byte * Power(k - 1)
  BY <1>1, PowerFacts
<1>3. Byte \in Nat /\ Byte >= 2
  BY ByteAssumption
<1> DEFINE x == Power(k - 1)
<1>4. Power(k) = Byte * x /\ x \in Nat \ {0}
  BY <1>1, <1>2
<1> HIDE DEF x
<1>5. Byte * x >= 2 /\ Byte * x \in Nat
  BY <1>3, <1>4
<1> QED
  BY <1>4, <1>5

\* C reads the number that was written, or it is refused.
LEMMA IntRight ==
  ASSUME NEW encoding, NEW size \in Nat \ {0}, NEW v \in Value,
         FlatInt(encoding, size, v) # Fail
  PROVE  /\ v.kind = "int"
         /\ FlatInt(encoding, size, v) \in Blobs /\ Len(FlatInt(encoding, size, v)) = size
         /\ CRead(encoding, FlatInt(encoding, size, v)) = v.n
<1> DEFINE P == Power(size)
<1> DEFINE u == v.n % P
<1> DEFINE bs == LittleEndian(u, size)
<1>1. P \in Nat /\ P >= 2
  BY PowerGreat
<1>2. v.kind = "int" /\ Wrapped(encoding, size, v.n) = v.n /\ FlatInt(encoding, size, v) = bs
  BY DEF FlatInt
<1>3. v.n \in Int
  BY <1>2, ValueAssumption
<1>4. u \in 0..P - 1
  <2> DEFINE n == v.n
  <2>1. n \in Int /\ P \in Nat \ {0}
    BY <1>1, <1>3
  <2> HIDE DEF n, P
  <2>2. n % P \in 0..P - 1
    BY <2>1, DivMod
  <2> QED
    BY <2>2 DEF n
<1>5. u \in Nat /\ u < P
  BY <1>1, <1>4
<1>6. bs \in Blobs /\ Len(bs) = size /\ Unsigned(bs) = u
  BY <1>5, UnsignedBytes
<1>7. CRead(encoding, bs) = IF encoding \in {"signed", "signed_char"} /\ u >= P \div 2 THEN u - P ELSE u
  BY <1>6 DEF CRead
<1>8. v.n = IF encoding = "boolean" THEN (IF v.n = 0 THEN 0 ELSE 1)
            ELSE IF encoding \in {"signed", "signed_char"} /\ u >= P \div 2 THEN u - P ELSE u
  BY <1>2 DEF Wrapped
<1>9. CRead(encoding, bs) = v.n
  <2>1. CASE encoding = "boolean"
    <3>1. v.n \in {0, 1}
      BY <1>8, <2>1
    <3>2. u = v.n
      <4> DEFINE n == v.n
      <4>1. n \in {0, 1}
        BY <3>1
      <4> HIDE DEF n, P
      <4>2. n % P = n
        BY <4>1, <1>1
      <4> QED
        BY <4>2 DEF n
    <3>3. CRead(encoding, bs) = u
      BY <1>7, <2>1
    <3> QED
      BY <3>2, <3>3
  <2>2. CASE encoding # "boolean"
    <3> HIDE DEF u, bs, P
    <3> QED
      BY <1>7, <1>8, <2>2
  <2> QED
    BY <2>1, <2>2
<1> QED
  BY <1>2, <1>6, <1>9

\* The value that the bytes of a base type or a pointer have.
BaseRight(T, t, bs, v) ==
  /\ bs \in Blobs /\ Len(bs) = OwnSize(T, t)
  /\ IF v.kind = "int"
     THEN CRead(IF T[t].tag = "base" THEN T[t].encoding ELSE "unsigned", bs) = v.n
     ELSE bs = v.chars

\* A value of a base type is what C reads, if it is not refused.
LEMMA BaseBytes ==
  ASSUME NEW T, NEW t \in DOMAIN T, T[t].tag = "base", NEW v \in Value, FlatBase(T[t], v) # Fail
  PROVE  BaseRight(T, t, FlatBase(T[t], v), v)
<1> DEFINE e == T[t]
<1>1. e.encoding \in DOMAIN BaseSizes /\ e.byte_size \in BaseSizes[e.encoding]
  BY DEF FlatBase
<1>2. /\ e.byte_size \in Nat \ {0} /\ e.byte_size # None
      /\ e.encoding \in {"unsigned_char", "signed_char"} => e.byte_size = 1
  BY <1>1 DEF BaseSizes, None
<1>3. OwnSize(T, t) = e.byte_size
  BY <1>2 DEF OwnSize
<1>4. CASE v.kind \notin {"text", "bytes"}
  <2>1. FlatBase(e, v) = FlatInt(e.encoding, e.byte_size, v)
    BY <1>1, <1>4 DEF FlatBase
  <2> QED
    BY <2>1, <1>2, <1>3, IntRight DEF BaseRight
<1>5. CASE v.kind \in {"text", "bytes"}
  <2>1. /\ FlatBase(e, v) = FlatChar(v) /\ e.byte_size = 1
    BY <1>1, <1>2, <1>5 DEF FlatBase
  <2>2. Len(v.chars) = 1 /\ (v.kind = "text" => v.chars[1] < Byte \div 2) /\ FlatChar(v) = v.chars
    BY <2>1 DEF FlatChar
  <2>3. v.chars \in Blobs
    <3>1. CASE v.kind = "bytes"
      BY <3>1, ValueAssumption
    <3>2. CASE v.kind = "text"
      <4> DEFINE cs == v.chars
      <4> DEFINE B == 0..Byte - 1
      <4>1. cs \in Seq(Nat) /\ Len(cs) = 1 /\ cs[1] < Byte \div 2
        BY <3>2, <2>2, ValueAssumption
      <4> HIDE DEF cs
      <4>2. 1 \in 1..Len(cs) /\ cs[1] \in Nat
        <5>1. 1 \in 1..Len(cs)
          BY <4>1
        <5>2. cs[1] \in Nat
          BY <4>1, <5>1, ElementOfSeq
        <5> QED
          BY <5>1, <5>2
      <4>3. cs[1] \in B
        <5> DEFINE c == cs[1]
        <5>1. c \in Nat /\ c < Byte \div 2 /\ Byte \in Nat /\ Byte >= 2
          BY <4>1, <4>2, ByteAssumption
        <5> HIDE DEF c
        <5>2. Byte \div 2 <= Byte - 1 /\ Byte \div 2 \in Int
          BY <5>1
        <5>3. c \in 0..Byte - 1
          BY <5>1, <5>2
        <5> QED
          BY <5>3 DEF c
      <4> HIDE DEF B
      <4>4. cs \in Seq(B)
        <5>1. \A i \in 1..Len(cs) : cs[i] \in B
          BY <4>1, <4>3
        <5> QED
          BY <4>1, <5>1, Retyped
      <4> QED
        BY <4>4 DEF Blobs, B, cs
    <3> QED
      BY <3>1, <3>2, <1>5
  <2>4. v.kind # "int"
    BY <1>5
  <2> QED
    BY <2>1, <2>2, <2>3, <2>4, <1>3 DEF BaseRight
<1> QED
  BY <1>4, <1>5

\* A pointer is what C reads, if it is not refused.
LEMMA PointerBytes ==
  ASSUME NEW T, NEW t \in DOMAIN T, T[t].tag = "pointer", NEW v \in Value, FlatPointer(T[t], v) # Fail
  PROVE  BaseRight(T, t, FlatPointer(T[t], v), v)
<1>1. T[t].byte_size = None /\ FlatPointer(T[t], v) = FlatInt("unsigned", 8, v)
  BY DEF FlatPointer
<1>2. OwnSize(T, t) = 8 /\ 8 \in Nat \ {0}
  BY <1>1 DEF OwnSize
<1>3. /\ v.kind = "int" /\ FlatInt("unsigned", 8, v) \in Blobs
      /\ Len(FlatInt("unsigned", 8, v)) = 8 /\ CRead("unsigned", FlatInt("unsigned", 8, v)) = v.n
  BY <1>1, <1>2, IntRight
<1>4. T[t].tag # "base"
  OBVIOUS
<1> QED
  BY <1>1, <1>2, <1>3, <1>4 DEF BaseRight

\* Bytes that are zero.
LEMMA ZeroBytes ==
  ASSUME NEW n \in Nat
  PROVE  Zeros(n) \in Blobs /\ Len(Zeros(n)) = n /\ AllZero(Zeros(n)) /\ \A i \in 1..n : Zeros(n)[i] = 0
<1> DEFINE B == 0..Byte - 1
<1>1. 0 \in B
  BY ByteAssumption
<1> HIDE DEF B
<1>2. Zeros(n) \in Seq(B) /\ Len(Zeros(n)) = n /\ \A i \in 1..n : Zeros(n)[i] = 0
  BY <1>1 DEF Zeros
<1>3. AllZero(Zeros(n))
  BY DEF AllZero, Zeros
<1> QED
  BY <1>2, <1>3 DEF B, Blobs

-----------------------------------------------------------------------------
(* The levels of what is computed by recursion.                            *)

\* The levels of a recursion stay in the set of the first.
LEMMA LevelsTyped ==
  ASSUME NEW n \in Nat, NEW S, NEW f0 \in S, NEW W, \A g \in S : W[g] \in S,
         NEW c, c[0] = f0, \A k \in 1..n : c[k - 1] \in S => c[k] = W[c[k - 1]]
  PROVE  \A k \in 0..n : c[k] \in S
<1> DEFINE G == {k \in 0..n : c[k] \in S}
<1>1. 0 \in G
  OBVIOUS
<1>2. ASSUME NEW k \in 1..n, k - 1 \in G PROVE k \in G
  BY <1>2
<1> HIDE DEF G
<1>3. 0..n \subseteq G
  BY <1>1, <1>2, UpTo
<1> QED
  BY <1>3 DEF G

\* One level of sizes.
SizeStep(T, size) == [t \in DOMAIN T |-> SizeBy(T, size, t)]

\* A level of sizes has numbers, if the one below has.
LEMMA SizeStepTyped ==
  ASSUME NEW T, TableOK(T), NEW size \in [DOMAIN T -> Nat]
  PROVE  SizeStep(T, size) \in [DOMAIN T -> Nat]
<1> SUFFICES ASSUME NEW t \in DOMAIN T PROVE SizeBy(T, size, t) \in Nat
  BY DEF SizeStep
<1>1. OwnSize(T, t) \in Nat
  <2>1. T[t].byte_size \in (Nat \ {0}) \cup {None}
    BY DEF TableOK
  <2> QED
    BY <2>1 DEF OwnSize
<1>2. ASSUME BaseType(T, t) # None PROVE ArrayCount(T, t) * size[BaseType(T, t)] \in Nat
  <2>1. BaseType(T, t) \in DOMAIN T
    BY <1>2, BaseTypeHeld DEF TableOK
  <2>2. ArrayCount(T, t) \in Nat /\ size[BaseType(T, t)] \in Nat
    BY <2>1, CountTyped
  <2> QED
    BY <2>2
<1> QED
  BY <1>1, <1>2 DEF SizeBy

\* The levels of SizeOf.
LEMMA SizeLevels ==
  ASSUME NEW T, TableOK(T)
  PROVE  /\ SizeWithin(T)[0] = [t \in DOMAIN T |-> OwnSize(T, t)]
         /\ \A k \in 1..MaxNesting : SizeWithin(T)[k] = SizeStep(T, SizeWithin(T)[k - 1])
         /\ \A k \in 0..MaxNesting : SizeWithin(T)[k] \in [DOMAIN T -> Nat]
<1> DEFINE M == MaxNesting
<1> DEFINE S == [DOMAIN T -> Nat]
<1> DEFINE f0 == [t \in DOMAIN T |-> OwnSize(T, t)]
<1> DEFINE W == [g \in S |-> SizeStep(T, g)]
<1>1. M \in Nat /\ f0 \in S
  <2>1. \A t \in DOMAIN T : OwnSize(T, t) \in Nat
    BY DEF TableOK, OwnSize
  <2> QED
    BY <2>1, NestingAssumption
<1>2. \A g \in S : W[g] = SizeStep(T, g) /\ W[g] \in S
  BY SizeStepTyped
<1> DEFINE Solves(e) == e = [k \in 0..M |-> IF k = 0 THEN f0 ELSE SizeStep(T, e[k - 1])]
<1>3. SizeWithin(T) = CHOOSE e : Solves(e)
  BY DEF SizeWithin, SizeStep
<1> HIDE DEF S, f0, M, W
<1>4. PICK f : Levels(f, f0, W, M) /\ \A k \in 0..M : f[k] \in S
  BY <1>1, <1>2, LevelRecursion
<1>5. Solves(f)
  <2>1. f = [k \in 0..M |-> IF k = 0 THEN f0 ELSE W[f[k - 1]]]
    BY <1>4 DEF Levels
  <2>2. \A k \in 0..M : k # 0 => k - 1 \in 0..M
    BY <1>1
  <2>3. \A k \in 0..M : k # 0 => W[f[k - 1]] = SizeStep(T, f[k - 1])
    BY <2>2, <1>2, <1>4
  <2> QED
    BY <2>1, <2>3
<1>6. Solves(SizeWithin(T))
  <2>1. Solves(CHOOSE e : Solves(e))
    BY <1>5, Zenon
  <2> QED
    BY <1>3, <2>1
<1> DEFINE c == SizeWithin(T)
<1> HIDE DEF c
<1>7. c[0] = f0 /\ \A k \in 1..M : c[k] = SizeStep(T, c[k - 1])
  BY <1>6, <1>1 DEF c
<1> HIDE DEF Solves
<1>8. \A k \in 1..M : c[k - 1] \in S => c[k] = W[c[k - 1]]
  BY <1>2, <1>7
<1>9. \A k \in 0..M : c[k] \in S
  BY <1>1, <1>2, <1>7, <1>8, LevelsTyped
<1> QED
  BY <1>7, <1>9 DEF c, f0, S, M

\* What SizeOf is.
LEMMA SizeValues ==
  ASSUME NEW T, TableOK(T), NEW t \in DOMAIN T
  PROVE  /\ SizeOf(T, t) \in Nat
         /\ T[t].byte_size # None \/ T[t].tag # "array" => SizeOf(T, t) = OwnSize(T, t)
         /\ T[t].byte_size # None => SizeOf(T, t) = T[t].byte_size
         /\ T[t].byte_size = None /\ T[t].tag = "array" /\ BaseType(T, t) # None
              /\ T[BaseType(T, t)].byte_size # None
            => SizeOf(T, t) = ArrayCount(T, t) * T[BaseType(T, t)].byte_size
<1> DEFINE M == MaxNesting
<1>1. M \in 0..M /\ M \in 1..M /\ M - 1 \in 0..M
  BY NestingAssumption
<1> DEFINE g == SizeWithin(T)[M - 1]
<1>2. SizeOf(T, t) = SizeBy(T, g, t) /\ SizeOf(T, t) \in Nat
  <2>1. SizeWithin(T)[M] = SizeStep(T, g) /\ SizeWithin(T)[M] \in [DOMAIN T -> Nat]
    BY <1>1, SizeLevels
  <2> HIDE DEF g
  <2>2. SizeOf(T, t) = SizeWithin(T)[M][t]
    BY DEF SizeOf
  <2> QED
    BY <2>1, <2>2 DEF SizeStep
<1>3. T[t].byte_size # None \/ T[t].tag # "array" => SizeBy(T, g, t) = OwnSize(T, t)
  BY DEF SizeBy
<1>4. T[t].byte_size # None => OwnSize(T, t) = T[t].byte_size
  BY DEF OwnSize
<1>5. ASSUME NEW b \in DOMAIN T, T[b].byte_size # None
      PROVE  g[b] = T[b].byte_size
  <2>1. OwnSize(T, b) = T[b].byte_size
    BY <1>5 DEF OwnSize
  <2>2. CASE M - 1 = 0
    <3>1. g = [u \in DOMAIN T |-> OwnSize(T, u)]
      BY <2>2, SizeLevels
    <3> HIDE DEF g
    <3> QED
      BY <3>1, <2>1
  <2>3. CASE M - 1 # 0
    <3>1. M - 1 \in 1..M
      BY <1>1, <2>3
    <3>2. g = SizeStep(T, SizeWithin(T)[M - 1 - 1])
      BY <3>1, SizeLevels
    <3> HIDE DEF g
    <3>3. g[b] = SizeBy(T, SizeWithin(T)[M - 1 - 1], b)
      BY <3>2 DEF SizeStep
    <3> QED
      BY <3>3, <2>1, <1>5 DEF SizeBy
  <2> QED
    BY <2>2, <2>3
<1>6. ASSUME T[t].byte_size = None, T[t].tag = "array", BaseType(T, t) # None,
             T[BaseType(T, t)].byte_size # None
      PROVE  SizeOf(T, t) = ArrayCount(T, t) * T[BaseType(T, t)].byte_size
  <2>1. BaseType(T, t) \in DOMAIN T
    BY <1>6, BaseTypeHeld DEF TableOK
  <2>2. g[BaseType(T, t)] = T[BaseType(T, t)].byte_size
    BY <2>1, <1>5, <1>6
  <2>3. SizeBy(T, g, t) = ArrayCount(T, t) * g[BaseType(T, t)]
    BY <1>6 DEF SizeBy
  <2> HIDE DEF g
  <2> QED
    BY <1>2, <2>2, <2>3
<1> HIDE DEF g
<1> QED
  BY <1>2, <1>3, <1>4, <1>6

-----------------------------------------------------------------------------
(* Arrays.                                                                 *)

\* What the levels below yield: blobs, and those of a type have its size.
FlatSized(T, flat) ==
  /\ flat \in [(DOMAIN T) \X Value -> Blobs]
  /\ \A u \in DOMAIN T, w \in Value : flat[<<u, w>>] # Fail => Len(flat[<<u, w>>]) = SizeOf(T, u)

\* In the bytes of an array, its entries are where C looks for them.
ArrayRight(T, flat, t, bs, v) ==
  LET b == BaseType(T, t) IN
  /\ b \in DOMAIN T /\ bs \in Blobs /\ Len(bs) = SizeOf(T, t)
  /\ Iterable(v) /\ Items(v) \in Seq(Value) /\ Len(Items(v)) <= ArrayCount(T, t)
  /\ \A i \in 1..Len(Items(v)) :
       flat[<<b, Items(v)[i]>>] # Fail /\ EntryBytes(T, t, bs, i) = flat[<<b, Items(v)[i]>>]
  /\ \A i \in Len(Items(v)) + 1..ArrayCount(T, t) : AllZero(EntryBytes(T, t, bs, i))
  /\ T[b].name = "char" => Len(bs) > 0 /\ bs[Len(bs)] = 0

\* An array of which nothing is refused.
ArrayFits(T, flat, t, v) ==
  LET b == BaseType(T, t)
      blobs == [i \in DOMAIN Items(v) |-> flat[<<b, Items(v)[i]>>]]
      blob == FlattenSeq(blobs)
      size == ArrayCount(T, t) * T[b].byte_size
  IN  /\ b # None /\ ArrayCount(T, t) # 0 /\ T[b].byte_size # None
      /\ Iterable(v) /\ ~(Len(Items(v)) > ArrayCount(T, t))
      /\ \A i \in DOMAIN blobs : blobs[i] # Fail
      /\ ~(T[b].name = "char" /\ Len(blob) = size /\ blob[Len(blob)] # 0)

\* What iterating over a value yields are values.
LEMMA ItemsTyped ==
  ASSUME NEW v \in Value, Iterable(v)
  PROVE  /\ Items(v) \in Seq(Value) /\ Len(Items(v)) \in Nat /\ DOMAIN Items(v) = 1..Len(Items(v))
         /\ \A i \in 1..Len(Items(v)) : Items(v)[i] \in Value
<1> DEFINE x == Items(v)
<1>1. x \in Seq(Value)
  BY ValueAssumption
<1> HIDE DEF x
<1>2. Len(x) \in Nat /\ DOMAIN x = 1..Len(x) /\ \A i \in 1..Len(x) : x[i] \in Value
  BY <1>1, LenProperties, ElementOfSeq
<1> QED
  BY <1>1, <1>2 DEF x

\* o[i] is where c blocks of the size n end.
BlockEnds(o, n, c) ==
  /\ o[0] = 0 /\ o[c] = c * n
  /\ \A i \in 0..c : o[i] \in Nat /\ o[i] = i * n /\ o[i] <= o[c]
  /\ \A i \in 1..c : i - 1 \in 0..c /\ o[i] = o[i - 1] + n /\ o[i - 1] = (i - 1) * n
  /\ \A h, i \in 0..c : h <= i => o[h] <= o[i]

\* There are such ends.
LEMMA Blocks ==
  ASSUME NEW n \in Nat, NEW c \in Nat
  PROVE  \E o : BlockEnds(o, n, c)
<1> DEFINE o == [i \in 0..c |-> i * n]
<1>1. 0 \in 0..c /\ c \in 0..c /\ 0 * n = 0
  OBVIOUS
<1>2. ASSUME NEW h \in 0..c, NEW i \in 0..c, h <= i PROVE h * n <= i * n /\ h * n \in Nat
  <2>1. h \in Nat /\ i \in Nat
    OBVIOUS
  <2> QED
    BY <2>1, <1>2, BlocksAscend
<1>3. \A i \in 0..c : i <= i /\ i <= c
  OBVIOUS
<1>4. ASSUME NEW i \in 1..c PROVE i - 1 \in 0..c /\ i * n = (i - 1) * n + n
  OBVIOUS
<1>5. \A i \in 0..c : o[i] = i * n
  OBVIOUS
<1> HIDE DEF o
<1>6. o[0] = 0 /\ o[c] = c * n
  BY <1>1, <1>5
<1>7. \A i \in 0..c : o[i] \in Nat /\ o[i] = i * n /\ o[i] <= o[c]
  BY <1>1, <1>2, <1>3, <1>5
<1>8. \A i \in 1..c : i - 1 \in 0..c /\ o[i] = o[i - 1] + n /\ o[i - 1] = (i - 1) * n
  <2> SUFFICES ASSUME NEW i \in 1..c
               PROVE  i - 1 \in 0..c /\ o[i] = o[i - 1] + n /\ o[i - 1] = (i - 1) * n
    OBVIOUS
  <2>1. i \in 0..c /\ i - 1 \in 0..c
    OBVIOUS
  <2>2. o[i] = i * n /\ o[i - 1] = (i - 1) * n
    BY <2>1, <1>5
  <2> QED
    BY <2>1, <2>2, <1>4
<1>9. \A h, i \in 0..c : h <= i => o[h] <= o[i]
  BY <1>2, <1>5
<1> QED
  BY <1>6, <1>7, <1>8, <1>9 DEF BlockEnds

\* The bytes of an array that is not refused: the entries one after another,
\* zeros behind them, and a terminator if it is a string.
LEMMA ArrayParts ==
  ASSUME NEW T, TableOK(T), ArraysOK(T), NEW t \in DOMAIN T, T[t].tag = "array",
         NEW flat, FlatSized(T, flat), NEW v \in Value,
         FlatArray(T, flat, t, v) # Fail \/ ArrayFits(T, flat, t, v)
  PROVE  ArrayRight(T, flat, t, FlatArray(T, flat, t, v), v)
<1> DEFINE b == BaseType(T, t)
<1> DEFINE xs == Items(v)
<1> DEFINE m == Len(xs)
<1> DEFINE c == ArrayCount(T, t)
<1> DEFINE n == T[b].byte_size
<1> DEFINE es == [i \in DOMAIN xs |-> flat[<<b, xs[i]>>]]
<1> DEFINE blob == FlattenSeq(es)
<1> DEFINE bs == FlatArray(T, flat, t, v)
<1>1. /\ b # None /\ c # 0 /\ n # None /\ Iterable(v) /\ ~(m > c)
      /\ \A i \in DOMAIN es : es[i] # Fail
      /\ ~(T[b].name = "char" /\ Len(blob) = c * n /\ blob[Len(blob)] # 0)
      /\ bs = blob \o Zeros(c * n - Len(blob))
  BY DEF FlatArray, ArrayFits
<1>2. b \in DOMAIN T
  BY <1>1, BaseTypeHeld DEF TableOK
<1>3. n \in Nat \ {0} /\ SizeOf(T, b) = n
  <2>1. n \in Nat \ {0}
    BY <1>1, <1>2 DEF TableOK
  <2>2. SizeOf(T, b) = n
    BY <1>1, <1>2, SizeValues
  <2> QED
    BY <2>1, <2>2
<1>4. xs \in Seq(Value) /\ m \in Nat /\ DOMAIN xs = 1..m /\ \A i \in 1..m : xs[i] \in Value
  BY <1>1, ItemsTyped
<1>5. c \in Nat
  BY CountTyped
<1>6. SizeOf(T, t) = c * n
  <2>1. CASE T[t].byte_size = None
    BY <2>1, <1>1, SizeValues
  <2>2. CASE T[t].byte_size # None
    <3>1. T[t].byte_size = c * SizeOf(T, b)
      BY <2>2, <1>1 DEF ArraysOK
    <3>2. SizeOf(T, t) = T[t].byte_size
      BY <2>2, SizeValues
    <3> QED
      BY <3>1, <3>2, <1>3
  <2> QED
    BY <2>1, <2>2
<1>7. es = [i \in 1..m |-> flat[<<b, xs[i]>>]]
  BY <1>4
<1> HIDE DEF b, m, n, c, xs, bs
<1>8. \A i \in 1..m : /\ es[i] = flat[<<b, xs[i]>>] /\ es[i] \in Blobs /\ es[i] # Fail
                      /\ Len(es[i]) = n
  <2> SUFFICES ASSUME NEW i \in 1..m
               PROVE  /\ es[i] = flat[<<b, xs[i]>>] /\ es[i] \in Blobs /\ es[i] # Fail
                      /\ Len(es[i]) = n
    OBVIOUS
  <2>1. es[i] = flat[<<b, xs[i]>>]
    BY <1>7
  <2>2. es[i] # Fail
    BY <1>1, <1>7
  <2>3. flat[<<b, xs[i]>>] \in Blobs /\ Len(flat[<<b, xs[i]>>]) = SizeOf(T, b)
    BY <2>1, <2>2, <1>2, <1>4 DEF FlatSized
  <2> QED
    BY <2>1, <2>2, <2>3, <1>3
<1> DEFINE B == 0..Byte - 1
<1>9. es \in Seq(Seq(B)) /\ Len(es) = m
  <2> DEFINE U == Seq(B)
  <2>1. \A i \in 1..m : es[i] \in U
    BY <1>8 DEF Blobs
  <2>2. es = [i \in 1..m |-> es[i]]
    BY <1>7
  <2> HIDE DEF U, es
  <2>3. es \in Seq(U) /\ Len(es) = m
    BY <2>1, <2>2, <1>4
  <2> QED
    BY <2>3 DEF U
<1>10. m <= c /\ c \in Nat \ {0}
  BY <1>1, <1>4, <1>5
<1>11. PICK o : BlockEnds(o, n, c)
  BY <1>3, <1>5, Blocks
<1>12. /\ o[0] = 0 /\ o[c] = c * n
       /\ \A i \in 0..c : o[i] \in Nat /\ o[i] = i * n /\ o[i] <= o[c]
       /\ \A i \in 1..c : i - 1 \in 0..c /\ o[i] = o[i - 1] + n /\ o[i - 1] = (i - 1) * n
       /\ \A h, i \in 0..c : h <= i => o[h] <= o[i]
  BY <1>11 DEF BlockEnds
<1> HIDE DEF es, B
<1>23. Offsets(o, es)
  <2>1. \A i \in 1..m : i \in 1..c
    BY <1>4, <1>10
  <2> QED
    BY <2>1, <1>8, <1>9, <1>12 DEF Offsets
<1>13. /\ blob \in Seq(B) /\ Len(blob) = o[m]
       /\ \A i \in 1..m : \A j \in 1..Len(es[i]) : blob[o[i - 1] + j] = es[i][j]
  <2>1. InRow(es, o, B)
    BY <1>9, <1>23, FlattenAt
  <2> QED
    BY <2>1, <1>9 DEF InRow
<1> DEFINE size == o[c]
<1> DEFINE full == o[m]
<1>14. size \in Nat /\ full \in Nat /\ full <= size /\ size = c * n /\ size > 0
  <2>1. m \in 0..c /\ c \in 0..c /\ 1 \in 0..c /\ 1 <= c /\ 1 \in 1..c
    BY <1>4, <1>10
  <2>2. o[1] <= o[c] /\ o[1] = o[0] + n
    <3>1. 1 - 1 = 0
      OBVIOUS
    <3>2. \A h : h = 1 - 1 => o[1] = o[h] + n
      BY <2>1, <1>12
    <3> QED
      BY <2>1, <3>1, <3>2, <1>12
  <2>3. o[m] \in Nat /\ o[c] \in Nat /\ o[m] <= o[c]
    BY <2>1, <1>12
  <2> QED
    BY <2>2, <2>3, <1>3, <1>12
<1> DEFINE z == Zeros(size - full)
<1>15. /\ z \in Seq(B) /\ Len(z) = size - full /\ \A i \in 1..size - full : z[i] = 0
  <2>1. size - full \in Nat
    BY <1>14
  <2> QED
    BY <2>1, ZeroBytes DEF Blobs, B
<1>16. bs = blob \o z
  BY <1>1, <1>13, <1>14
<1> HIDE DEF blob, z
<1>17. /\ bs \in Seq(B) /\ Len(bs) = size
       /\ \A p \in 1..size : bs[p] = IF p <= full THEN blob[p] ELSE 0
  <2>1. /\ blob \o z \in Seq(B) /\ Len(blob \o z) = Len(blob) + Len(z)
        /\ \A p \in 1..Len(blob) + Len(z) :
             (blob \o z)[p] = IF p <= Len(blob) THEN blob[p] ELSE z[p - Len(blob)]
    BY <1>13, <1>15, ConcatProperties
  <2> HIDE DEF size, full
  <2>2. Len(blob) = full /\ Len(blob) + Len(z) = size
    BY <1>13, <1>14, <1>15 DEF full
  <2>3. bs \in Seq(B) /\ Len(bs) = size
    BY <2>1, <2>2, <1>16
  <2>4. ASSUME NEW p \in 1..size PROVE bs[p] = IF p <= full THEN blob[p] ELSE 0
    <3>1. bs[p] = IF p <= full THEN blob[p] ELSE z[p - full]
      BY <2>1, <2>2, <1>16
    <3>2. CASE p <= full
      BY <3>1, <3>2
    <3>3. CASE ~(p <= full)
      <4>1. p - full \in 1..size - full
        BY <3>3, <1>14
      <4> QED
        BY <3>1, <3>3, <4>1, <1>15
    <3> QED
      BY <3>2, <3>3
  <2> QED
    BY <2>3, <2>4
<1> HIDE DEF size, full
\* The bytes of an entry.
<1>18. ASSUME NEW i \in 1..c
       PROVE  /\ EntryBytes(T, t, bs, i) \in Seq(B) /\ Len(EntryBytes(T, t, bs, i)) = n
              /\ \A j \in 1..n : /\ o[i - 1] + j \in 1..size
                                 /\ EntryBytes(T, t, bs, i)[j] = bs[o[i - 1] + j]
  <2> DEFINE lo == o[i - 1]
  <2> DEFINE hi == o[i]
  <2>1. lo \in Nat /\ hi = lo + n /\ hi <= size /\ lo = (i - 1) * n /\ hi = i * n
    <3>1. i \in 0..c /\ i - 1 \in 0..c
      BY <1>5
    <3> QED
      BY <3>1, <1>12 DEF size
  <2>2. EntryBytes(T, t, bs, i) = SubSeq(bs, lo + 1, hi)
    <3>1. EntryBytes(T, t, bs, i) = SubSeq(bs, (i - 1) * SizeOf(T, b) + 1, i * SizeOf(T, b))
      BY DEF EntryBytes, b
    <3> QED
      BY <3>1, <2>1, <1>3
  <2> HIDE DEF lo, hi
  <2>3. \A j \in lo + 1..hi : j \in 1..size /\ bs[j] \in B
    <3>1. \A j \in lo + 1..hi : j \in 1..size
      BY <2>1, <1>3, <1>14
    <3> QED
      BY <3>1, <1>17, ElementOfSeq
  <2>4. lo + 1 \in Int /\ hi \in Int
    BY <2>1, <1>3
  <2>5. /\ SubSeq(bs, lo + 1, hi) \in Seq(B)
        /\ Len(SubSeq(bs, lo + 1, hi)) = IF lo + 1 <= hi THEN hi - (lo + 1) + 1 ELSE 0
        /\ \A j \in 1..hi - (lo + 1) + 1 : SubSeq(bs, lo + 1, hi)[j] = bs[lo + 1 + j - 1]
    BY <2>3, <2>4, SubSeqProperties
  <2>6. hi - (lo + 1) + 1 = n /\ lo + 1 <= hi
    BY <2>1, <1>3
  <2>7. \A j \in 1..n : lo + j \in 1..size /\ lo + 1 + j - 1 = lo + j
    BY <2>1, <1>3, <1>14
  <2>8. \A j \in 1..n : SubSeq(bs, lo + 1, hi)[j] = bs[lo + j]
    BY <2>5, <2>6, <2>7
  <2> QED
    BY <2>2, <2>5, <2>6, <2>7, <2>8 DEF lo
<1>19. ASSUME NEW i \in 1..m
       PROVE  flat[<<b, xs[i]>>] # Fail /\ EntryBytes(T, t, bs, i) = flat[<<b, xs[i]>>]
  <2>1. i \in 1..c /\ i \in 0..c
    BY <1>4, <1>10
  <2>2. \A j \in 1..n : o[i - 1] + j <= full
    <3>1. i \in 0..c /\ m \in 0..c /\ i <= m /\ i - 1 \in 0..c
      BY <1>4, <1>10
    <3>2. o[i] <= full /\ o[i] = o[i - 1] + n /\ o[i - 1] \in Nat
      BY <3>1, <2>1, <1>12 DEF full
    <3> QED
      BY <3>2, <1>3, <1>14
  <2>3. \A j \in 1..n : EntryBytes(T, t, bs, i)[j] = es[i][j]
    <3> SUFFICES ASSUME NEW j \in 1..n PROVE EntryBytes(T, t, bs, i)[j] = es[i][j]
      OBVIOUS
    <3>1. EntryBytes(T, t, bs, i)[j] = bs[o[i - 1] + j] /\ o[i - 1] + j \in 1..size
      BY <2>1, <1>18
    <3>2. bs[o[i - 1] + j] = blob[o[i - 1] + j]
      BY <3>1, <2>2, <1>17
    <3>3. blob[o[i - 1] + j] = es[i][j]
      BY <1>8, <1>13
    <3> QED
      BY <3>1, <3>2, <3>3
  <2>4. es[i] \in Seq(B) /\ Len(es[i]) = n
    BY <1>8 DEF Blobs, B
  <2>5. EntryBytes(T, t, bs, i) = es[i]
    <3>1. EntryBytes(T, t, bs, i) \in Seq(B) /\ Len(EntryBytes(T, t, bs, i)) = Len(es[i])
      BY <2>1, <2>4, <1>18
    <3> QED
      BY <3>1, <2>3, <2>4, <1>3, SeqEqual
  <2> QED
    BY <2>5, <1>8
<1>20. ASSUME NEW i \in m + 1..c
       PROVE  AllZero(EntryBytes(T, t, bs, i))
  <2>1. i \in 1..c
    BY <1>4
  <2> DEFINE eb == EntryBytes(T, t, bs, i)
  <2>2. eb \in Seq(B) /\ Len(eb) = n
    BY <2>1, <1>18
  <2>3. DOMAIN eb = 1..n
    BY <2>2, LenProperties
  <2>4. ASSUME NEW j \in 1..n PROVE eb[j] = 0
    <3>1. eb[j] = bs[o[i - 1] + j] /\ o[i - 1] + j \in 1..size
      BY <2>1, <1>18
    <3>2. full <= o[i - 1] /\ o[i - 1] \in Nat
      <4>1. m \in 0..c /\ i - 1 \in 0..c /\ m <= i - 1
        BY <1>4, <1>10
      <4> QED
        BY <4>1, <1>12 DEF full
    <3>3. ~(o[i - 1] + j <= full)
      <4> DEFINE y == o[i - 1]
      <4>1. y \in Nat /\ full <= y
        BY <3>2
      <4> HIDE DEF y
      <4>2. ~(y + j <= full)
        BY <4>1, <1>3, <1>14
      <4> QED
        BY <4>2 DEF y
    <3> QED
      BY <3>1, <3>3, <1>17
  <2> HIDE DEF eb
  <2>5. AllZero(eb)
    BY <2>3, <2>4 DEF AllZero
  <2> QED
    BY <2>5 DEF eb
<1>21. ASSUME T[b].name = "char" PROVE Len(bs) > 0 /\ bs[Len(bs)] = 0
  <2>1. size \in 1..size
    BY <1>14
  <2>2. bs[size] = IF size <= full THEN blob[size] ELSE 0
    BY <2>1, <1>17
  <2>3. ASSUME size <= full PROVE blob[size] = 0
    <3>1. Len(blob) = c * n /\ Len(blob) = size
      BY <2>3, <1>13, <1>14 DEF full
    <3> QED
      BY <3>1, <1>1, <1>21
  <2> QED
    BY <2>2, <2>3, <1>14, <1>17
<1>22. bs \in Blobs /\ Len(bs) = SizeOf(T, t)
  BY <1>17, <1>14, <1>6 DEF Blobs, B
<1> QED
  BY <1>1, <1>2, <1>4, <1>10, <1>19, <1>20, <1>21, <1>22 DEF ArrayRight, b, xs, m, c, bs

-----------------------------------------------------------------------------
(* Structs.                                                                *)

\* Between which of the ends a place is.
LEMMA Between ==
  ASSUME NEW n \in Nat, NEW off, off[0] = 0, \A i \in 0..n : off[i] \in Nat, NEW p \in 1..off[n]
  PROVE  \E i \in 1..n : off[i - 1] < p /\ p <= off[i]
<1> DEFINE S == {i \in 0..n : p <= off[i]}
<1>1. n \in S /\ S \subseteq Nat
  OBVIOUS
<1>2. PICK i \in S : \A j \in S : i <= j
  <2> HIDE DEF S
  <2> QED
    BY <1>1, LeastNat
<1>3. i # 0 /\ i \in 0..n /\ p <= off[i]
  BY <1>2
<1>4. i \in 1..n /\ i - 1 \in 0..n
  BY <1>3
<1>5. i - 1 \notin S
  BY <1>2, <1>4
<1>6. off[i - 1] < p
  BY <1>4, <1>5
<1> QED
  BY <1>3, <1>4, <1>6

\* In the bytes of a struct, its members are where C looks for them, and the
\* rest is zero.
StructRight(T, flat, t, bs, v) ==
  /\ bs \in Blobs /\ Len(bs) = SizeOf(T, t)
  /\ \A m \in MembersOf(T, t) :
       LET w == v.fields[T[m].name] IN
       /\ m \in DOMAIN T /\ BaseType(T, m) \in DOMAIN T /\ w \in Value
       /\ flat[<<BaseType(T, m), w>>] # Fail
       /\ MemberBytes(T, m, bs) = flat[<<BaseType(T, m), w>>]
  /\ \A i \in DOMAIN bs : (\A m \in MembersOf(T, t) : i \notin Extent(T, m)) => bs[i] = 0

\* A struct of which nothing is refused.
StructFits(T, flat, t, v) ==
  LET n == Len(T[t].members)
      start(i) == T[ByLocation(T, t)[i]].data_member_location
      blobs == MemberBlobs(T, flat, t, v)
      end(i) == IF i = 0 THEN 0 ELSE start(i) + Len(blobs[i])
  IN  /\ FieldsMatch(T, t, v)
      /\ \A i \in 1..n : blobs[i] # Fail /\ ~(end(i - 1) > start(i))
      /\ ~(end(n) > T[t].byte_size)

\* The i-th member, by its place, and its blob.
MemberAt(T, flat, t, v, i) ==
  LET m == ByLocation(T, t)[i]
      w == v.fields[T[m].name]
      blob == MemberBlobs(T, flat, t, v)[i]
  IN  /\ m \in DOMAIN T /\ BaseType(T, m) \in DOMAIN T /\ w \in Value
      /\ T[m].data_member_location \in Nat
      /\ blob = flat[<<BaseType(T, m), w>>]
      /\ blob \in Blobs /\ Len(blob) = SizeOf(T, BaseType(T, m)) /\ Len(blob) \in Nat

\* The places of the members of a struct that is not refused.
LEMMA MemberFacts ==
  ASSUME NEW T, TableOK(T), NEW t \in DOMAIN T, NEW flat, FlatSized(T, flat),
         NEW v \in Value, FieldsMatch(T, t, v), NEW i \in 1..Len(T[t].members),
         MemberBlobs(T, flat, t, v)[i] # Fail
  PROVE  MemberAt(T, flat, t, v, i)
<1> DEFINE ms == ByLocation(T, t)
<1> DEFINE m == ms[i]
<1> DEFINE w == v.fields[T[m].name]
<1> DEFINE blob == MemberBlobs(T, flat, t, v)[i]
<1>1. i \in DOMAIN ms /\ m \in MembersOf(T, t) /\ m \in DOMAIN T
  BY LocationOrder
<1>2. blob = IF BaseType(T, m) = None THEN Fail ELSE flat[<<BaseType(T, m), w>>]
  BY <1>1 DEF MemberBlobs
<1>3. BaseType(T, m) # None
  BY <1>2
<1>4. BaseType(T, m) \in DOMAIN T
  BY <1>1, <1>3, BaseTypeHeld DEF TableOK
<1>5. PICK j \in DOMAIN T[t].members : m = T[t].members[j]
  BY <1>1 DEF MembersOf
<1>6. T[m].name \in DOMAIN v.fields /\ v.kind = "config" /\ T[m].data_member_location # None
  BY <1>5 DEF FieldsMatch, Located
<1>7. w \in Value
  BY <1>6, ValueAssumption
<1>8. T[m].data_member_location \in Nat
  BY <1>1, <1>6 DEF TableOK
<1> DEFINE b == BaseType(T, m)
<1> HIDE DEF m, w, b, blob
<1>9. blob = flat[<<b, w>>] /\ b \in DOMAIN T
  BY <1>2, <1>3, <1>4 DEF b
<1>10. blob # Fail
  BY DEF blob
<1>11. blob \in Blobs /\ Len(blob) = SizeOf(T, b)
  BY <1>7, <1>9, <1>10 DEF FlatSized
<1>12. Len(blob) \in Nat
  BY <1>11, <1>9, SizeValues
<1> QED
  BY <1>1, <1>4, <1>7, <1>8, <1>9, <1>11, <1>12 DEF MemberAt, m, w, b, blob

\* The bytes of a struct that is not refused: members at their places, zeros
\* between and behind them.
LEMMA StructParts ==
  ASSUME NEW T, TableOK(T), NEW t \in DOMAIN T, T[t].tag = "structure",
         NEW flat, FlatSized(T, flat), NEW v \in Value,
         FlatStruct(T, flat, t, v) # Fail \/ StructFits(T, flat, t, v)
  PROVE  StructRight(T, flat, t, FlatStruct(T, flat, t, v), v)
<1> DEFINE n == Len(T[t].members)
<1> DEFINE start(i) == T[ByLocation(T, t)[i]].data_member_location
<1> DEFINE blobs == MemberBlobs(T, flat, t, v)
<1> DEFINE end(i) == IF i = 0 THEN 0 ELSE start(i) + Len(blobs[i])
<1> DEFINE es == [i \in 1..n |-> Zeros(start(i) - end(i - 1)) \o blobs[i]]
<1> DEFINE size == T[t].byte_size
<1> DEFINE F == FlattenSeq(es)
<1> DEFINE bs == FlatStruct(T, flat, t, v)
<1> DEFINE B == 0..Byte - 1
<1>1. /\ FieldsMatch(T, t, v)
      /\ \A i \in 1..n : blobs[i] # Fail /\ ~(end(i - 1) > start(i))
      /\ ~(end(n) > size)
      /\ bs = F \o Zeros(size - end(n))
  BY DEF FlatStruct, StructFits
<1>2. n \in Nat
  BY MembersFacts
<1> DEFINE at == [i \in 1..n |-> start(i)]
<1> DEFINE off == [i \in 0..n |-> end(i)]
<1>3. \A i \in 1..n : /\ at[i] \in Nat /\ at[i] = T[ByLocation(T, t)[i]].data_member_location
                      /\ Len(blobs[i]) \in Nat /\ blobs[i] \in Blobs
  <2> SUFFICES ASSUME NEW i \in 1..n
               PROVE  /\ at[i] \in Nat /\ at[i] = T[ByLocation(T, t)[i]].data_member_location
                      /\ Len(blobs[i]) \in Nat /\ blobs[i] \in Blobs
    OBVIOUS
  <2>1. at[i] = T[ByLocation(T, t)[i]].data_member_location
    OBVIOUS
  <2>2. blobs[i] # Fail
    BY <1>1
  <2>3. MemberAt(T, flat, t, v, i)
    BY <2>2, <1>1, MemberFacts
  <2> HIDE DEF at
  <2> QED
    BY <2>1, <2>3 DEF MemberAt
<1>4. \A i \in 1..n : off[i] = at[i] + Len(blobs[i])
  BY <1>2
<1>5. off[0] = 0 /\ \A i \in 0..n : off[i] = end(i)
  BY <1>2
<1>6. \A i \in 1..n : i - 1 \in 0..n /\ at[i] = start(i)
  BY <1>2
<1>7. \A i \in 1..n : es[i] = Zeros(at[i] - off[i - 1]) \o blobs[i]
  BY <1>5, <1>6
<1>8. DOMAIN es = 1..n /\ es = [i \in 1..n |-> es[i]]
  OBVIOUS
<1>9. \A i \in 1..n : ~(off[i - 1] > at[i])
  BY <1>1, <1>5, <1>6
<1>10. ~(off[n] > size) /\ bs = F \o Zeros(size - off[n])
  <2>1. n \in 0..n
    BY <1>2
  <2>2. off[n] = end(n)
    BY <2>1, <1>5
  <2> HIDE DEF off, end, bs, F, n
  <2> QED
    BY <2>2, <1>1
<1> HIDE DEF es, at, off, B, bs, end, start, blobs, n
<1>11. \A i \in 0..n : off[i] \in Nat
  <2> SUFFICES ASSUME NEW i \in 0..n PROVE off[i] \in Nat
    OBVIOUS
  <2>1. CASE i = 0
    BY <2>1, <1>5
  <2>2. CASE i # 0
    <3>1. i \in 1..n
      BY <2>2
    <3> QED
      BY <3>1, <1>3, <1>4
  <2> QED
    BY <2>1, <2>2
\* The gap in front of a member.
<1>12. ASSUME NEW i \in 1..n
       PROVE  /\ i - 1 \in 0..n /\ off[i - 1] \in Nat /\ at[i] - off[i - 1] \in Nat
              /\ es[i] \in Seq(B) /\ Len(es[i]) = (at[i] - off[i - 1]) + Len(blobs[i])
              /\ \A j \in 1..(at[i] - off[i - 1]) + Len(blobs[i]) :
                   es[i][j] = IF j <= at[i] - off[i - 1] THEN 0
                              ELSE blobs[i][j - (at[i] - off[i - 1])]
  <2> DEFINE g == at[i] - off[i - 1]
  <2> DEFINE bl == blobs[i]
  <2>1. i - 1 \in 0..n /\ off[i - 1] \in Nat
    BY <1>2, <1>11
  <2>2. g \in Nat
    BY <2>1, <1>3, <1>9
  <2>3. bl \in Seq(B) /\ Len(bl) \in Nat
    BY <1>3 DEF Blobs, B
  <2> HIDE DEF g, bl
  <2>4. Zeros(g) \in Seq(B) /\ Len(Zeros(g)) = g /\ \A j \in 1..g : Zeros(g)[j] = 0
    BY <2>2, ZeroBytes DEF Blobs, B
  <2>5. /\ Zeros(g) \o bl \in Seq(B) /\ Len(Zeros(g) \o bl) = Len(Zeros(g)) + Len(bl)
        /\ \A j \in 1..Len(Zeros(g)) + Len(bl) :
             (Zeros(g) \o bl)[j] = IF j <= Len(Zeros(g)) THEN Zeros(g)[j] ELSE bl[j - Len(Zeros(g))]
    BY <2>3, <2>4, ConcatProperties
  <2>6. es[i] = Zeros(g) \o bl
    BY <1>7 DEF g, bl
  <2>7. es[i] \in Seq(B) /\ Len(es[i]) = g + Len(bl)
    BY <2>4, <2>5, <2>6
  <2>8. \A j \in 1..g + Len(bl) : es[i][j] = IF j <= g THEN 0 ELSE bl[j - g]
    <3> SUFFICES ASSUME NEW j \in 1..g + Len(bl) PROVE es[i][j] = IF j <= g THEN 0 ELSE bl[j - g]
      OBVIOUS
    <3>1. es[i][j] = IF j <= g THEN Zeros(g)[j] ELSE bl[j - g]
      BY <2>4, <2>5, <2>6
    <3>2. j <= g => j \in 1..g
      BY <2>2, <2>3
    <3> QED
      BY <3>1, <3>2, <2>4
  <2> QED
    BY <2>1, <2>2, <2>7, <2>8 DEF g, bl
<1>13. es \in Seq(Seq(B)) /\ Len(es) = n
  <2> DEFINE U == Seq(B)
  <2>1. \A i \in 1..n : es[i] \in U
    BY <1>12
  <2> HIDE DEF U
  <2>2. es \in Seq(U) /\ Len(es) = n
    BY <2>1, <1>2, <1>8
  <2> QED
    BY <2>2 DEF U
<1>14. Offsets(off, es)
  <2>1. ASSUME NEW i \in 1..n PROVE off[i] = off[i - 1] + Len(es[i])
    <3> DEFINE x == off[i - 1]
    <3> DEFINE y == at[i]
    <3> DEFINE z == Len(blobs[i])
    <3>1. x \in Nat /\ y \in Nat /\ z \in Nat /\ Len(es[i]) = (y - x) + z /\ off[i] = y + z
      BY <1>3, <1>4, <1>12
    <3> HIDE DEF x, y, z
    <3>2. off[i] = x + Len(es[i])
      BY <3>1
    <3> QED
      BY <3>2 DEF x
  <2> QED
    BY <2>1, <1>5, <1>13 DEF Offsets
<1>15. InRow(es, off, B)
  BY <1>13, <1>14, FlattenAt
<1> DEFINE full == off[n]
<1>16. /\ F \in Seq(B) /\ Len(F) = full /\ full \in Nat
       /\ \A i \in 0..n : off[i] <= full
       /\ \A i \in 1..n : \A j \in 1..Len(es[i]) : F[off[i - 1] + j] = es[i][j]
  <2>1. n \in 0..n
    BY <1>2
  <2> QED
    BY <2>1, <1>11, <1>13, <1>15 DEF InRow
<1>17. size \in Nat /\ full <= size /\ SizeOf(T, t) = size
  <2>1. size \in Nat \cup {None}
    BY DEF TableOK
  <2>2. n \in 0..n
    BY <1>2
  <2>3. full \in Nat
    BY <2>2, <1>11
  <2>4. size # None
    BY <2>1, <2>3, <1>10 DEF None
  <2>5. SizeOf(T, t) = size
    BY <2>4, SizeValues
  <2> QED
    BY <2>1, <2>3, <2>4, <2>5, <1>10
<1> HIDE DEF F, size
<1> DEFINE z == Zeros(size - full)
<1>18. z \in Seq(B) /\ Len(z) = size - full /\ \A i \in 1..size - full : z[i] = 0
  <2>1. size - full \in Nat
    BY <1>16, <1>17
  <2> QED
    BY <2>1, ZeroBytes DEF Blobs, B
<1>19. bs = F \o z
  BY <1>10
<1> HIDE DEF z, full
<1>20. /\ bs \in Seq(B) /\ Len(bs) = size
       /\ \A p \in 1..size : bs[p] = IF p <= full THEN F[p] ELSE 0
  <2>1. /\ F \o z \in Seq(B) /\ Len(F \o z) = Len(F) + Len(z)
        /\ \A p \in 1..Len(F) + Len(z) : (F \o z)[p] = IF p <= Len(F) THEN F[p] ELSE z[p - Len(F)]
    <3>1. F \in Seq(B) /\ z \in Seq(B)
      BY <1>16, <1>18
    <3> QED
      BY <3>1, ConcatProperties
  <2>2. Len(F) = full /\ Len(F) + Len(z) = size
    BY <1>16, <1>17, <1>18
  <2>3. bs \in Seq(B) /\ Len(bs) = size
    BY <2>1, <2>2, <1>19
  <2>4. ASSUME NEW p \in 1..size PROVE bs[p] = IF p <= full THEN F[p] ELSE 0
    <3>1. bs[p] = IF p <= full THEN F[p] ELSE z[p - full]
      BY <2>1, <2>2, <1>19
    <3>2. CASE p <= full
      BY <3>1, <3>2
    <3>3. CASE ~(p <= full)
      <4>1. p - full \in 1..size - full
        BY <3>3, <1>16, <1>17
      <4> QED
        BY <3>1, <3>3, <4>1, <1>18
    <3> QED
      BY <3>2, <3>3
  <2> QED
    BY <2>3, <2>4
\* What is in front of a member, and in it.
<1>21. ASSUME NEW i \in 1..n
       PROVE  /\ \A p \in off[i - 1] + 1..at[i] : p \in 1..size /\ bs[p] = 0
              /\ \A j \in 1..Len(blobs[i]) : at[i] + j \in 1..size /\ bs[at[i] + j] = blobs[i][j]
  <2> DEFINE x == off[i - 1]
  <2> DEFINE y == at[i]
  <2> DEFINE l == Len(blobs[i])
  <2>1. /\ x \in Nat /\ y \in Nat /\ l \in Nat /\ y - x \in Nat /\ off[i] = y + l
        /\ Len(es[i]) = (y - x) + l /\ off[i] <= full
        /\ \A j \in 1..(y - x) + l : es[i][j] = IF j <= y - x THEN 0 ELSE blobs[i][j - (y - x)]
    <3>1. i \in 0..n
      BY <1>2
    <3> QED
      BY <3>1, <1>3, <1>4, <1>12, <1>16
  <2>2. \A j \in 1..(y - x) + l : F[x + j] = es[i][j]
    BY <2>1, <1>16
  <2> DEFINE o == off[i]
  <2>9. o = y + l /\ o <= full /\ full \in Nat /\ size \in Nat /\ full <= size
    BY <2>1, <1>16, <1>17
  <2> HIDE DEF x, y, l, o, full
  <2>3. ASSUME NEW j \in 1..(y - x) + l PROVE x + j \in 1..size /\ x + j <= full
    <3>1. x \in Nat /\ y \in Nat /\ l \in Nat
      BY <2>1
    <3> QED
      BY <3>1, <2>9
  <2>4. \A j \in 1..(y - x) + l : bs[x + j] = IF j <= y - x THEN 0 ELSE blobs[i][j - (y - x)]
    <3> SUFFICES ASSUME NEW j \in 1..(y - x) + l
                 PROVE  bs[x + j] = IF j <= y - x THEN 0 ELSE blobs[i][j - (y - x)]
      OBVIOUS
    <3>1. bs[x + j] = F[x + j]
      BY <2>3, <1>20
    <3> QED
      BY <3>1, <2>1, <2>2
  <2>5. ASSUME NEW p \in x + 1..y PROVE p \in 1..size /\ bs[p] = 0
    <3>1. p - x \in 1..(y - x) + l /\ p - x <= y - x /\ x + (p - x) = p
      BY <2>1
    <3> QED
      BY <3>1, <2>3, <2>4
  <2>6. ASSUME NEW j \in 1..l PROVE y + j \in 1..size /\ bs[y + j] = blobs[i][j]
    <3> DEFINE q == (y - x) + j
    <3>1. q \in 1..(y - x) + l /\ ~(q <= y - x) /\ q - (y - x) = j /\ x + q = y + j
      BY <2>1
    <3> HIDE DEF q
    <3>2. bs[x + q] = blobs[i][q - (y - x)]
      BY <3>1, <2>4
    <3> QED
      BY <3>1, <3>2, <2>3
  <2> QED
    BY <2>5, <2>6 DEF x, y, l
<1>22. ASSUME NEW m \in MembersOf(T, t)
       PROVE  LET w == v.fields[T[m].name] IN
              /\ m \in DOMAIN T /\ BaseType(T, m) \in DOMAIN T /\ w \in Value
              /\ flat[<<BaseType(T, m), w>>] # Fail
              /\ MemberBytes(T, m, bs) = flat[<<BaseType(T, m), w>>]
  <2>1. PICK i \in 1..n : ByLocation(T, t)[i] = m
    BY LocationOrder DEF n
  <2> DEFINE w == v.fields[T[m].name]
  <2> DEFINE b == BaseType(T, m)
  <2> DEFINE bl == blobs[i]
  <2>2. bl # Fail
    BY <1>1
  <2>3. /\ m \in DOMAIN T /\ b \in DOMAIN T /\ w \in Value
        /\ bl = flat[<<b, w>>] /\ bl \in Blobs /\ Len(bl) = SizeOf(T, b) /\ Len(bl) \in Nat
    <3>1. MemberAt(T, flat, t, v, i)
      BY <2>2, <1>1, MemberFacts DEF n, blobs
    <3> QED
      BY <3>1, <2>1 DEF MemberAt, blobs
  <2> DEFINE lo == at[i]
  <2> DEFINE hi == lo + Len(bl)
  <2>4. lo \in Nat /\ lo = T[m].data_member_location
    BY <2>1, <1>3
  <2>5. MemberBytes(T, m, bs) = SubSeq(bs, lo + 1, hi)
    BY <2>3, <2>4 DEF MemberBytes
  <2>6. \A j \in 1..Len(bl) : lo + j \in 1..size /\ bs[lo + j] = bl[j]
    BY <1>21
  <2>7. hi \in Int /\ hi - (lo + 1) + 1 = Len(bl)
    BY <2>3, <2>4
  <2> HIDE DEF lo, hi, bl, w, b
  <2>8. \A p \in lo + 1..hi : bs[p] \in B
    <3> SUFFICES ASSUME NEW p \in lo + 1..hi PROVE bs[p] \in B
      OBVIOUS
    <3>1. p - lo \in 1..Len(bl) /\ lo + (p - lo) = p
      BY <2>3, <2>4, <2>7
    <3>2. p \in 1..size
      BY <3>1, <2>6
    <3>3. p \in 1..Len(bs)
      BY <3>2, <1>20
    <3> QED
      BY <3>3, <1>20, ElementOfSeq
  <2>9. lo + 1 \in Int
    BY <2>4
  <2>10. /\ SubSeq(bs, lo + 1, hi) \in Seq(B)
         /\ Len(SubSeq(bs, lo + 1, hi)) = IF lo + 1 <= hi THEN hi - (lo + 1) + 1 ELSE 0
         /\ \A j \in 1..hi - (lo + 1) + 1 : SubSeq(bs, lo + 1, hi)[j] = bs[lo + 1 + j - 1]
    <3> DEFINE from == lo + 1
    <3>1. from \in Int /\ hi \in Int /\ \A p \in from..hi : bs[p] \in B
      BY <2>7, <2>8, <2>9
    <3> HIDE DEF from
    <3>2. /\ SubSeq(bs, from, hi) \in Seq(B)
          /\ Len(SubSeq(bs, from, hi)) = IF from <= hi THEN hi - from + 1 ELSE 0
          /\ \A j \in 1..hi - from + 1 : SubSeq(bs, from, hi)[j] = bs[from + j - 1]
      BY <3>1, SubSeqProperties
    <3> QED
      BY <3>2 DEF from
  <2>11. Len(SubSeq(bs, lo + 1, hi)) = Len(bl)
    <3> DEFINE s == Len(SubSeq(bs, lo + 1, hi))
    <3> DEFINE l == Len(bl)
    <3>1. /\ s = IF lo + 1 <= hi THEN hi - (lo + 1) + 1 ELSE 0
          /\ l \in Nat /\ lo \in Nat /\ hi \in Int /\ hi - (lo + 1) + 1 = l
      BY <2>3, <2>4, <2>7, <2>10
    <3> HIDE DEF s, l
    <3>2. s = l
      BY <3>1
    <3> QED
      BY <3>2 DEF s, l
  <2>12. ASSUME NEW j \in 1..Len(bl) PROVE SubSeq(bs, lo + 1, hi)[j] = bl[j]
    <3>1. SubSeq(bs, lo + 1, hi)[j] = bs[lo + 1 + j - 1]
      BY <2>7, <2>10
    <3>2. lo + 1 + j - 1 = lo + j
      BY <2>3, <2>4
    <3> QED
      BY <3>1, <3>2, <2>6
  <2>13. bl \in Seq(B)
    BY <2>3 DEF Blobs, B
  <2>14. SubSeq(bs, lo + 1, hi) = bl
    <3> DEFINE sub == SubSeq(bs, lo + 1, hi)
    <3>1. sub \in Seq(B) /\ Len(sub) = Len(bl) /\ \A j \in 1..Len(sub) : sub[j] = bl[j]
      BY <2>10, <2>11, <2>12
    <3> HIDE DEF sub
    <3>2. sub = bl
      BY <3>1, <2>13, SeqEqual
    <3> QED
      BY <3>2 DEF sub
  <2> QED
    BY <2>2, <2>3, <2>5, <2>14 DEF w, b, bl
<1>23. ASSUME NEW p \in DOMAIN bs, \A m \in MembersOf(T, t) : p \notin Extent(T, m)
       PROVE  bs[p] = 0
  <2>1. p \in 1..size
    BY <1>20, LenProperties
  <2>2. CASE p <= full
    <3>1. p \in 1..off[n]
      BY <2>1, <2>2, <1>16 DEF full
    <3>2. PICK i \in 1..n : off[i - 1] < p /\ p <= off[i]
      BY <3>1, <1>2, <1>5, <1>11, Between
    <3> DEFINE m == ByLocation(T, t)[i]
    <3>3. m \in MembersOf(T, t)
      BY LocationOrder DEF n
    <3>4. blobs[i] # Fail
      BY <1>1
    <3>5. Len(blobs[i]) = SizeOf(T, BaseType(T, m)) /\ Len(blobs[i]) \in Nat
      <4>1. MemberAt(T, flat, t, v, i)
        BY <3>4, <1>1, MemberFacts DEF n, blobs
      <4> QED
        BY <4>1 DEF MemberAt, blobs
    <3>6. at[i] = T[m].data_member_location /\ at[i] \in Nat
      BY <1>3
    <3>7. p \notin at[i] + 1..at[i] + Len(blobs[i])
      BY <3>3, <3>5, <3>6, <1>23 DEF Extent
    <3>8. off[i] = at[i] + Len(blobs[i]) /\ off[i - 1] \in Nat
      BY <1>4, <1>12
    <3> DEFINE l == Len(blobs[i])
    <3> DEFINE x == off[i - 1]
    <3> HIDE DEF m, l, x
    <3>9. l \in Nat /\ x \in Nat /\ x < p /\ p <= at[i] + l /\ p \notin at[i] + 1..at[i] + l
      BY <3>2, <3>5, <3>7, <3>8 DEF l, x
    <3>10. p \in x + 1..at[i]
      BY <3>9, <3>6, <2>1
    <3> QED
      BY <3>10, <1>21 DEF x
  <2>3. CASE ~(p <= full)
    BY <2>1, <2>3, <1>20
  <2> QED
    BY <2>2, <2>3
<1>24. bs \in Blobs /\ Len(bs) = SizeOf(T, t)
  BY <1>20, <1>17 DEF Blobs, B
<1> QED
  BY <1>22, <1>23, <1>24 DEF StructRight, bs

-----------------------------------------------------------------------------
(* The levels of the serialiser, and of what C reads.                      *)

\* One level of the serialiser: blobs of the size of their type.
LEMMA FlatByRight ==
  ASSUME NEW T, TableOK(T), ArraysOK(T), NEW t \in DOMAIN T,
         NEW flat, FlatSized(T, flat), NEW v \in Value
  PROVE  /\ FlatBy(T, flat, t, v) \in Blobs
         /\ FlatBy(T, flat, t, v) # Fail => Len(FlatBy(T, flat, t, v)) = SizeOf(T, t)
<1> DEFINE bs == FlatBy(T, flat, t, v)
<1> SUFFICES ASSUME bs # Fail PROVE bs \in Blobs /\ Len(bs) = SizeOf(T, t)
  BY FailTyped
<1>1. CASE v.kind = "empty"
  <2>1. T[t].byte_size # None /\ bs = Zeros(T[t].byte_size)
    BY <1>1 DEF FlatBy
  <2>2. T[t].byte_size \in Nat /\ SizeOf(T, t) = T[t].byte_size
    BY <2>1, SizeValues DEF TableOK
  <2> QED
    BY <2>1, <2>2, ZeroBytes
<1>2. CASE v.kind # "empty" /\ T[t].tag = "pointer"
  <2>1. bs = FlatPointer(T[t], v)
    BY <1>2 DEF FlatBy
  <2>2. BaseRight(T, t, bs, v)
    BY <2>1, <1>2, PointerBytes
  <2> QED
    BY <2>2, <1>2, SizeValues DEF BaseRight
<1>3. CASE v.kind # "empty" /\ T[t].tag = "base"
  <2>1. bs = FlatBase(T[t], v)
    BY <1>3 DEF FlatBy
  <2>2. BaseRight(T, t, bs, v)
    BY <2>1, <1>3, BaseBytes
  <2> QED
    BY <2>2, <1>3, SizeValues DEF BaseRight
<1>4. CASE v.kind # "empty" /\ T[t].tag = "array"
  <2>1. bs = FlatArray(T, flat, t, v)
    BY <1>4 DEF FlatBy
  <2>2. ArrayRight(T, flat, t, bs, v)
    BY <2>1, <1>4, ArrayParts
  <2> QED
    BY <2>2 DEF ArrayRight
<1>5. CASE v.kind # "empty" /\ T[t].tag = "structure"
  <2>1. bs = FlatStruct(T, flat, t, v)
    BY <1>5 DEF FlatBy
  <2>2. StructRight(T, flat, t, bs, v)
    BY <2>1, <1>5, StructParts
  <2> QED
    BY <2>2 DEF StructRight
<1>6. CASE v.kind # "empty" /\ T[t].tag \notin {"pointer", "base", "array", "structure"}
  BY <1>6 DEF FlatBy
<1> QED
  BY <1>1, <1>2, <1>3, <1>4, <1>5, <1>6

\* One level of the serialiser.
FlatStep(T, flat) == [p \in (DOMAIN T) \X Value |-> FlatBy(T, flat, p[1], p[2])]

\* The next level yields blobs of the size of their type.
LEMMA FlatStepSized ==
  ASSUME NEW T, TableOK(T), ArraysOK(T), NEW flat, FlatSized(T, flat)
  PROVE  FlatSized(T, FlatStep(T, flat))
<1>1. \A u \in DOMAIN T, w \in Value : FlatStep(T, flat)[<<u, w>>] = FlatBy(T, flat, u, w)
  BY DEF FlatStep
<1>2. \A u \in DOMAIN T, w \in Value :
        /\ FlatBy(T, flat, u, w) \in Blobs
        /\ FlatBy(T, flat, u, w) # Fail => Len(FlatBy(T, flat, u, w)) = SizeOf(T, u)
  BY FlatByRight
<1>3. FlatStep(T, flat) \in [(DOMAIN T) \X Value -> Blobs]
  BY <1>2 DEF FlatStep
<1> QED
  BY <1>1, <1>2, <1>3 DEF FlatSized

\* The levels of the serialiser.
LEMMA FlatLevels ==
  ASSUME NEW T, TableOK(T), ArraysOK(T)
  PROVE  /\ FlatWithin(T)[0] = [p \in (DOMAIN T) \X Value |-> Fail]
         /\ \A k \in 1..MaxNesting : FlatWithin(T)[k] = FlatStep(T, FlatWithin(T)[k - 1])
         /\ \A k \in 0..MaxNesting : FlatSized(T, FlatWithin(T)[k])
<1> DEFINE M == MaxNesting
<1> DEFINE S == {flat \in [(DOMAIN T) \X Value -> Blobs] : FlatSized(T, flat)}
<1> DEFINE f0 == [p \in (DOMAIN T) \X Value |-> Fail]
<1> DEFINE W == [g \in S |-> FlatStep(T, g)]
<1>1. M \in Nat /\ f0 \in S
  <2>1. f0 \in [(DOMAIN T) \X Value -> Blobs]
    BY FailTyped
  <2>2. FlatSized(T, f0)
    BY <2>1 DEF FlatSized
  <2> QED
    BY <2>1, <2>2, NestingAssumption
<1>2. \A g \in S : W[g] = FlatStep(T, g) /\ W[g] \in S
  <2> SUFFICES ASSUME NEW g \in S PROVE W[g] = FlatStep(T, g) /\ W[g] \in S
    OBVIOUS
  <2>1. FlatSized(T, FlatStep(T, g))
    BY FlatStepSized
  <2>2. FlatStep(T, g) \in S
    BY <2>1 DEF FlatSized
  <2> QED
    BY <2>2
<1> DEFINE Solves(e) == e = [k \in 0..M |-> IF k = 0 THEN f0 ELSE FlatStep(T, e[k - 1])]
<1>3. FlatWithin(T) = CHOOSE e : Solves(e)
  BY DEF FlatWithin, FlatStep
<1>10. \A g \in S : FlatSized(T, g)
  OBVIOUS
<1> HIDE DEF S, f0, M, W
<1>4. PICK f : Levels(f, f0, W, M) /\ \A k \in 0..M : f[k] \in S
  BY <1>1, <1>2, LevelRecursion
<1>5. Solves(f)
  <2>1. f = [k \in 0..M |-> IF k = 0 THEN f0 ELSE W[f[k - 1]]]
    BY <1>4 DEF Levels
  <2>2. \A k \in 0..M : k # 0 => k - 1 \in 0..M
    BY <1>1
  <2>3. \A k \in 0..M : k # 0 => W[f[k - 1]] = FlatStep(T, f[k - 1])
    BY <2>2, <1>2, <1>4
  <2> QED
    BY <2>1, <2>3
<1>6. Solves(FlatWithin(T))
  <2>1. Solves(CHOOSE e : Solves(e))
    BY <1>5, Zenon
  <2> QED
    BY <1>3, <2>1
<1> DEFINE c == FlatWithin(T)
<1> HIDE DEF c
<1>7. c[0] = f0 /\ \A k \in 1..M : c[k] = FlatStep(T, c[k - 1])
  BY <1>6, <1>1 DEF c
<1> HIDE DEF Solves
<1>8. \A k \in 1..M : c[k - 1] \in S => c[k] = W[c[k - 1]]
  BY <1>2, <1>7
<1>9. \A k \in 0..M : c[k] \in S
  BY <1>1, <1>2, <1>7, <1>8, LevelsTyped
<1> QED
  BY <1>7, <1>9, <1>10 DEF c, f0, M

\* What is read: a type, bytes, and the value they should have.
Readings(T) == (DOMAIN T) \X Blobs \X Value
MeansStep(T, means) == [p \in Readings(T) |-> MeansBy(T, means, p[1], p[2], p[3])]

\* The levels of what C reads.
LEMMA MeansLevels ==
  ASSUME NEW T
  PROVE  /\ MeansWithin(T)[0] = [p \in Readings(T) |-> FALSE]
         /\ \A k \in 1..MaxNesting : MeansWithin(T)[k] = MeansStep(T, MeansWithin(T)[k - 1])
<1> DEFINE M == MaxNesting
<1> DEFINE S == [Readings(T) -> BOOLEAN]
<1> DEFINE f0 == [p \in Readings(T) |-> FALSE]
<1> DEFINE W == [g \in S |-> MeansStep(T, g)]
<1>1. M \in Nat /\ f0 \in S
  BY NestingAssumption
<1>2. \A g \in S : W[g] = MeansStep(T, g) /\ W[g] \in S
  <2> SUFFICES ASSUME NEW g \in S PROVE W[g] = MeansStep(T, g) /\ W[g] \in S
    OBVIOUS
  <2>1. ASSUME NEW p \in Readings(T) PROVE MeansBy(T, g, p[1], p[2], p[3]) \in BOOLEAN
    BY DEF MeansBy
  <2>2. MeansStep(T, g) \in S
    BY <2>1 DEF MeansStep
  <2> QED
    BY <2>2
<1> DEFINE Solves(e) == e = [k \in 0..M |-> IF k = 0 THEN f0 ELSE MeansStep(T, e[k - 1])]
<1>3. MeansWithin(T) = CHOOSE e : Solves(e)
  BY DEF MeansWithin, MeansStep, Readings
<1> HIDE DEF S, f0, M, W
<1>4. PICK f : Levels(f, f0, W, M) /\ \A k \in 0..M : f[k] \in S
  BY <1>1, <1>2, LevelRecursion
<1>5. Solves(f)
  <2>1. f = [k \in 0..M |-> IF k = 0 THEN f0 ELSE W[f[k - 1]]]
    BY <1>4 DEF Levels
  <2>2. \A k \in 0..M : k # 0 => k - 1 \in 0..M
    BY <1>1
  <2>3. \A k \in 0..M : k # 0 => W[f[k - 1]] = MeansStep(T, f[k - 1])
    BY <2>2, <1>2, <1>4
  <2> QED
    BY <2>1, <2>3
<1>6. Solves(MeansWithin(T))
  <2>1. Solves(CHOOSE e : Solves(e))
    BY <1>5, Zenon
  <2> QED
    BY <1>3, <2>1
<1> DEFINE c == MeansWithin(T)
<1> HIDE DEF c
<1>7. c[0] = f0 /\ \A k \in 1..M : c[k] = MeansStep(T, c[k - 1])
  BY <1>6, <1>1 DEF c
<1> QED
  BY <1>7 DEF c, f0, M

\* One level of the strings in them.
EndsStep(T, ends) == [p \in Readings(T) |-> StringsEndBy(T, ends, p[1], p[2], p[3])]

\* The levels of the strings in it.
LEMMA EndsLevels ==
  ASSUME NEW T
  PROVE  /\ StringsEndWithin(T)[0] = [p \in Readings(T) |-> FALSE]
         /\ \A k \in 1..MaxNesting : StringsEndWithin(T)[k] = EndsStep(T, StringsEndWithin(T)[k - 1])
<1> DEFINE M == MaxNesting
<1> DEFINE S == [Readings(T) -> BOOLEAN]
<1> DEFINE f0 == [p \in Readings(T) |-> FALSE]
<1> DEFINE W == [g \in S |-> EndsStep(T, g)]
<1>1. M \in Nat /\ f0 \in S
  BY NestingAssumption
<1>2. \A g \in S : W[g] = EndsStep(T, g) /\ W[g] \in S
  <2> SUFFICES ASSUME NEW g \in S PROVE W[g] = EndsStep(T, g) /\ W[g] \in S
    OBVIOUS
  <2>1. ASSUME NEW p \in Readings(T) PROVE StringsEndBy(T, g, p[1], p[2], p[3]) \in BOOLEAN
    BY DEF StringsEndBy
  <2>2. EndsStep(T, g) \in S
    BY <2>1 DEF EndsStep
  <2> QED
    BY <2>2
<1> DEFINE Solves(e) == e = [k \in 0..M |-> IF k = 0 THEN f0 ELSE EndsStep(T, e[k - 1])]
<1>3. StringsEndWithin(T) = CHOOSE e : Solves(e)
  BY DEF StringsEndWithin, EndsStep, Readings
<1> HIDE DEF S, f0, M, W
<1>4. PICK f : Levels(f, f0, W, M) /\ \A k \in 0..M : f[k] \in S
  BY <1>1, <1>2, LevelRecursion
<1>5. Solves(f)
  <2>1. f = [k \in 0..M |-> IF k = 0 THEN f0 ELSE W[f[k - 1]]]
    BY <1>4 DEF Levels
  <2>2. \A k \in 0..M : k # 0 => k - 1 \in 0..M
    BY <1>1
  <2>3. \A k \in 0..M : k # 0 => W[f[k - 1]] = EndsStep(T, f[k - 1])
    BY <2>2, <1>2, <1>4
  <2> QED
    BY <2>1, <2>3
<1>6. Solves(StringsEndWithin(T))
  <2>1. Solves(CHOOSE e : Solves(e))
    BY <1>5, Zenon
  <2> QED
    BY <1>3, <2>1
<1> DEFINE c == StringsEndWithin(T)
<1> HIDE DEF c
<1>7. c[0] = f0 /\ \A k \in 1..M : c[k] = EndsStep(T, c[k - 1])
  BY <1>6, <1>1 DEF c
<1> QED
  BY <1>7 DEF c, f0, M

\* Two types, and one level of __eq__.
SamePairs(T) == (DOMAIN T) \X (DOMAIN T)
SameStep(T, same) == [p \in SamePairs(T) |-> SameBy(T, same, p[1], p[2])]

\* The levels of __eq__.
LEMMA SameLevels ==
  ASSUME NEW T
  PROVE  /\ SameWithin(T)[0] = [p \in SamePairs(T) |-> FALSE]
         /\ \A k \in 1..MaxNesting : SameWithin(T)[k] = SameStep(T, SameWithin(T)[k - 1])
<1> DEFINE M == MaxNesting
<1> DEFINE S == [SamePairs(T) -> BOOLEAN]
<1> DEFINE f0 == [p \in SamePairs(T) |-> FALSE]
<1> DEFINE W == [g \in S |-> SameStep(T, g)]
<1>1. M \in Nat /\ f0 \in S
  BY NestingAssumption
<1>2. \A g \in S : W[g] = SameStep(T, g) /\ W[g] \in S
  <2> SUFFICES ASSUME NEW g \in S PROVE W[g] = SameStep(T, g) /\ W[g] \in S
    OBVIOUS
  <2>1. ASSUME NEW p \in SamePairs(T) PROVE SameBy(T, g, p[1], p[2]) \in BOOLEAN
    BY DEF SameBy
  <2>2. SameStep(T, g) \in S
    BY <2>1 DEF SameStep
  <2> QED
    BY <2>2
<1> DEFINE Solves(e) == e = [k \in 0..M |-> IF k = 0 THEN f0 ELSE SameStep(T, e[k - 1])]
<1>3. SameWithin(T) = CHOOSE e : Solves(e)
  BY DEF SameWithin, SameStep, SamePairs
<1> HIDE DEF S, f0, M, W
<1>4. PICK f : Levels(f, f0, W, M) /\ \A k \in 0..M : f[k] \in S
  BY <1>1, <1>2, LevelRecursion
<1>5. Solves(f)
  <2>1. f = [k \in 0..M |-> IF k = 0 THEN f0 ELSE W[f[k - 1]]]
    BY <1>4 DEF Levels
  <2>2. \A k \in 0..M : k # 0 => k - 1 \in 0..M
    BY <1>1
  <2>3. \A k \in 0..M : k # 0 => W[f[k - 1]] = SameStep(T, f[k - 1])
    BY <2>2, <1>2, <1>4
  <2> QED
    BY <2>1, <2>3
<1>6. Solves(SameWithin(T))
  <2>1. Solves(CHOOSE e : Solves(e))
    BY <1>5, Zenon
  <2> QED
    BY <1>3, <2>1
<1> DEFINE c == SameWithin(T)
<1> HIDE DEF c
<1>7. c[0] = f0 /\ \A k \in 1..M : c[k] = SameStep(T, c[k - 1])
  BY <1>6, <1>1 DEF c
<1> QED
  BY <1>7 DEF c, f0, M

-----------------------------------------------------------------------------
(* C reads what was written.                                               *)

\* What is said of the bytes the levels below yield.
Holds(T, flat, says) ==
  \A u \in DOMAIN T, w \in Value : flat[<<u, w>>] # Fail => says[<<u, flat[<<u, w>>], w>>]

\* If the parts are read as they were written, the whole is.
LEMMA StepMeans ==
  ASSUME NEW T, TableOK(T), ArraysOK(T), NEW t \in DOMAIN T,
         NEW flat, FlatSized(T, flat), NEW means, Holds(T, flat, means),
         NEW v \in Value, FlatBy(T, flat, t, v) # Fail
  PROVE  MeansBy(T, means, t, FlatBy(T, flat, t, v), v)
<1> DEFINE bs == FlatBy(T, flat, t, v)
<1>1. bs \in Blobs /\ Len(bs) = SizeOf(T, t)
  BY FlatByRight
<1>2. CASE v.kind = "empty"
  <2>1. T[t].byte_size # None /\ bs = Zeros(T[t].byte_size)
    BY <1>2 DEF FlatBy
  <2>2. T[t].byte_size \in Nat
    BY <2>1 DEF TableOK
  <2>3. AllZero(bs)
    BY <2>1, <2>2, ZeroBytes
  <2> HIDE DEF bs
  <2>4. MeansBy(T, means, t, bs, v)
    BY <2>3, <1>1, <1>2 DEF MeansBy
  <2> QED
    BY <2>4 DEF bs
<1>3. CASE v.kind # "empty" /\ T[t].tag \in {"pointer", "base"}
  <2>1. BaseRight(T, t, bs, v)
    <3>1. CASE T[t].tag = "pointer"
      <4>1. bs = FlatPointer(T[t], v)
        BY <3>1, <1>3 DEF FlatBy
      <4> QED
        BY <4>1, <3>1, PointerBytes
    <3>2. CASE T[t].tag = "base"
      <4>1. bs = FlatBase(T[t], v)
        BY <3>2, <1>3 DEF FlatBy
      <4> QED
        BY <4>1, <3>2, BaseBytes
    <3> QED
      BY <3>1, <3>2, <1>3
  <2> HIDE DEF bs
  <2>2. MeansBy(T, means, t, bs, v)
    BY <2>1, <1>1, <1>3 DEF MeansBy, BaseRight
  <2> QED
    BY <2>2 DEF bs
<1>4. CASE v.kind # "empty" /\ T[t].tag = "array"
  <2>1. bs = FlatArray(T, flat, t, v)
    BY <1>4 DEF FlatBy
  <2>2. ArrayRight(T, flat, t, bs, v)
    BY <2>1, <1>4, ArrayParts
  <2> HIDE DEF bs
  <2> DEFINE xs == Items(v)
  <2> DEFINE b == BaseType(T, t)
  <2>3. ASSUME NEW i \in 1..ArrayCount(T, t)
        PROVE  IF i <= Len(xs) THEN means[<<b, EntryBytes(T, t, bs, i), xs[i]>>]
               ELSE AllZero(EntryBytes(T, t, bs, i))
    <3>1. xs \in Seq(Value) /\ Len(xs) \in Nat /\ ArrayCount(T, t) \in Nat /\ b \in DOMAIN T
      BY <2>2, CountTyped, LenProperties DEF ArrayRight
    <3> HIDE DEF xs, b
    <3>2. CASE i <= Len(xs)
      <4>1. i \in 1..Len(xs)
        BY <3>1, <3>2
      <4>2. xs[i] \in Value
        BY <3>1, <4>1, ElementOfSeq
      <4>3. flat[<<b, xs[i]>>] # Fail /\ EntryBytes(T, t, bs, i) = flat[<<b, xs[i]>>]
        BY <2>2, <4>1 DEF ArrayRight, xs, b
      <4>4. means[<<b, flat[<<b, xs[i]>>], xs[i]>>]
        BY <3>1, <4>2, <4>3 DEF Holds
      <4> QED
        BY <3>2, <4>3, <4>4
    <3>3. CASE ~(i <= Len(xs))
      <4>1. i \in Len(xs) + 1..ArrayCount(T, t)
        BY <3>1, <3>3
      <4> QED
        BY <3>3, <4>1, <2>2 DEF ArrayRight, xs
    <3> QED
      BY <3>2, <3>3
  <2>4. MeansBy(T, means, t, bs, v)
    BY <2>3, <1>1, <1>4 DEF MeansBy
  <2> QED
    BY <2>4 DEF bs
<1>5. CASE v.kind # "empty" /\ T[t].tag = "structure"
  <2>1. bs = FlatStruct(T, flat, t, v)
    BY <1>5 DEF FlatBy
  <2>2. StructRight(T, flat, t, bs, v)
    BY <2>1, <1>5, StructParts
  <2> HIDE DEF bs
  <2>3. ASSUME NEW m \in MembersOf(T, t)
        PROVE  means[<<BaseType(T, m), MemberBytes(T, m, bs), v.fields[T[m].name]>>]
    BY <2>2 DEF StructRight, Holds
  <2>4. \A i \in DOMAIN bs : (\A m \in MembersOf(T, t) : i \notin Extent(T, m)) => bs[i] = 0
    BY <2>2 DEF StructRight
  <2>5. MeansBy(T, means, t, bs, v)
    BY <2>3, <2>4, <1>1, <1>5 DEF MeansBy
  <2> QED
    BY <2>5 DEF bs
<1>6. CASE v.kind # "empty" /\ T[t].tag \notin {"pointer", "base", "array", "structure"}
  BY <1>6 DEF FlatBy
<1> QED
  BY <1>2, <1>3, <1>4, <1>5, <1>6

\* If the strings in the parts end, those in the whole do.
LEMMA StepEnds ==
  ASSUME NEW T, TableOK(T), ArraysOK(T), NEW t \in DOMAIN T,
         NEW flat, FlatSized(T, flat), NEW ends, Holds(T, flat, ends),
         NEW v \in Value, FlatBy(T, flat, t, v) # Fail
  PROVE  StringsEndBy(T, ends, t, FlatBy(T, flat, t, v), v)
<1> DEFINE bs == FlatBy(T, flat, t, v)
<1>1. CASE v.kind = "empty"
  <2>1. T[t].byte_size # None /\ bs = Zeros(T[t].byte_size)
    BY <1>1 DEF FlatBy
  <2>2. T[t].byte_size \in Nat
    BY <2>1 DEF TableOK
  <2>3. AllZero(bs)
    BY <2>1, <2>2, ZeroBytes
  <2> HIDE DEF bs
  <2>4. StringsEndBy(T, ends, t, bs, v)
    BY <2>3, <1>1 DEF StringsEndBy
  <2> QED
    BY <2>4 DEF bs
<1>2. CASE v.kind # "empty" /\ T[t].tag = "array"
  <2>1. bs = FlatArray(T, flat, t, v)
    BY <1>2 DEF FlatBy
  <2>2. ArrayRight(T, flat, t, bs, v)
    BY <2>1, <1>2, ArrayParts
  <2> HIDE DEF bs
  <2> DEFINE xs == Items(v)
  <2> DEFINE b == BaseType(T, t)
  <2>3. ASSUME T[b].name = "char", NEW i \in DOMAIN bs
        PROVE  \E j \in i..Len(bs) : bs[j] = 0
    <3>1. Len(bs) > 0 /\ bs[Len(bs)] = 0
      BY <2>2, <2>3 DEF ArrayRight
    <3>2. bs \in Seq(0..Byte - 1)
      BY <2>2 DEF ArrayRight, Blobs
    <3>3. Len(bs) \in Nat /\ i \in 1..Len(bs)
      BY <3>2, <2>3, LenProperties
    <3>4. Len(bs) \in i..Len(bs)
      BY <3>3
    <3> QED
      BY <3>1, <3>4
  <2>4. ASSUME NEW i \in DOMAIN xs
        PROVE  ends[<<b, EntryBytes(T, t, bs, i), xs[i]>>]
    <3>1. xs \in Seq(Value) /\ b \in DOMAIN T
      BY <2>2 DEF ArrayRight
    <3> HIDE DEF xs, b
    <3>2. i \in 1..Len(xs) /\ xs[i] \in Value
      BY <3>1, <2>4, LenProperties, ElementOfSeq
    <3>3. flat[<<b, xs[i]>>] # Fail /\ EntryBytes(T, t, bs, i) = flat[<<b, xs[i]>>]
      BY <2>2, <3>2 DEF ArrayRight, xs, b
    <3>4. ends[<<b, flat[<<b, xs[i]>>], xs[i]>>]
      BY <3>1, <3>2, <3>3 DEF Holds
    <3> QED
      BY <3>3, <3>4
  <2>5. StringsEndBy(T, ends, t, bs, v)
    BY <2>3, <2>4, <1>2 DEF StringsEndBy
  <2> QED
    BY <2>5 DEF bs
<1>3. CASE v.kind # "empty" /\ T[t].tag = "structure"
  <2>1. bs = FlatStruct(T, flat, t, v)
    BY <1>3 DEF FlatBy
  <2>2. StructRight(T, flat, t, bs, v)
    BY <2>1, <1>3, StructParts
  <2> HIDE DEF bs
  <2>3. ASSUME NEW m \in MembersOf(T, t)
        PROVE  ends[<<BaseType(T, m), MemberBytes(T, m, bs), v.fields[T[m].name]>>]
    BY <2>2 DEF StructRight, Holds
  <2>4. StringsEndBy(T, ends, t, bs, v)
    BY <2>3, <1>3 DEF StringsEndBy
  <2> QED
    BY <2>4 DEF bs
<1>4. CASE v.kind # "empty" /\ T[t].tag \notin {"array", "structure"}
  <2>1. T[t].tag \in {"base", "pointer"}
    BY <1>4 DEF FlatBy
  <2> HIDE DEF bs
  <2>2. StringsEndBy(T, ends, t, bs, v)
    <3> DEFINE tag == IF v.kind = "empty" THEN "empty" ELSE T[t].tag
    <3>1. tag \notin {"empty", "array", "structure"}
      BY <2>1, <1>4
    <3> HIDE DEF tag
    <3> QED
      BY <3>1 DEF StringsEndBy, tag
  <2> QED
    BY <2>2 DEF bs
<1> QED
  BY <1>1, <1>2, <1>3, <1>4

\* At every level, what was written is what is read, and ends.
LEMMA LevelsRight ==
  ASSUME NEW T, TableOK(T), ArraysOK(T)
  PROVE  \A k \in 0..MaxNesting : /\ FlatSized(T, FlatWithin(T)[k])
                                  /\ Holds(T, FlatWithin(T)[k], MeansWithin(T)[k])
                                  /\ Holds(T, FlatWithin(T)[k], StringsEndWithin(T)[k])
<1> DEFINE M == MaxNesting
<1> DEFINE F == FlatWithin(T)
<1> DEFINE R == MeansWithin(T)
<1> DEFINE E == StringsEndWithin(T)
<1> DEFINE G == {k \in 0..M : Holds(T, F[k], R[k]) /\ Holds(T, F[k], E[k])}
<1>1. M \in Nat
  BY NestingAssumption
<1>2. /\ F[0] = [p \in (DOMAIN T) \X Value |-> Fail]
      /\ \A k \in 1..M : F[k] = FlatStep(T, F[k - 1])
      /\ \A k \in 0..M : FlatSized(T, F[k])
  BY FlatLevels
<1>3. \A k \in 1..M : R[k] = MeansStep(T, R[k - 1])
  BY MeansLevels
<1>4. \A k \in 1..M : E[k] = EndsStep(T, E[k - 1])
  BY EndsLevels
<1> HIDE DEF M, F, R, E
<1>5. 0 \in G
  <2>1. \A u \in DOMAIN T, w \in Value : F[0][<<u, w>>] = Fail
    BY <1>2
  <2> QED
    BY <2>1, <1>1 DEF Holds
<1>6. ASSUME NEW k \in 1..M, k - 1 \in G PROVE k \in G
  <2> DEFINE g == F[k - 1]
  <2>1. /\ k \in 0..M /\ FlatSized(T, g) /\ FlatSized(T, F[k])
        /\ Holds(T, g, R[k - 1]) /\ Holds(T, g, E[k - 1])
    BY <1>6, <1>1, <1>2
  <2>2. F[k] = FlatStep(T, g) /\ R[k] = MeansStep(T, R[k - 1]) /\ E[k] = EndsStep(T, E[k - 1])
    BY <1>2, <1>3, <1>4
  <2> HIDE DEF g, G
  <2>3. ASSUME NEW u \in DOMAIN T, NEW w \in Value, F[k][<<u, w>>] # Fail
        PROVE  R[k][<<u, F[k][<<u, w>>], w>>] /\ E[k][<<u, F[k][<<u, w>>], w>>]
    <3> DEFINE bs == F[k][<<u, w>>]
    <3>1. bs = FlatBy(T, g, u, w)
      BY <2>2 DEF FlatStep
    <3>2. bs # Fail /\ bs \in Blobs
      BY <2>1, <2>3 DEF FlatSized
    <3> HIDE DEF bs
    <3>3. MeansBy(T, R[k - 1], u, bs, w)
      BY <2>1, <3>1, <3>2, StepMeans
    <3>4. StringsEndBy(T, E[k - 1], u, bs, w)
      BY <2>1, <3>1, <3>2, StepEnds
    <3>5. <<u, bs, w>> \in Readings(T)
      BY <3>2 DEF Readings
    <3>6. R[k][<<u, bs, w>>] = MeansBy(T, R[k - 1], u, bs, w)
      BY <2>2, <3>5 DEF MeansStep
    <3>7. E[k][<<u, bs, w>>] = StringsEndBy(T, E[k - 1], u, bs, w)
      BY <2>2, <3>5 DEF EndsStep
    <3> QED
      BY <3>3, <3>4, <3>6, <3>7 DEF bs
  <2>4. Holds(T, F[k], R[k]) /\ Holds(T, F[k], E[k])
    BY <2>3 DEF Holds
  <2> QED
    BY <2>1, <2>4 DEF G
<1> HIDE DEF G
<1>7. 0..M \subseteq G
  BY <1>1, <1>5, <1>6, UpTo
<1> QED
  BY <1>2, <1>7 DEF G, M, F, R, E

\* What the serialiser writes is read as the value, with its strings ended.
LEMMA FlattenRight ==
  ASSUME NEW T, TableOK(T), ArraysOK(T), NEW t \in DOMAIN T, NEW v \in Value,
         Flatten(T, t, v) # Fail
  PROVE  /\ Flatten(T, t, v) \in Blobs
         /\ Means(T, t, Flatten(T, t, v), v) /\ StringsEnd(T, t, Flatten(T, t, v), v)
<1>1. MaxNesting \in 0..MaxNesting
  BY NestingAssumption
<1>2. /\ FlatSized(T, FlatWithin(T)[MaxNesting])
      /\ Holds(T, FlatWithin(T)[MaxNesting], MeansWithin(T)[MaxNesting])
      /\ Holds(T, FlatWithin(T)[MaxNesting], StringsEndWithin(T)[MaxNesting])
  BY <1>1, LevelsRight
<1> QED
  BY <1>2 DEF FlatSized, Holds, Flatten, Means, StringsEnd

-----------------------------------------------------------------------------
(* Types that are equal: what one of them yields, the other yields.        *)

\* The pairs of entries that __eq__ finds equal, at some level.
Related(T) == {p \in SamePairs(T) : \E k \in 0..MaxNesting : SameWithin(T)[k][p]}

\* What is the same of two such entries.
Alike(T, t, u) ==
  /\ T[t].tag = T[u].tag /\ T[t].name = T[u].name /\ T[t].encoding = T[u].encoding
  /\ T[t].byte_size = T[u].byte_size /\ T[t].data_member_location = T[u].data_member_location
  /\ Len(T[t].members) = Len(T[u].members)
  /\ BaseType(T, t) \in DOMAIN T /\ BaseType(T, u) \in DOMAIN T
  /\ BaseType(T, t) # None /\ BaseType(T, u) # None
  /\ <<BaseType(T, t), BaseType(T, u)>> \in Related(T)
  /\ T[t].tag = "array" => ArrayCount(T, t) = ArrayCount(T, u)
  /\ T[t].tag = "structure" =>
       \A i \in 1..Len(T[t].members) : <<ByLocation(T, t)[i], ByLocation(T, u)[i]>> \in Related(T)

\* What is equal at some level is the same of two entries, and below.
LEMMA RelatedAlike ==
  ASSUME NEW T, TableOK(T), NEW t \in DOMAIN T, NEW u \in DOMAIN T, <<t, u>> \in Related(T)
  PROVE  Alike(T, t, u)
<1>1. MaxNesting \in Nat
  BY NestingAssumption
<1>2. PICK k \in 0..MaxNesting : SameWithin(T)[k][<<t, u>>]
  BY DEF Related
<1>3. k # 0
  <2>1. SameWithin(T)[0] = [p \in SamePairs(T) |-> FALSE]
    BY SameLevels
  <2>2. <<t, u>> \in SamePairs(T)
    BY DEF SamePairs
  <2> QED
    BY <2>1, <2>2, <1>2
<1>4. k \in 1..MaxNesting /\ k - 1 \in 0..MaxNesting
  BY <1>1, <1>3
<1> DEFINE same == SameWithin(T)[k - 1]
<1>5. SameBy(T, same, t, u)
  <2>1. SameWithin(T)[k] = SameStep(T, same)
    BY <1>4, SameLevels
  <2> HIDE DEF same
  <2>2. SameWithin(T)[k][<<t, u>>] = SameBy(T, same, t, u)
    BY <2>1 DEF SameStep, SamePairs
  <2> QED
    BY <2>2, <1>2
<1>6. \A x, y \in DOMAIN T : same[<<x, y>>] => <<x, y>> \in Related(T)
  BY <1>4 DEF Related, SamePairs
<1> HIDE DEF same
<1>7. SameAttributes(T[t], T[u]) /\ Len(T[t].members) = Len(T[u].members)
  BY <1>5 DEF SameBy
<1>8. /\ T[t].tag = T[u].tag /\ T[t].name = T[u].name /\ T[t].encoding = T[u].encoding
      /\ T[t].byte_size = T[u].byte_size /\ T[t].data_member_location = T[u].data_member_location
  BY <1>7 DEF SameAttributes, Entry
<1>9. /\ BaseType(T, t) \in DOMAIN T /\ BaseType(T, u) \in DOMAIN T
      /\ BaseType(T, t) # None /\ BaseType(T, u) # None
      /\ <<BaseType(T, t), BaseType(T, u)>> \in Related(T)
  <2>1. CASE T[t].tag \in {"typedef", "member", "array"}
    <3>1. BaseType(T, t) # None /\ BaseType(T, u) # None /\ same[<<BaseType(T, t), BaseType(T, u)>>]
      BY <2>1, <1>5 DEF SameBy
    <3>2. BaseType(T, t) \in DOMAIN T /\ BaseType(T, u) \in DOMAIN T
      BY <3>1, BaseTypeHeld DEF TableOK
    <3> QED
      BY <3>1, <3>2, <1>6
  <2>2. CASE T[t].tag \notin {"typedef", "member", "array"}
    <3>1. BaseType(T, t) = t /\ BaseType(T, u) = u
      BY <2>2, <1>8 DEF BaseType
    <3>2. t # None /\ u # None
      BY DEF TableOK, None
    <3> QED
      BY <3>1, <3>2
  <2> QED
    BY <2>1, <2>2
<1>10. ASSUME T[t].tag = "array" PROVE ArrayCount(T, t) = ArrayCount(T, u)
  <2>1. Dimensions(T, t) = Dimensions(T, u)
    BY <1>5, <1>10 DEF SameBy
  <2>2. T[t].members # <<>> /\ T[u].members # <<>>
    BY <1>8, <1>10 DEF TableOK, Sane
  <2> QED
    BY <2>1, <2>2 DEF ArrayCount
<1>11. ASSUME T[t].tag = "structure"
       PROVE  \A i \in 1..Len(T[t].members) :
                <<ByLocation(T, t)[i], ByLocation(T, u)[i]>> \in Related(T)
  <2>1. \A i \in DOMAIN T[t].members : same[<<ByLocation(T, t)[i], ByLocation(T, u)[i]>>]
    BY <1>5, <1>11 DEF SameBy
  <2>2. DOMAIN T[t].members = 1..Len(T[t].members)
    BY MembersFacts
  <2>3. \A i \in 1..Len(T[t].members) : ByLocation(T, t)[i] \in DOMAIN T
    BY LocationOrder
  <2>4. \A i \in 1..Len(T[u].members) : ByLocation(T, u)[i] \in DOMAIN T
    BY LocationOrder
  <2> QED
    BY <2>1, <2>2, <2>3, <2>4, <1>6, <1>7
<1> QED
  BY <1>7, <1>8, <1>9, <1>10, <1>11 DEF Alike

\* The levels below do not tell such entries apart.
FlatAlike(T, flat) ==
  \A x, y \in DOMAIN T, w \in Value :
    <<x, y>> \in Related(T) => flat[<<x, w>>] = flat[<<y, w>>]

\* An array is written the same way, whichever of the two it is.
LEMMA ArrayAlike ==
  ASSUME NEW T, TableOK(T), NEW t \in DOMAIN T, NEW u \in DOMAIN T, Alike(T, t, u),
         T[t].tag = "array", NEW flat, FlatAlike(T, flat), NEW v \in Value
  PROVE  FlatArray(T, flat, t, v) = FlatArray(T, flat, u, v)
<1> DEFINE b == BaseType(T, t)
<1> DEFINE c == BaseType(T, u)
<1> DEFINE xs == Items(v)
<1>1. /\ b \in DOMAIN T /\ c \in DOMAIN T /\ b # None /\ c # None
      /\ <<b, c>> \in Related(T) /\ ArrayCount(T, t) = ArrayCount(T, u)
  BY DEF Alike
<1>2. T[b].byte_size = T[c].byte_size /\ T[b].name = T[c].name
  <2>1. Alike(T, b, c)
    BY <1>1, RelatedAlike
  <2> QED
    BY <2>1 DEF Alike
<1>3. CASE ~Iterable(v)
  BY <1>3 DEF FlatArray
<1>4. CASE Iterable(v)
  <2>1. DOMAIN xs = 1..Len(xs) /\ \A i \in 1..Len(xs) : xs[i] \in Value
    BY <1>4, ItemsTyped
  <2>2. \A w \in Value : flat[<<b, w>>] = flat[<<c, w>>]
    BY <1>1 DEF FlatAlike
  <2> HIDE DEF b, c, xs
  <2>3. [i \in DOMAIN xs |-> flat[<<b, xs[i]>>]] = [i \in DOMAIN xs |-> flat[<<c, xs[i]>>]]
    BY <2>1, <2>2
  <2> DEFINE es == [i \in DOMAIN xs |-> flat[<<b, xs[i]>>]]
  <2> DEFINE size == ArrayCount(T, t) * T[b].byte_size
  <2> DEFINE R == IF \/ b = None \/ ArrayCount(T, t) = 0 \/ T[b].byte_size = None
                     \/ ~Iterable(v) \/ Len(xs) > ArrayCount(T, t)
                     \/ \E i \in DOMAIN es : es[i] = Fail
                     \/ T[b].name = "char" /\ Len(FlattenSeq(es)) = size
                          /\ FlattenSeq(es)[Len(FlattenSeq(es))] # 0
                  THEN Fail
                  ELSE FlattenSeq(es) \o Zeros(size - Len(FlattenSeq(es)))
  <2>4. FlatArray(T, flat, t, v) = R
    BY DEF FlatArray, b, xs
  <2>5. FlatArray(T, flat, u, v) =
          LET fs == [i \in DOMAIN xs |-> flat[<<c, xs[i]>>]]
              blob == FlattenSeq(fs)
              full == ArrayCount(T, u) * T[c].byte_size
          IN  IF \/ c = None \/ ArrayCount(T, u) = 0 \/ T[c].byte_size = None
                 \/ ~Iterable(v) \/ Len(xs) > ArrayCount(T, u)
                 \/ \E i \in DOMAIN fs : fs[i] = Fail
                 \/ T[c].name = "char" /\ Len(blob) = full /\ blob[Len(blob)] # 0
              THEN Fail
              ELSE blob \o Zeros(full - Len(blob))
    BY DEF FlatArray, c, xs
  <2>6. FlatArray(T, flat, u, v) = R
    BY <2>3, <2>5, <1>1, <1>2
  <2> QED
    BY <2>4, <2>6
<1> QED
  BY <1>3, <1>4

\* The members in the order of their places are all members.
LEMMA MatchByLocation ==
  ASSUME NEW T, TableOK(T), NEW t \in DOMAIN T, NEW v
  PROVE  FieldsMatch(T, t, v) <=>
           /\ v.kind = "config" /\ Located(T, t)
           /\ DOMAIN v.fields = {T[ByLocation(T, t)[i]].name : i \in 1..Len(T[t].members)}
<1> DEFINE n == Len(T[t].members)
<1> DEFINE ms == T[t].members
<1> DEFINE bl == ByLocation(T, t)
<1>1. \A i \in 1..n : \E j \in DOMAIN ms : bl[i] = ms[j]
  <2>1. \A i \in 1..n : bl[i] \in MembersOf(T, t)
    BY LocationOrder
  <2>2. MembersOf(T, t) = {ms[j] : j \in DOMAIN ms}
    BY DEF MembersOf
  <2> HIDE DEF n, ms, bl
  <2> QED
    BY <2>1, <2>2
<1>2. \A j \in DOMAIN ms : \E i \in 1..n : bl[i] = ms[j]
  <2>1. \A m \in MembersOf(T, t) : \E i \in 1..n : bl[i] = m
    BY LocationOrder
  <2>2. \A j \in DOMAIN ms : ms[j] \in MembersOf(T, t)
    BY DEF MembersOf
  <2> HIDE DEF n, ms, bl
  <2> QED
    BY <2>1, <2>2
<1> HIDE DEF n, ms, bl
<1>3. {T[ms[j]].name : j \in DOMAIN ms} = {T[bl[i]].name : i \in 1..n}
  BY <1>1, <1>2
<1> QED
  BY <1>3 DEF FieldsMatch, n, ms, bl

\* All members have a place if they have one in this order.
LEMMA LocatedByOrder ==
  ASSUME NEW T, TableOK(T), NEW t \in DOMAIN T
  PROVE  Located(T, t) <=>
           \A i \in 1..Len(T[t].members) : T[ByLocation(T, t)[i]].data_member_location # None
<1> DEFINE n == Len(T[t].members)
<1> DEFINE at(m) == T[m].data_member_location
<1> DEFINE bl == ByLocation(T, t)
<1>1. /\ \A i \in 1..n : bl[i] \in MembersOf(T, t)
      /\ \A m \in MembersOf(T, t) : \E i \in 1..n : bl[i] = m
  BY LocationOrder
<1>2. Located(T, t) <=> \A m \in MembersOf(T, t) : at(m) # None
  BY DEF Located, MembersOf
<1> HIDE DEF n, at, bl
<1>3. (\A m \in MembersOf(T, t) : at(m) # None) <=> \A i \in 1..n : at(bl[i]) # None
  BY <1>1
<1> QED
  BY <1>2, <1>3 DEF n, at, bl

\* A struct is written the same way, whichever of the two it is.
LEMMA StructAlike ==
  ASSUME NEW T, TableOK(T), NEW t \in DOMAIN T, NEW u \in DOMAIN T, Alike(T, t, u),
         T[t].tag = "structure", NEW flat, FlatAlike(T, flat), NEW v \in Value
  PROVE  FlatStruct(T, flat, t, v) = FlatStruct(T, flat, u, v)
<1> DEFINE n == Len(T[t].members)
<1> DEFINE at(x, i) == T[ByLocation(T, x)[i]].data_member_location
<1> DEFINE blobs(x) == MemberBlobs(T, flat, x, v)
<1> DEFINE end(x, i) == IF i = 0 THEN 0 ELSE at(x, i) + Len(blobs(x)[i])
<1> DEFINE es(x) == [i \in 1..n |-> Zeros(at(x, i) - end(x, i - 1)) \o blobs(x)[i]]
<1> DEFINE R(x) == IF \/ ~FieldsMatch(T, x, v)
                      \/ \E i \in 1..n : blobs(x)[i] = Fail \/ end(x, i - 1) > at(x, i)
                      \/ end(x, n) > T[x].byte_size
                   THEN Fail
                   ELSE FlattenSeq(es(x)) \o Zeros(T[x].byte_size - end(x, n))
<1>1. n \in Nat /\ n = Len(T[u].members) /\ T[t].byte_size = T[u].byte_size
  BY MembersFacts DEF Alike
<1>2. FlatStruct(T, flat, t, v) = R(t)
  BY DEF FlatStruct
<1>3. FlatStruct(T, flat, u, v) = R(u)
  <2>1. FlatStruct(T, flat, u, v) =
          LET m == Len(T[u].members)
              start(i) == T[ByLocation(T, u)[i]].data_member_location
              bl == MemberBlobs(T, flat, u, v)
              ends(i) == IF i = 0 THEN 0 ELSE start(i) + Len(bl[i])
          IN  IF \/ ~FieldsMatch(T, u, v)
                 \/ \E i \in 1..m : bl[i] = Fail \/ ends(i - 1) > start(i)
                 \/ ends(m) > T[u].byte_size
              THEN Fail
              ELSE FlattenSeq([i \in 1..m |-> Zeros(start(i) - ends(i - 1)) \o bl[i]])
                     \o Zeros(T[u].byte_size - ends(m))
    BY DEF FlatStruct
  <2> HIDE DEF n
  <2> QED
    BY <2>1, <1>1
\* The i-th members.
<1>4. ASSUME NEW i \in 1..n
      PROVE  LET l == ByLocation(T, t)[i]
                 m == ByLocation(T, u)[i]
             IN  /\ l \in DOMAIN T /\ m \in DOMAIN T /\ Alike(T, l, m)
                 /\ l \in MembersOf(T, t)
                 /\ at(t, i) = at(u, i) /\ T[l].name = T[m].name
  <2> DEFINE l == ByLocation(T, t)[i]
  <2> DEFINE m == ByLocation(T, u)[i]
  <2>1. l \in DOMAIN T /\ l \in MembersOf(T, t)
    BY LocationOrder
  <2>2. m \in DOMAIN T
    BY <1>1, LocationOrder
  <2>3. <<l, m>> \in Related(T)
    BY DEF Alike
  <2> HIDE DEF l, m
  <2>4. Alike(T, l, m)
    BY <2>1, <2>2, <2>3, RelatedAlike
  <2>5. T[l].data_member_location = T[m].data_member_location /\ T[l].name = T[m].name
    BY <2>4 DEF Alike
  <2> QED
    BY <2>1, <2>2, <2>4, <2>5 DEF l, m
<1>5. FieldsMatch(T, t, v) <=> FieldsMatch(T, u, v)
  <2> DEFINE names(x) == {T[ByLocation(T, x)[i]].name : i \in 1..n}
  <2>1. FieldsMatch(T, t, v) <=> v.kind = "config" /\ Located(T, t) /\ DOMAIN v.fields = names(t)
    BY MatchByLocation
  <2>2. FieldsMatch(T, u, v) <=> v.kind = "config" /\ Located(T, u) /\ DOMAIN v.fields = names(u)
    <3>1. FieldsMatch(T, u, v) <=>
            /\ v.kind = "config" /\ Located(T, u)
            /\ DOMAIN v.fields = {T[ByLocation(T, u)[i]].name : i \in 1..Len(T[u].members)}
      BY MatchByLocation
    <3> HIDE DEF n
    <3> QED
      BY <3>1, <1>1
  <2>3. names(t) = names(u)
    <3> HIDE DEF n
    <3> QED
      BY <1>4
  <2>4. \A i \in 1..n : at(t, i) = at(u, i)
    BY <1>4
  <2>5. Located(T, t) <=> \A i \in 1..n : at(t, i) # None
    BY LocatedByOrder
  <2>6. Located(T, u) <=> \A i \in 1..n : at(u, i) # None
    <3>1. Located(T, u) <=> \A i \in 1..Len(T[u].members) : at(u, i) # None
      BY LocatedByOrder
    <3> HIDE DEF n, at
    <3> QED
      BY <3>1, <1>1
  <2> HIDE DEF n, at, names
  <2> QED
    BY <2>1, <2>2, <2>3, <2>4, <2>5, <2>6, Zenon
<1>6. CASE ~FieldsMatch(T, t, v)
  BY <1>2, <1>3, <1>5, <1>6, Zenon
<1>7. CASE FieldsMatch(T, t, v)
  <2>1. ASSUME NEW i \in 1..n PROVE blobs(t)[i] = blobs(u)[i]
    <3> DEFINE l == ByLocation(T, t)[i]
    <3> DEFINE m == ByLocation(T, u)[i]
    <3>1. /\ l \in DOMAIN T /\ m \in DOMAIN T /\ Alike(T, l, m) /\ l \in MembersOf(T, t)
          /\ T[l].name = T[m].name
      BY <1>4
    <3>2. i \in DOMAIN ByLocation(T, t) /\ i \in DOMAIN ByLocation(T, u)
      BY <1>1, LocationOrder
    <3>3. blobs(t)[i] = IF BaseType(T, l) = None THEN Fail
                        ELSE flat[<<BaseType(T, l), v.fields[T[l].name]>>]
      BY <3>2 DEF MemberBlobs
    <3>4. blobs(u)[i] = IF BaseType(T, m) = None THEN Fail
                        ELSE flat[<<BaseType(T, m), v.fields[T[m].name]>>]
      BY <3>2 DEF MemberBlobs
    <3> HIDE DEF l, m, blobs
    <3>5. v.fields[T[l].name] \in Value
      <4>1. PICK j \in DOMAIN T[t].members : l = T[t].members[j]
        BY <3>1 DEF MembersOf
      <4>2. T[l].name \in DOMAIN v.fields /\ v.kind = "config"
        BY <4>1, <1>7 DEF FieldsMatch
      <4> QED
        BY <4>2, ValueAssumption
    <3>6. /\ BaseType(T, l) \in DOMAIN T /\ BaseType(T, m) \in DOMAIN T
          /\ BaseType(T, l) # None /\ BaseType(T, m) # None
          /\ <<BaseType(T, l), BaseType(T, m)>> \in Related(T)
      BY <3>1 DEF Alike
    <3>7. \A w \in Value : flat[<<BaseType(T, l), w>>] = flat[<<BaseType(T, m), w>>]
      BY <3>6 DEF FlatAlike
    <3> QED
      BY <3>1, <3>3, <3>4, <3>5, <3>6, <3>7
  <2>2. \A i \in 1..n : at(t, i) = at(u, i)
    BY <1>4
  <2>3. \A i \in 0..n : end(t, i) = end(u, i)
    <3> SUFFICES ASSUME NEW i \in 0..n PROVE end(t, i) = end(u, i)
      OBVIOUS
    <3>1. CASE i = 0
      BY <3>1
    <3>2. CASE i # 0
      <4>1. i \in 1..n
        BY <3>2
      <4> HIDE DEF at, blobs
      <4> QED
        BY <3>2, <4>1, <2>1, <2>2
    <3> QED
      BY <3>1, <3>2
  <2>4. \A i \in 1..n : i - 1 \in 0..n /\ n \in 0..n
    BY <1>1
  <2>5. end(t, n) = end(u, n)
    <3>1. n \in 0..n
      BY <1>1
    <3> HIDE DEF n, end
    <3> QED
      BY <2>3, <3>1
  <2> HIDE DEF at, blobs, end, n
  <2>6. es(t) = es(u)
    <3>1. \A i \in 1..n : Zeros(at(t, i) - end(t, i - 1)) \o blobs(t)[i]
                          = Zeros(at(u, i) - end(u, i - 1)) \o blobs(u)[i]
      BY <2>1, <2>2, <2>3, <2>4
    <3> QED
      BY <3>1
  <2> HIDE DEF es
  <2>7. R(t) = R(u)
    <3>1. \A i \in 1..n : (blobs(t)[i] = Fail \/ end(t, i - 1) > at(t, i))
                          <=> (blobs(u)[i] = Fail \/ end(u, i - 1) > at(u, i))
      BY <2>1, <2>2, <2>3, <2>4
    <3> QED
      BY <3>1, <2>5, <2>6, <1>1, <1>5
  <2> HIDE DEF R
  <2> QED
    BY <2>7, <1>2, <1>3
<1> QED
  BY <1>6, <1>7

\* One level of the serialiser does not tell such types apart.
LEMMA StepAlike ==
  ASSUME NEW T, TableOK(T), NEW t \in DOMAIN T, NEW u \in DOMAIN T, Alike(T, t, u),
         NEW flat, FlatAlike(T, flat), NEW v \in Value
  PROVE  FlatBy(T, flat, t, v) = FlatBy(T, flat, u, v)
<1>1. T[t].tag = T[u].tag /\ T[t].byte_size = T[u].byte_size /\ T[t].encoding = T[u].encoding
  BY DEF Alike
<1>2. FlatPointer(T[t], v) = FlatPointer(T[u], v)
  BY <1>1 DEF FlatPointer
<1>3. FlatBase(T[t], v) = FlatBase(T[u], v)
  BY <1>1 DEF FlatBase
<1>4. T[t].tag = "array" => FlatArray(T, flat, t, v) = FlatArray(T, flat, u, v)
  BY ArrayAlike
<1>5. T[t].tag = "structure" => FlatStruct(T, flat, t, v) = FlatStruct(T, flat, u, v)
  BY StructAlike
<1> QED
  BY <1>1, <1>2, <1>3, <1>4, <1>5 DEF FlatBy

\* No level of the serialiser does.
LEMMA LevelsAlike ==
  ASSUME NEW T, TableOK(T), ArraysOK(T)
  PROVE  \A k \in 0..MaxNesting : FlatAlike(T, FlatWithin(T)[k])
<1> DEFINE M == MaxNesting
<1> DEFINE F == FlatWithin(T)
<1> DEFINE G == {k \in 0..M : FlatAlike(T, F[k])}
<1>1. M \in Nat
  BY NestingAssumption
<1>2. /\ F[0] = [p \in (DOMAIN T) \X Value |-> Fail]
      /\ \A k \in 1..M : F[k] = FlatStep(T, F[k - 1])
  BY FlatLevels
<1> HIDE DEF M, F
<1>4. 0 \in G
  <2>1. \A x \in DOMAIN T, w \in Value : F[0][<<x, w>>] = Fail
    BY <1>2
  <2> QED
    BY <2>1, <1>1 DEF FlatAlike
<1>5. ASSUME NEW k \in 1..M, k - 1 \in G PROVE k \in G
  <2> DEFINE g == F[k - 1]
  <2>1. k \in 0..M /\ FlatAlike(T, g) /\ F[k] = FlatStep(T, g)
    BY <1>5, <1>1, <1>2
  <2> HIDE DEF g, G
  <2>2. ASSUME NEW x \in DOMAIN T, NEW y \in DOMAIN T, <<x, y>> \in Related(T), NEW w \in Value
        PROVE  F[k][<<x, w>>] = F[k][<<y, w>>]
    <3>1. Alike(T, x, y)
      BY <2>2, RelatedAlike
    <3>2. FlatBy(T, g, x, w) = FlatBy(T, g, y, w)
      BY <3>1, <2>1, StepAlike
    <3> QED
      BY <3>2, <2>1 DEF FlatStep
  <2>3. FlatAlike(T, F[k])
    BY <2>2 DEF FlatAlike
  <2> QED
    BY <2>1, <2>3 DEF G
<1> HIDE DEF G
<1>6. 0..M \subseteq G
  BY <1>1, <1>4, <1>5, UpTo
<1> QED
  BY <1>6 DEF G, M, F

\* The bytes of a struct are the same whichever of the types of its name that
\* the search finds equal is taken.
LEMMA FoundAlike ==
  ASSUME NEW T, TableOK(T), ArraysOK(T), NEW name, FindType(T, name) # None,
         NEW t \in Named(T, name), NEW v \in Value
  PROVE  /\ BaseType(T, t) \in DOMAIN T /\ First(Named(T, name)) \in DOMAIN T
         /\ FindType(T, name) = BaseType(T, First(Named(T, name)))
         /\ Flatten(T, BaseType(T, t), v) = Flatten(T, FindType(T, name), v)
<1> DEFINE ts == Named(T, name)
<1> DEFINE f == First(ts)
<1>1. ts \subseteq DOMAIN T /\ ts \subseteq Nat /\ ts # {}
  BY DEF Named, TableOK
<1>2. f \in ts
  <2>1. \E m \in ts : \A n \in ts : m <= n
    BY <1>1, LeastNat
  <2> HIDE DEF ts
  <2> QED
    BY <2>1 DEF First
<1>3. FindType(T, name) = BaseType(T, f) /\ \A x \in ts \ {f} : Same(T, x, f)
  BY DEF FindType
<1>4. BaseType(T, f) # None /\ BaseType(T, f) \in DOMAIN T
  BY <1>1, <1>2, <1>3, BaseTypeHeld DEF TableOK
<1>5. MaxNesting \in 0..MaxNesting
  BY NestingAssumption
<1>6. CASE t = f
  BY <1>1, <1>2, <1>3, <1>4, <1>6
<1>7. CASE t # f
  <2>1. t \in DOMAIN T /\ f \in DOMAIN T /\ Same(T, t, f)
    BY <1>1, <1>2, <1>3, <1>7
  <2> HIDE DEF f
  <2>2. <<t, f>> \in Related(T)
    BY <2>1, <1>5 DEF Same, Related, SamePairs
  <2>3. Alike(T, t, f)
    BY <2>1, <2>2, RelatedAlike
  <2>4. /\ BaseType(T, t) \in DOMAIN T /\ BaseType(T, f) \in DOMAIN T
        /\ <<BaseType(T, t), BaseType(T, f)>> \in Related(T)
    BY <2>3 DEF Alike
  <2>5. FlatAlike(T, FlatWithin(T)[MaxNesting])
    BY <1>5, LevelsAlike
  <2>6. Flatten(T, BaseType(T, t), v) = Flatten(T, BaseType(T, f), v)
    BY <2>4, <2>5 DEF FlatAlike, Flatten
  <2> QED
    BY <2>1, <2>4, <2>6, <1>3 DEF f
<1> QED
  BY <1>6, <1>7

-----------------------------------------------------------------------------
(* Calls.                                                                  *)

\* Of the first k structs, the i-th is the last one for its file.
LastAmong(i, k) == \A j \in i + 1..k : PathFor(structs[j]) # PathFor(structs[i])

\* The files hold the first k structs, of two that share a file the last.
WrittenUpTo(k) ==
  \A i \in 1..k : LastAmong(i, k) =>
    /\ dir[PathFor(structs[i])].struct = structs[i]
    /\ dump => json[PathFor(structs[i])] = structs[i]

Finished == pc = "user" /\ outcome = "ok"

\* Until something is refused, what is collected is what was returned, and all
\* of it can be written; the loop has written all it went past.
CallsInv ==
  /\ pc \in {"user", "add", "emit"}
  /\ DOMAIN dir = Path /\ DOMAIN json = Path
  /\ structs \in Seq(Struct)
  /\ \A i \in 1..Len(structs) : Complete(structs[i]) /\ Dumped(structs[i])
  /\ next \in 1..Len(structs) + 1
  /\ pc = "add" => next = 1
  /\ pc \in {"add", "emit"} \/ Finished => seen = structs
  /\ Finished => next = Len(structs) + 1
  /\ pc = "emit" \/ Finished => WrittenUpTo(next - 1)

\* Every struct that was collected has a file.
LEMMA FileOf ==
  ASSUME CallsInv, NEW i \in 1..Len(structs)
  PROVE  PathFor(structs[i]) \in Path
BY DEF CallsInv, Path

\* One more struct is written: over the file of an earlier one only if that one
\* is not the last for its file any more.
LEMMA EmitStep ==
  ASSUME CallsInv, Emit
  PROVE  CallsInv'
<1> DEFINE s == structs[next]
<1> DEFINE f == PathFor(s)
<1>1. /\ pc = "emit" /\ next \in 1..Len(structs) /\ next \in Nat /\ Len(structs) \in Nat
      /\ next' = next + 1
      /\ UNCHANGED <<structs, seen, dump, pc, outcome>>
  BY DEF CallsInv, Emit
<1>2. /\ dir' = [dir EXCEPT ![f] = [struct |-> s, blob |-> Serialise(s)]]
      /\ json' = IF dump THEN [json EXCEPT ![f] = s] ELSE json
  BY DEF Emit
<1>3. f \in DOMAIN dir /\ f \in DOMAIN json
  BY <1>1, FileOf DEF CallsInv
<1> HIDE DEF s, f
<1>4. /\ DOMAIN dir' = DOMAIN dir /\ DOMAIN json' = DOMAIN json
      /\ dir'[f].struct = s /\ (dump => json'[f] = s)
      /\ \A p \in Path : p # f => dir'[p] = dir[p] /\ json'[p] = json[p]
  BY <1>2, <1>3 DEF CallsInv
<1>5. WrittenUpTo(next - 1)
  BY <1>1 DEF CallsInv
<1>6. WrittenUpTo(next - 1)'
  <2>1. next' - 1 = next
    BY <1>1
  <2> SUFFICES ASSUME NEW i \in 1..next,
                      \A j \in i + 1..next : PathFor(structs[j]) # PathFor(structs[i])
               PROVE  /\ dir'[PathFor(structs[i])].struct = structs[i]
                      /\ dump => json'[PathFor(structs[i])] = structs[i]
    BY <1>1, <2>1 DEF WrittenUpTo, LastAmong, PathFor
  <2>2. CASE i = next
    BY <2>2, <1>4 DEF s, f
  <2>3. CASE i # next
    <3>1. i \in 1..next - 1 /\ next \in i + 1..next /\ i \in 1..Len(structs)
      BY <2>3, <1>1
    <3>2. PathFor(structs[i]) # f
      BY <3>1 DEF f, s
    <3>3. PathFor(structs[i]) \in Path
      BY <3>1, FileOf
    <3>4. LastAmong(i, next - 1)
      BY <3>1, <1>1 DEF LastAmong
    <3> QED
      BY <3>1, <3>2, <3>3, <3>4, <1>4, <1>5 DEF WrittenUpTo
  <2> QED
    BY <2>2, <2>3
<1>7. structs' \in Seq(Struct) /\ \A i \in 1..Len(structs') : Complete(structs'[i]) /\ Dumped(structs'[i])
  BY <1>1 DEF CallsInv
<1>8. pc' \in {"user", "add", "emit"} /\ pc' # "add" /\ ~Finished' /\ seen' = structs'
  BY <1>1 DEF CallsInv, Finished
<1>9. next' \in 1..Len(structs') + 1
  BY <1>1
<1> QED
  BY <1>4, <1>6, <1>7, <1>8, <1>9, <1>1 DEF CallsInv, Path, Finished

\* One more struct is collected, or refused.
LEMMA AddStep ==
  ASSUME CallsInv, NEW s \in Struct, AddStruct(s)
  PROVE  CallsInv'
<1>1. /\ pc = "add" /\ Complete(s) /\ Dumped(s) /\ structs' = Append(structs, s) /\ seen' = Append(seen, s)
      /\ UNCHANGED <<dir, dump, json, pc, next, outcome>>
  BY DEF AddStruct
<1>2. seen' = structs' /\ next = 1
  BY <1>1 DEF CallsInv
<1>3. /\ structs' \in Seq(Struct) /\ Len(structs') \in Nat
      /\ \A i \in 1..Len(structs') : Complete(structs'[i]) /\ Dumped(structs'[i])
  BY <1>1, AppendProperties DEF CallsInv
<1>4. 1 \in 1..Len(structs') + 1
  BY <1>3
<1> QED
  BY <1>1, <1>2, <1>3, <1>4 DEF CallsInv, Finished, Path

\* No step breaks the invariant.
LEMMA CallStep ==
  ASSUME CallsInv, [Next]_vars
  PROVE  CallsInv'
<1>1. ASSUME NEW d \in BOOLEAN, Begin(d) PROVE CallsInv'
  <2>1. /\ structs' = <<>> /\ seen' = <<>> /\ next' = 1 /\ pc' = "add" /\ UNCHANGED <<dir, json>>
    BY <1>1 DEF Begin
  <2>2. structs' \in Seq(Struct) /\ Len(structs') = 0
    BY <2>1
  <2> QED
    BY <2>1, <2>2 DEF CallsInv, Finished, Path
<1>2. ASSUME NEW s \in Struct, AddStruct(s) PROVE CallsInv'
  BY <1>2, AddStep
<1>3. ASSUME Raise PROVE CallsInv'
  BY <1>3 DEF Raise, CallsInv, Finished, Path
<1>4. CASE EndAdd
  <2>1. /\ pc = "add" /\ pc' = "emit"
        /\ UNCHANGED <<structs, seen, dir, dump, json, next, outcome>>
    BY <1>4 DEF EndAdd
  <2>2. next = 1 /\ seen = structs
    BY <2>1 DEF CallsInv
  <2>3. WrittenUpTo(next - 1)'
    BY <2>1, <2>2 DEF WrittenUpTo
  <2> QED
    BY <2>1, <2>2, <2>3 DEF CallsInv, Finished, Path
<1>5. CASE Emit
  BY <1>5, EmitStep
<1>6. CASE EndEmit
  <2>1. /\ pc = "emit" /\ pc' = "user" /\ next > Len(structs)
        /\ UNCHANGED <<structs, seen, dir, dump, json, next>>
    BY <1>6 DEF EndEmit
  <2>2. next = Len(structs) + 1 /\ seen = structs /\ WrittenUpTo(next - 1)
    BY <2>1 DEF CallsInv
  <2>3. WrittenUpTo(next - 1)'
    BY <2>1, <2>2 DEF WrittenUpTo, LastAmong, PathFor
  <2> QED
    BY <2>1, <2>2, <2>3 DEF CallsInv, Finished, Path
<1>7. CASE UNCHANGED vars
  BY <1>7 DEF vars, CallsInv, Finished, Path, WrittenUpTo, LastAmong
<1> QED
  BY <1>1, <1>2, <1>3, <1>4, <1>5, <1>6, <1>7 DEF Next, AddFails, EmitFails

\* It is an invariant.
LEMMA CallsInvariant == Spec => []CallsInv
<1>1. Init => CallsInv
  <2> SUFFICES ASSUME Init PROVE CallsInv
    OBVIOUS
  <2>1. next = 1 /\ pc = "user" /\ outcome = ""
    BY DEF Init
  <2>2. structs \in Seq(Struct) /\ Len(structs) = 0
    BY EmptySeq DEF Init
  <2>3. DOMAIN dir = Path /\ DOMAIN json = Path
    BY DEF Init
  <2>4. next \in 1..Len(structs) + 1 /\ \A i \in 1..Len(structs) : Complete(structs[i]) /\ Dumped(structs[i])
    <3>1. Len(structs) = 0 /\ next = 1
      BY <2>1, <2>2
    <3>2. next \in 1..Len(structs) + 1
      BY <3>1
    <3>3. 1..Len(structs) = {}
      BY <3>1
    <3> QED
      BY <3>2, <3>3
  <2>5. pc \in {"user", "add", "emit"} /\ pc # "add" /\ pc # "emit" /\ ~Finished
    BY <2>1 DEF Finished
  <2> QED
    BY <2>2, <2>3, <2>4, <2>5 DEF CallsInv
<1>2. CallsInv /\ [Next]_vars => CallsInv'
  BY CallStep
<1> QED
  BY <1>1, <1>2, PTL DEF Spec

\* A call of make_config_structs that ends without an error has written every
\* struct that the subsystems returned, over whatever an earlier call left, and
\* of two structs that share a file it keeps the last; also in the JSON files.
THEOREM OkIsWritten == Spec => []OkMeansWritten
<1>1. CallsInv => OkMeansWritten
  <2> SUFFICES ASSUME CallsInv, Finished, NEW i \in DOMAIN seen
               PROVE  Complete(seen[i]) /\ (LastFor(i) =>
                        /\ dir[PathFor(seen[i])].struct = seen[i]
                        /\ dump => json[PathFor(seen[i])] = seen[i])
    BY DEF OkMeansWritten, Finished
  <2>1. seen = structs /\ next - 1 = Len(structs) /\ WrittenUpTo(next - 1)
    BY DEF CallsInv
  <2>2. i \in 1..Len(structs) /\ Complete(structs[i])
    BY <2>1 DEF CallsInv
  <2> QED
    BY <2>1, <2>2 DEF LastFor, WrittenUpTo, LastAmong
<1> QED
  BY <1>1, CallsInvariant, PTL

-----------------------------------------------------------------------------
(* Programs.                                                               *)

\* A dump that is accepted as far as one entry is concerned.
EntryOK(d, id) ==
  /\ DOMAIN d[id].entry = DOMAIN Entry /\ d[id].inside \in Seq(DOMAIN d)
  /\ \A a \in {"byte_size", "data_member_location", "count", "upper_bound"} :
       d[id].entry[a] \in Nat \cup {None}
  /\ Accepted(d, id)

\* What is inside an entry, and not a group, is what the kind of the entry may have.
LEMMA InsideKinds ==
  ASSUME NEW d, NEW id \in DOMAIN d, EntryOK(d, id),
         NEW i \in DOMAIN d[id].inside, KindOf(d[d[id].inside[i]].entry) # "group"
  PROVE  LET m == d[id].inside[i] IN
         /\ d[m].entry.tag \in {"subrange", "enumerator", "member"}
         /\ d[id].entry.tag \in {"structure", "union"} => d[m].entry.tag = "member"
<1> DEFINE m == d[id].inside[i]
<1> DEFINE tag == d[id].entry.tag
<1>1. tag \in DOMAIN GroupTags /\ KindOf(d[m].entry) \in GroupTags[tag]
  BY DEF EntryOK, Accepted
<1>2. KindOf(d[m].entry) = d[m].entry.tag
  BY DEF KindOf
<1> HIDE DEF m, tag
<1>3. /\ d[m].entry.tag \in {"subrange", "enumerator", "member"}
      /\ tag \in {"structure", "union"} => d[m].entry.tag = "member"
  BY <1>1, <1>2 DEF GroupTags, KindOf, m
<1> QED
  BY <1>3 DEF m, tag

\* The members are what is inside and not a group, in the order of the dump.
LEMMA MembersInside ==
  ASSUME NEW d, NEW id \in DOMAIN d, EntryOK(d, id)
  PROVE  /\ \E n \in Nat : DOMAIN Members(d, id) = 1..n /\ Members(d, id) = [k \in 1..n |-> Members(d, id)[k]]
         /\ \A k \in DOMAIN Members(d, id) :
              \E i \in DOMAIN d[id].inside :
                Members(d, id)[k] = d[id].inside[i] /\ KindOf(d[d[id].inside[i]].entry) # "group"
         /\ \A i \in DOMAIN d[id].inside :
              KindOf(d[d[id].inside[i]].entry) # "group" =>
                \E k \in DOMAIN Members(d, id) : Members(d, id)[k] = d[id].inside[i]
<1> DEFINE ids == d[id].inside
<1> DEFINE J == {j \in DOMAIN ids : KindOf(d[ids[j]].entry) # "group"}
<1> DEFINE key == [i \in J |-> i]
<1> DEFINE own == Arranged(key)
<1> DEFINE n == Cardinality(J)
<1>1. Len(ids) \in Nat /\ DOMAIN ids = 1..Len(ids)
  <2> DEFINE D == DOMAIN d
  <2>1. ids \in Seq(D)
    BY DEF EntryOK
  <2> HIDE DEF D, ids
  <2> QED
    BY <2>1, LenProperties
<1>2. IsFiniteSet(J) /\ J \subseteq Int
  <2> DEFINE len == Len(ids)
  <2>1. IsFiniteSet(1..Len(ids))
    <3>1. len \in Int /\ 1 \in Int
      BY <1>1
    <3> HIDE DEF len
    <3>2. IsFiniteSet(1..len) /\ Cardinality(1..len) = IF 1 > len THEN 0 ELSE len - 1 + 1
      BY <3>1, FS_Interval
    <3> QED
      BY <3>2 DEF len
  <2>2. J \subseteq 1..Len(ids)
    BY <1>1
  <2> QED
    BY <2>1, <2>2, FS_Subset
<1>3. Members(d, id) = [k \in DOMAIN own |-> ids[own[k]]]
  BY DEF Members
<1>4. DOMAIN key = J /\ \A i \in J : key[i] = i
  OBVIOUS
<1>5. DOMAIN own = 1..Cardinality(DOMAIN key)
  BY DEF Arranged
<1> HIDE DEF ids, key, J, n
<1>6. Keys(key)
  BY <1>2, <1>4 DEF Keys
<1>7. /\ Cardinality(DOMAIN key) \in Nat
      /\ \A k \in 1..Cardinality(DOMAIN key) : Arranged(key)[k] \in DOMAIN key
      /\ \A x \in DOMAIN key : \E k \in 1..Cardinality(DOMAIN key) : Arranged(key)[k] = x
  BY <1>6, ArrangedOrder
<1>8. /\ n \in Nat /\ DOMAIN own = 1..n /\ \A k \in 1..n : own[k] \in J
      /\ \A x \in J : \E k \in 1..n : own[k] = x
  BY <1>4, <1>5, <1>7 DEF n
<1> HIDE DEF own
<1>9. DOMAIN Members(d, id) = 1..n /\ \A k \in 1..n : Members(d, id)[k] = ids[own[k]]
  BY <1>3, <1>8
<1>10. Members(d, id) = [k \in 1..n |-> Members(d, id)[k]]
  BY <1>3, <1>8
<1>11. \A i \in J : i \in DOMAIN ids /\ KindOf(d[ids[i]].entry) # "group"
  BY DEF J
<1>12. \A i \in DOMAIN ids : KindOf(d[ids[i]].entry) # "group" => i \in J
  BY DEF J
<1>13. \A k \in DOMAIN Members(d, id) :
         \E i \in DOMAIN ids : Members(d, id)[k] = ids[i] /\ KindOf(d[ids[i]].entry) # "group"
  BY <1>8, <1>9, <1>11
<1>14. \A i \in DOMAIN ids : KindOf(d[ids[i]].entry) # "group" =>
         \E k \in DOMAIN Members(d, id) : Members(d, id)[k] = ids[i]
  BY <1>8, <1>9, <1>12
<1> QED
  BY <1>8, <1>9, <1>10, <1>13, <1>14 DEF ids

\* What the collector has of an entry.
LEMMA CollectedEntry ==
  ASSUME NEW d, NEW id \in DOMAIN Collected(d), EntryOK(d, id)
  PROVE  /\ id \in DOMAIN d
         /\ Collected(d)[id].tag = d[id].entry.tag
         /\ Collected(d)[id].byte_size = d[id].entry.byte_size
         /\ Collected(d)[id].data_member_location = d[id].entry.data_member_location
         /\ Collected(d)[id].count = d[id].entry.count
         /\ Collected(d)[id].upper_bound = d[id].entry.upper_bound
         /\ Collected(d)[id].members = Members(d, id)
<1> DEFINE e == d[id].entry
<1>1. id \in DOMAIN d /\ Collected(d)[id] = [e EXCEPT !.members = Members(d, id)]
  BY DEF Collected
<1>2. {"tag", "byte_size", "data_member_location", "count", "upper_bound", "members"} \subseteq DOMAIN e
  BY DEF EntryOK, Entry
<1> HIDE DEF e
<1> QED
  BY <1>1, <1>2 DEF e

\* The table of a program that is not refused is as the code relies on it.
LEMMA TablesRight ==
  ASSUME NEW p \in DumpedPrograms
  PROVE  /\ p \in DOMAIN Dumps /\ Tables[p] = Collected(Dumps[p])
         /\ TableOK(Tables[p]) /\ ArraysOK(Tables[p])
         /\ \A id \in DOMAIN Dumps[p] : EntryOK(Dumps[p], id)
<1> DEFINE d == Dumps[p]
<1> DEFINE T == Collected(d)
<1>1. p \in DOMAIN Dumps /\ Resolves(d) /\ Tables[p] = T
  BY DEF DumpedPrograms, Tables
<1>2. ArraysOK(T)
  BY <1>1, ArraysAssumption
<1>3. DOMAIN d \subseteq Nat /\ \A id \in DOMAIN d : EntryOK(d, id)
  BY <1>1, DumpsAssumption DEF EntryOK, Resolves
<1>4. \A id \in DOMAIN T : id \in DOMAIN d /\ d[id].entry.tag # "declaration"
  BY DEF Collected
<1>5. \A id \in DOMAIN d : d[id].entry.tag # "declaration" => id \in DOMAIN T
  BY DEF Collected
<1>6. Sane(T)
  BY <1>1 DEF Resolves
<1> HIDE DEF T, d
<1>7. ASSUME NEW t \in DOMAIN T
      PROVE  /\ T[t].byte_size \in (Nat \ {0}) \cup {None} /\ T[t].data_member_location \in Nat \cup {None}
             /\ T[t].count \in Nat \cup {None} /\ T[t].upper_bound \in Nat \cup {None}
             /\ T[t].members \in Seq(DOMAIN T)
  <2>1. t \in DOMAIN d /\ EntryOK(d, t)
    BY <1>3, <1>4
  <2>2. /\ T[t].byte_size = d[t].entry.byte_size
        /\ T[t].data_member_location = d[t].entry.data_member_location
        /\ T[t].count = d[t].entry.count /\ T[t].upper_bound = d[t].entry.upper_bound
        /\ T[t].members = Members(d, t)
    BY <2>1, CollectedEntry DEF T
  <2>3. /\ d[t].entry.byte_size \in (Nat \ {0}) \cup {None}
        /\ d[t].entry.data_member_location \in Nat \cup {None}
        /\ d[t].entry.count \in Nat \cup {None} /\ d[t].entry.upper_bound \in Nat \cup {None}
    BY <2>1 DEF EntryOK, Accepted, Extracted
  <2>4. Members(d, t) \in Seq(DOMAIN T)
    <3> DEFINE ms == Members(d, t)
    <3> DEFINE D == DOMAIN T
    <3>1. PICK n \in Nat : DOMAIN ms = 1..n /\ ms = [k \in 1..n |-> ms[k]]
      BY <2>1, MembersInside
    <3>2. ASSUME NEW k \in 1..n PROVE ms[k] \in D
      <4>1. PICK i \in DOMAIN d[t].inside :
              ms[k] = d[t].inside[i] /\ KindOf(d[d[t].inside[i]].entry) # "group"
        BY <2>1, <3>1, MembersInside
      <4>2. d[ms[k]].entry.tag \in {"subrange", "enumerator", "member"}
        BY <2>1, <4>1, InsideKinds
      <4>3. ms[k] \in DOMAIN d
        <5> DEFINE E == DOMAIN d
        <5>1. d[t].inside \in Seq(E)
          BY <2>1 DEF EntryOK
        <5> HIDE DEF E
        <5>2. d[t].inside[i] \in E
          BY <5>1, LenProperties, ElementOfSeq
        <5> QED
          BY <4>1, <5>2 DEF E
      <4> QED
        BY <4>2, <4>3, <1>5
    <3> HIDE DEF ms, D
    <3>3. ms \in Seq(D)
      BY <3>1, <3>2
    <3> QED
      BY <3>3 DEF ms, D
  <2> QED
    BY <2>2, <2>3, <2>4
<1>8. TableOK(T)
  <2>1. DOMAIN T \subseteq Nat
    BY <1>3, <1>4
  <2> QED
    BY <2>1, <1>6, <1>7 DEF TableOK
<1>9. TableOK(Tables[p]) /\ ArraysOK(Tables[p])
  BY <1>1, <1>2, <1>8
<1> QED
  BY <1>1, <1>3, <1>9 DEF T, d

\* Every type that the types in a program stand for is in the program's table,
\* and a struct or union has the members that are written directly inside it:
\* whatever the debug information of a program is, one that is not refused is
\* complete (configstruct.py:333-434, configstruct.py:549-563).
THEOREM TypesAreHeld == Spec => []TypesHeld
<1>1. CallsInv => TypesHeld
  <2> SUFFICES ASSUME CallsInv, NEW i \in DOMAIN structs
               PROVE  LET d == Dumps[structs[i].target]
                          T == Tables[structs[i].target]
                      IN  /\ \A t \in DOMAIN T : BaseType(T, t) \in DOMAIN T \cup {None}
                          /\ \A id \in DOMAIN d :
                               LET inside == {d[id].inside[k] : k \in DOMAIN d[id].inside} IN
                               d[id].entry.tag \in {"structure", "union"} =>
                                 MembersOf(T, id) = {m \in inside : d[m].entry.tag = "member"}
    BY DEF TypesHeld
  <2> DEFINE p == structs[i].target
  <2> DEFINE d == Dumps[p]
  <2> DEFINE T == Tables[p]
  <2>1. p \in DumpedPrograms
    <3>1. i \in 1..Len(structs)
      BY LenProperties DEF CallsInv
    <3> QED
      BY <3>1, SerialiserAssumption DEF CallsInv, Dumped
  <2>2. T = Collected(d) /\ TableOK(T) /\ \A id \in DOMAIN d : EntryOK(d, id)
    BY <2>1, TablesRight
  <2> HIDE DEF p, d, T
  <2>3. ASSUME NEW t \in DOMAIN T PROVE BaseType(T, t) \in DOMAIN T \cup {None}
    BY <2>2, BaseTypeHeld DEF TableOK
  <2>4. ASSUME NEW id \in DOMAIN d, d[id].entry.tag \in {"structure", "union"}
        PROVE  MembersOf(T, id) =
                 {m \in {d[id].inside[k] : k \in DOMAIN d[id].inside} : d[m].entry.tag = "member"}
    <3> DEFINE ids == d[id].inside
    <3> DEFINE ms == Members(d, id)
    <3>1. EntryOK(d, id)
      BY <2>2
    <3>2. T[id].members = ms
      <4>1. id \in DOMAIN Collected(d)
        BY <2>4 DEF Collected
      <4> QED
        BY <2>2, <3>1, <4>1, CollectedEntry
    <3>3. MembersOf(T, id) = {ms[k] : k \in DOMAIN ms}
      BY <3>2 DEF MembersOf
    <3>4. ASSUME NEW k \in DOMAIN ms
          PROVE  \E j \in DOMAIN ids : ms[k] = ids[j] /\ d[ms[k]].entry.tag = "member"
      <4>1. PICK j \in DOMAIN ids : ms[k] = ids[j] /\ KindOf(d[ids[j]].entry) # "group"
        BY <3>1, MembersInside
      <4> QED
        BY <4>1, <3>1, <2>4, InsideKinds
    <3>5. ASSUME NEW j \in DOMAIN ids, d[ids[j]].entry.tag = "member"
          PROVE  \E k \in DOMAIN ms : ms[k] = ids[j]
      <4>1. KindOf(d[ids[j]].entry) # "group"
        BY <3>5 DEF KindOf, GroupTags
      <4> QED
        BY <4>1, <3>1, MembersInside
    <3> HIDE DEF ms, ids
    <3>6. {ms[k] : k \in DOMAIN ms} = {m \in {ids[k] : k \in DOMAIN ids} : d[m].entry.tag = "member"}
      BY <3>4, <3>5
    <3> QED
      BY <3>3, <3>6 DEF ids
  <2> QED
    BY <2>3, <2>4 DEF p, d, T
<1> QED
  BY <1>1, CallsInvariant, PTL

\* A file that is there holds the bytes of a struct that is complete and whose
\* program was dumped.
FilesInv ==
  \A p \in Path : dir[p] # Nothing =>
    LET s == dir[p].struct IN
    /\ s \in Struct /\ Complete(s) /\ Dumped(s)
    /\ dir[p].blob = Serialise(s) /\ Serialise(s) # NoBlob

\* No step breaks it.
LEMMA FilesStep ==
  ASSUME CallsInv, FilesInv, [Next]_vars
  PROVE  FilesInv'
<1>1. CASE Emit
  <2> DEFINE s == structs[next]
  <2>1. /\ next <= Len(structs) /\ Serialise(s) # NoBlob
        /\ dir' = [dir EXCEPT ![PathFor(s)] = [struct |-> s, blob |-> Serialise(s)]]
    BY <1>1 DEF Emit
  <2>2. next \in 1..Len(structs)
    BY <2>1 DEF CallsInv
  <2>3. s \in Struct /\ Complete(s) /\ Dumped(s)
    BY <2>2, ElementOfSeq DEF CallsInv
  <2> HIDE DEF s
  <2> SUFFICES ASSUME NEW p \in Path, dir'[p] # Nothing
               PROVE  LET r == dir'[p].struct IN
                      /\ r \in Struct /\ Complete(r) /\ Dumped(r)
                      /\ dir'[p].blob = Serialise(r) /\ Serialise(r) # NoBlob
    BY DEF FilesInv, Path
  <2>4. CASE p = PathFor(s)
    <3>1. p \in DOMAIN dir
      BY DEF CallsInv
    <3>2. dir'[p] = [struct |-> s, blob |-> Serialise(s)]
      BY <2>1, <2>4, <3>1
    <3> QED
      BY <3>2, <2>1, <2>3
  <2>5. CASE p # PathFor(s)
    <3>1. dir'[p] = dir[p]
      BY <2>1, <2>5 DEF CallsInv
    <3> QED
      BY <3>1 DEF FilesInv
  <2> QED
    BY <2>4, <2>5
<1>2. CASE UNCHANGED dir
  BY <1>2 DEF FilesInv, Path
<1>3. ~Emit => UNCHANGED dir
  BY DEF Next, vars, Begin, AddStruct, AddFails, Raise, EndAdd, EmitFails, EndEmit
<1> QED
  BY <1>1, <1>2, <1>3

\* It is an invariant.
LEMMA FilesInvariant == Spec => []FilesInv
<1>1. Init => FilesInv
  BY DEF Init, FilesInv
<1>2. CallsInv /\ FilesInv /\ [Next]_vars => FilesInv'
  BY FilesStep
<1> QED
  BY <1>1, <1>2, CallsInvariant, PTL DEF Spec

\* Of a file that was written, the table of its program, and the types that its
\* struct may stand for.
LEMMA WrittenFacts ==
  ASSUME FilesInv, NEW p \in Written
  PROVE  LET s == dir[p].struct
             T == Tables[s.target]
             ts == Named(T, s.type)
         IN  /\ s.value \in Value
             /\ TableOK(T) /\ ArraysOK(T) /\ FindType(T, s.type) # None /\ ts # {}
             /\ dir[p].blob # Fail /\ dir[p].blob = Flatten(T, FindType(T, s.type), s.value)
<1> DEFINE s == dir[p].struct
<1> DEFINE T == Tables[s.target]
<1>1. /\ s \in Struct /\ Complete(s) /\ Dumped(s)
      /\ dir[p].blob = Serialise(s) /\ Serialise(s) # NoBlob
  BY DEF FilesInv, Written
<1>2. s.value \in Value
  BY <1>1, StructAssumption
<1>3. TableOK(T) /\ ArraysOK(T)
  BY <1>1, TablesRight, SerialiserAssumption DEF Dumped
<1>4. Serialise(s) = Blob(s) /\ Blob(s) # Fail
  BY <1>1, SerialiserAssumption
<1> HIDE DEF s
<1>5. FindType(T, s.type) # None /\ Blob(s) = Flatten(T, FindType(T, s.type), s.value)
  BY <1>4 DEF Blob, TypeOf
<1>6. Named(T, s.type) # {}
  BY <1>5 DEF FindType
<1> QED
  BY <1>1, <1>2, <1>3, <1>4, <1>5, <1>6 DEF s

\* Whatever the types in a program are: a file that was written, in whichever
\* order and over whatever file, is read by C as the struct it was written for,
\* under each definition of the struct's type - every number, wherever it is
\* and however it is signed, every string, and nothing but zeros in between.
THEOREM BytesAreRight == Spec => []BlobsRight
<1>1. FilesInv => BlobsRight
  <2> SUFFICES ASSUME FilesInv, NEW p \in Written,
                      NEW t \in Named(Tables[dir[p].struct.target], dir[p].struct.type)
               PROVE  LET s == dir[p].struct
                          T == Tables[s.target]
                      IN  Means(T, BaseType(T, t), dir[p].blob, s.value)
    BY DEF BlobsRight
  <2> DEFINE s == dir[p].struct
  <2> DEFINE T == Tables[s.target]
  <2> DEFINE bs == dir[p].blob
  <2>1. /\ s.value \in Value /\ TableOK(T) /\ ArraysOK(T) /\ FindType(T, s.type) # None
        /\ bs # Fail /\ bs = Flatten(T, FindType(T, s.type), s.value)
    BY WrittenFacts
  <2>2. t \in Named(T, s.type)
    OBVIOUS
  <2> HIDE DEF s, T, bs
  <2>3. BaseType(T, t) \in DOMAIN T /\ Flatten(T, BaseType(T, t), s.value) = bs
    BY <2>1, <2>2, FoundAlike
  <2>4. Means(T, BaseType(T, t), bs, s.value)
    BY <2>1, <2>3, FlattenRight
  <2> QED
    BY <2>4 DEF s, T, bs
<1> QED
  BY <1>1, FilesInvariant, PTL

\* Wherever C looks for a string in a file, it ends inside its array.
THEOREM StringsAreTerminated == Spec => []StringsTerminated
<1>1. FilesInv => StringsTerminated
  <2> SUFFICES ASSUME FilesInv, NEW p \in Written
               PROVE  LET s == dir[p].struct
                          T == Tables[s.target]
                      IN  StringsEnd(T, BaseType(T, First(Named(T, s.type))), dir[p].blob, s.value)
    BY DEF StringsTerminated
  <2> DEFINE s == dir[p].struct
  <2> DEFINE T == Tables[s.target]
  <2> DEFINE bs == dir[p].blob
  <2> DEFINE u == FindType(T, s.type)
  <2>1. /\ s.value \in Value /\ TableOK(T) /\ ArraysOK(T) /\ u # None /\ Named(T, s.type) # {}
        /\ bs # Fail /\ bs = Flatten(T, u, s.value)
    BY WrittenFacts
  <2>2. PICK t \in Named(T, s.type) : TRUE
    BY <2>1
  <2> HIDE DEF s, T, bs
  <2>3. u = BaseType(T, First(Named(T, s.type))) /\ First(Named(T, s.type)) \in DOMAIN T
    BY <2>1, FoundAlike
  <2>4. u \in DOMAIN T
    BY <2>1, <2>3, BaseTypeHeld DEF TableOK
  <2> HIDE DEF u
  <2>5. StringsEnd(T, u, bs, s.value)
    BY <2>1, <2>4, FlattenRight
  <2> QED
    BY <2>3, <2>5 DEF s, T, bs
<1> QED
  BY <1>1, FilesInvariant, PTL

-----------------------------------------------------------------------------
(* What can be written is not refused.                                     *)

\* The half of the numbers that some bytes have.
LEMMA PowerHalf ==
  ASSUME NEW k \in Nat \ {0}
  PROVE  /\ Power(k) \div 2 \in Nat \ {0} /\ Power(k) \in Nat \ {0}
         /\ Power(k) = 2 * (Power(k) \div 2)
<1>1. k - 1 \in Nat /\ (k - 1) + 1 = k
  OBVIOUS
<1>2. Power(k - 1) \in Nat \ {0} /\ Power((k - 1) + 1) = Byte * Power(k - 1)
  BY <1>1, PowerFacts
<1>3. Byte \in Nat \ {0} /\ Byte % 2 = 0
  BY ByteAssumption
<1>4. PICK h \in Int : Byte = 2 * h
  BY <1>3, IsMultiple
<1> DEFINE x == Power(k - 1)
<1> DEFINE y == h * x
<1>5. Power(k) = Byte * x /\ x \in Nat \ {0}
  BY <1>1, <1>2
<1> HIDE DEF x
<1>6. h \in Nat \ {0}
  BY <1>3, <1>4
<1>7. y \in Nat \ {0} /\ Byte * x = 2 * y
  BY <1>4, <1>5, <1>6
<1> HIDE DEF y
<1>8. (2 * y) \div 2 = y
  BY <1>7
<1> QED
  BY <1>5, <1>7, <1>8

\* The numbers of an encoding.
InRange(encoding, half, n) ==
  \/ encoding = "boolean" /\ n \in {0, 1}
  \/ encoding \in {"unsigned", "unsigned_char"} /\ n \in 0..2 * half - 1
  \/ encoding \in {"signed", "signed_char"} /\ n \in -half..half - 1

\* A number in the range of its type is not refused.
LEMMA IntAccepted ==
  ASSUME NEW encoding, NEW size \in Nat \ {0}, NEW v, v.kind = "int", v.n \in Int,
         InRange(encoding, Power(size) \div 2, v.n)
  PROVE  FlatInt(encoding, size, v) # Fail
<1> DEFINE P == Power(size)
<1> DEFINE half == P \div 2
<1> DEFINE n == v.n
<1> DEFINE u == n % P
<1>1. half \in Nat \ {0} /\ P \in Nat \ {0} /\ P = 2 * half
  BY PowerHalf
<1>2. n \in Int /\ InRange(encoding, half, n)
  OBVIOUS
<1>3. Wrapped(encoding, size, n) =
        IF encoding = "boolean" THEN (IF n = 0 THEN 0 ELSE 1)
        ELSE IF encoding \in {"signed", "signed_char"} /\ u >= half THEN u - P ELSE u
  BY DEF Wrapped
<1> HIDE DEF P, half, n
<1>4. u \in 0..P - 1
  BY <1>1, <1>2, DivMod
<1>5. n \in 0..P - 1 => u = n
  BY <1>1
<1>6. n \in -half..-1 => u = n + P
  <2> SUFFICES ASSUME n \in -half..-1 PROVE u = n + P
    OBVIOUS
  <2>1. n + P \in 0..P - 1 /\ P * (-1) + (n + P) = n
    BY <1>1
  <2>2. (P * (-1) + (n + P)) % P = n + P
    BY <2>1, <1>1, Remainder
  <2> QED
    BY <2>1, <2>2
<1> HIDE DEF u
<1>7. Wrapped(encoding, size, n) = n
  <2>1. CASE encoding = "boolean" /\ n \in {0, 1}
    BY <2>1, <1>3
  <2>2. CASE encoding \in {"unsigned", "unsigned_char"} /\ n \in 0..2 * half - 1
    <3>1. u = n
      BY <2>2, <1>1, <1>5
    <3> QED
      BY <3>1, <2>2, <1>3
  <2>3. CASE encoding \in {"signed", "signed_char"} /\ n \in -half..half - 1
    <3>1. Wrapped(encoding, size, n) = IF u >= half THEN u - P ELSE u
      BY <2>3, <1>3
    <3>2. CASE n >= 0
      <4>1. u = n /\ u < half
        BY <2>3, <3>2, <1>1, <1>2, <1>5
      <4> QED
        BY <3>1, <4>1, <1>1, <1>2
    <3>3. CASE n < 0
      <4>1. n \in -half..-1
        BY <2>3, <3>3, <1>1, <1>2
      <4>2. u = n + P /\ u >= half
        BY <4>1, <2>3, <1>1, <1>2, <1>6
      <4> QED
        BY <3>1, <4>2, <1>1, <1>2
    <3> QED
      BY <3>2, <3>3, <1>2
  <2> QED
    BY <2>1, <2>2, <2>3, <1>2 DEF InRange
<1>8. FlatInt(encoding, size, v) = LittleEndian(u, size)
  BY <1>7 DEF FlatInt, n, u, P
<1>9. Len(LittleEndian(u, size)) = size
  <2>1. u \in Nat /\ u < Power(size)
    BY <1>1, <1>4 DEF P
  <2> QED
    BY <2>1, UnsignedBytes
<1> QED
  BY <1>8, <1>9, FailTyped

\* The terminator of a string.
Terminators == {Num(0), Text(<<0>>)}

\* The bytes of a terminator end in zero.
LEMMA ZeroLast ==
  ASSUME NEW e, e.byte_size \in Nat \ {0}, NEW v \in Terminators, FlatBase(e, v) # Fail
  PROVE  FlatBase(e, v)[Len(FlatBase(e, v))] = 0
<1> DEFINE size == e.byte_size
<1> DEFINE P == Power(size)
<1>1. CASE v = Num(0)
  <2>1. FlatBase(e, v) = FlatInt(e.encoding, size, v)
    BY <1>1 DEF FlatBase, Num
  <2>2. v.n = 0
    BY <1>1 DEF Num
  <2>3. FlatBase(e, v) = LittleEndian(0 % P, size)
    BY <2>1, <2>2 DEF FlatInt
  <2>4. P \in Nat \ {0}
    BY PowerHalf
  <2> HIDE DEF P
  <2>5. 0 % P = 0
    BY <2>4
  <2>6. 0 < Power(size)
    BY <2>4 DEF P
  <2>7. Len(LittleEndian(0, size)) = size
    BY <2>6, UnsignedBytes
  <2>8. LittleEndian(0, size)[size] = (0 \div Power(size - 1)) % Byte
    BY DEF LittleEndian
  <2>9. (0 \div Power(size - 1)) % Byte = 0
    <3> DEFINE Q == Power(size - 1)
    <3>1. size - 1 \in Nat
      OBVIOUS
    <3>2. Q \in Nat \ {0} /\ Byte \in Nat \ {0}
      BY <3>1, PowerFacts, ByteAssumption
    <3> HIDE DEF Q
    <3>3. 0 \div Q = 0
      BY <3>2
    <3>4. 0 % Byte = 0
      BY <3>2
    <3> QED
      BY <3>3, <3>4 DEF Q
  <2> QED
    BY <2>3, <2>5, <2>7, <2>8, <2>9
<1>2. CASE v = Text(<<0>>)
  <2>1. v.kind = "text" /\ v.chars = <<0>>
    BY <1>2 DEF Text
  <2>2. FlatBase(e, v) = <<0>>
    BY <2>1 DEF FlatBase, FlatChar
  <2> QED
    BY <2>2
<1> QED
  BY <1>1, <1>2 DEF Terminators

\* A number or a character that fits its type is not refused.
LEMMA BaseAccepted ==
  ASSUME NEW T, NEW t \in DOMAIN T, NEW fits, NEW v \in Value, RepresentableBy(T, fits, t, v),
         v.kind # "empty", T[t].tag = "base"
  PROVE  FlatBase(T[t], v) # Fail
<1> DEFINE e == T[t]
<1>1. e.encoding \in DOMAIN BaseSizes /\ e.byte_size \in BaseSizes[e.encoding]
  BY DEF RepresentableBy, Supported
<1>2. e.byte_size \in Nat \ {0}
  BY <1>1 DEF BaseSizes
<1>3. CASE v.kind = "int"
  <2>1. InRange(e.encoding, Power(e.byte_size) \div 2, v.n)
    BY <1>3 DEF RepresentableBy, InRange
  <2>2. v.n \in Int
    BY <1>3, ValueAssumption
  <2>3. FlatInt(e.encoding, e.byte_size, v) # Fail
    BY <1>2, <1>3, <2>1, <2>2, IntAccepted
  <2> QED
    BY <2>3, <1>1, <1>3 DEF FlatBase
<1>4. CASE v.kind \in {"text", "bytes"}
  <2>1. /\ e.encoding \in {"unsigned_char", "signed_char"} /\ Len(v.chars) = 1
        /\ v.kind = "text" => v.chars[1] < Byte \div 2
    BY <1>4 DEF RepresentableBy
  <2>2. FlatBase(e, v) = v.chars
    BY <2>1, <1>1, <1>4 DEF FlatBase, FlatChar
  <2>3. v.chars # Fail
    <3> DEFINE cs == v.chars
    <3>1. Len(cs) = 1 /\ Len(Fail) = 0
      BY <2>1, FailTyped
    <3> HIDE DEF cs
    <3>2. cs # Fail
      BY <3>1
    <3> QED
      BY <3>2 DEF cs
  <2> QED
    BY <2>2, <2>3
<1> QED
  BY <1>3, <1>4 DEF RepresentableBy

\* An address is not refused.
LEMMA PointerAccepted ==
  ASSUME NEW T, NEW t \in DOMAIN T, NEW fits, NEW v \in Value, RepresentableBy(T, fits, t, v),
         v.kind # "empty", T[t].tag = "pointer"
  PROVE  FlatPointer(T[t], v) # Fail
<1>1. T[t].byte_size = None /\ v.kind = "int" /\ v.n \in 0..Power(8) - 1
  BY DEF RepresentableBy, Supported
<1>2. v.n \in Int
  BY <1>1, ValueAssumption
<1>3. InRange("unsigned", Power(8) \div 2, v.n)
  <2> DEFINE half == Power(8) \div 2
  <2>1. Power(8) = 2 * half
    BY PowerHalf
  <2> HIDE DEF half
  <2>2. v.n \in 0..2 * half - 1
    BY <1>1, <2>1
  <2> QED
    BY <2>2 DEF InRange, half
<1>4. FlatInt("unsigned", 8, v) # Fail
  BY <1>1, <1>2, <1>3, IntAccepted
<1> QED
  BY <1>1, <1>4 DEF FlatPointer

\* Lists of one length in a row: the last entry is the last one of the last.
LEMMA EvenRow ==
  ASSUME NEW S, NEW es \in Seq(Seq(S)), NEW n \in Nat \ {0},
         \A i \in 1..Len(es) : Len(es[i]) = n
  PROVE  /\ Len(FlattenSeq(es)) = Len(es) * n
         /\ Len(es) > 0 => FlattenSeq(es)[Len(FlattenSeq(es))] = es[Len(es)][n]
<1> DEFINE m == Len(es)
<1> DEFINE F == FlattenSeq(es)
<1>1. m \in Nat
  <2> DEFINE U == Seq(S)
  <2>1. es \in Seq(U)
    OBVIOUS
  <2> HIDE DEF U
  <2> QED
    BY <2>1, LenProperties
<1>2. PICK o : BlockEnds(o, n, m)
  BY <1>1, Blocks
<1>3. /\ o[0] = 0 /\ o[m] = m * n
      /\ \A i \in 1..m : o[i] = o[i - 1] + n
  BY <1>2 DEF BlockEnds
<1>4. InRow(es, o, S)
  <2>1. Offsets(o, es)
    BY <1>3 DEF Offsets
  <2> QED
    BY <2>1, FlattenAt
<1>5. /\ Len(F) = o[m]
      /\ \A i \in 1..m : \A j \in 1..Len(es[i]) : F[o[i - 1] + j] = es[i][j]
  BY <1>4 DEF InRow
<1> HIDE DEF m, F
<1>6. ASSUME m > 0 PROVE F[Len(F)] = es[m][n]
  <2>1. m \in 1..m /\ n \in 1..n
    BY <1>1, <1>6
  <2>2. Len(es[m]) = n
    BY <2>1 DEF m
  <2>3. F[o[m - 1] + n] = es[m][n] /\ o[m] = o[m - 1] + n
    BY <2>1, <2>2, <1>3, <1>5
  <2> QED
    BY <2>3, <1>5
<1> QED
  BY <1>3, <1>5, <1>6 DEF m, F

\* What the levels below yield for the terminator of a string.
EndsZero(T, flat) ==
  \A u \in DOMAIN T, w \in Value :
    T[u].tag = "base" /\ w \in Terminators /\ flat[<<u, w>>] # Fail =>
      flat[<<u, w>>][Len(flat[<<u, w>>])] = 0

\* What fits below is not refused below.
Accepts(T, fits, flat) ==
  \A u \in DOMAIN T, w \in Value : fits[<<u, w>>] => flat[<<u, w>>] # Fail

\* An array whose entries fit, with a terminator in a string that fills it, is
\* not refused.
LEMMA ArrayAccepted ==
  ASSUME NEW T, TableOK(T), ArraysOK(T), NEW t \in DOMAIN T, T[t].tag = "array",
         NEW fits, NEW flat, FlatSized(T, flat), EndsZero(T, flat), Accepts(T, fits, flat),
         NEW v \in Value, v.kind # "empty", RepresentableBy(T, fits, t, v)
  PROVE  FlatArray(T, flat, t, v) # Fail
<1> DEFINE b == BaseType(T, t)
<1> DEFINE xs == Items(v)
<1> DEFINE m == Len(xs)
<1> DEFINE c == ArrayCount(T, t)
<1> DEFINE n == T[b].byte_size
<1> DEFINE es == [i \in DOMAIN xs |-> flat[<<b, xs[i]>>]]
<1> DEFINE blob == FlattenSeq(es)
<1>1. b # None /\ n # None /\ (T[b].name = "char" => T[b].tag = "base")
  BY DEF RepresentableBy, Supported
<1>2. /\ Iterable(v) /\ c > 0 /\ m <= c
      /\ \A i \in DOMAIN xs : fits[<<b, xs[i]>>]
      /\ T[b].name = "char" /\ m = c => xs[m] \in Terminators
  BY DEF RepresentableBy, Terminators
<1>3. b \in DOMAIN T
  BY <1>1, BaseTypeHeld DEF TableOK
<1>4. n \in Nat \ {0} /\ SizeOf(T, b) = n
  <2>1. n \in Nat \ {0}
    BY <1>1, <1>3 DEF TableOK
  <2>2. SizeOf(T, b) = n
    BY <1>1, <1>3, SizeValues
  <2> QED
    BY <2>1, <2>2
<1>5. xs \in Seq(Value) /\ m \in Nat /\ DOMAIN xs = 1..m /\ \A i \in 1..m : xs[i] \in Value
  BY <1>2, ItemsTyped
<1>6. c \in Nat
  BY CountTyped
<1>7. es = [i \in 1..m |-> flat[<<b, xs[i]>>]]
  BY <1>5
<1>8. ArrayFits(T, flat, t, v) <=>
        /\ b # None /\ c # 0 /\ n # None /\ Iterable(v) /\ ~(m > c)
        /\ \A i \in DOMAIN es : es[i] # Fail
        /\ ~(T[b].name = "char" /\ Len(blob) = c * n /\ blob[Len(blob)] # 0)
  BY DEF ArrayFits
<1> HIDE DEF b, m, n, c, xs
<1>9. \A i \in 1..m : es[i] = flat[<<b, xs[i]>>] /\ es[i] # Fail /\ es[i] \in Blobs /\ Len(es[i]) = n
  <2> SUFFICES ASSUME NEW i \in 1..m
               PROVE  /\ es[i] = flat[<<b, xs[i]>>] /\ es[i] # Fail /\ es[i] \in Blobs
                      /\ Len(es[i]) = n
    OBVIOUS
  <2>1. es[i] = flat[<<b, xs[i]>>] /\ xs[i] \in Value /\ fits[<<b, xs[i]>>]
    BY <1>2, <1>5, <1>7
  <2>2. flat[<<b, xs[i]>>] # Fail
    BY <2>1, <1>3 DEF Accepts
  <2>3. flat[<<b, xs[i]>>] \in Blobs /\ Len(flat[<<b, xs[i]>>]) = SizeOf(T, b)
    BY <2>1, <2>2, <1>3 DEF FlatSized
  <2> QED
    BY <2>1, <2>2, <2>3, <1>4
<1> DEFINE B == 0..Byte - 1
<1>10. es \in Seq(Seq(B)) /\ Len(es) = m
  <2> DEFINE U == Seq(B)
  <2>1. \A i \in 1..m : es[i] \in U
    BY <1>9 DEF Blobs
  <2>2. es = [i \in 1..m |-> es[i]]
    BY <1>7
  <2> HIDE DEF U, es
  <2>3. es \in Seq(U) /\ Len(es) = m
    BY <2>1, <2>2, <1>5
  <2> QED
    BY <2>3 DEF U
<1>11. DOMAIN es = 1..m
  BY <1>7
<1> HIDE DEF es, B
<1>12. Len(blob) = m * n /\ (m > 0 => blob[Len(blob)] = es[m][n])
  BY <1>4, <1>9, <1>10, EvenRow
<1> HIDE DEF blob
<1>13. ASSUME T[b].name = "char", Len(blob) = c * n PROVE blob[Len(blob)] = 0
  <2>1. m = c
    <3>1. m * n = c * n
      BY <1>12, <1>13
    <3>2. ASSUME m < c PROVE FALSE
      <4> DEFINE d == c - m
      <4>1. d \in Nat \ {0} /\ c = m + d
        BY <3>2, <1>5, <1>6
      <4> HIDE DEF d
      <4> DEFINE X == m * n
      <4> DEFINE Y == d * n
      <4>2. c * n = X + Y /\ Y \in Nat \ {0} /\ X \in Nat
        BY <4>1, <1>4, <1>5
      <4> HIDE DEF X, Y
      <4>3. X = X + Y
        BY <4>2, <3>1 DEF X
      <4> QED
        BY <4>2, <4>3
    <3> QED
      BY <3>2, <1>2, <1>5, <1>6
  <2>2. m > 0 /\ m \in 1..m
    BY <2>1, <1>2, <1>5
  <2>3. xs[m] \in Terminators /\ xs[m] \in Value /\ T[b].tag = "base"
    BY <2>1, <2>2, <1>1, <1>2, <1>5, <1>13
  <2>4. es[m] = flat[<<b, xs[m]>>] /\ es[m] # Fail /\ Len(es[m]) = n
    BY <2>2, <1>9
  <2>5. es[m][n] = 0
    BY <2>3, <2>4, <1>3 DEF EndsZero
  <2> QED
    BY <2>2, <2>5, <1>12
<1>14. ArrayFits(T, flat, t, v)
  <2>1. c # 0 /\ ~(m > c)
    BY <1>2, <1>5, <1>6
  <2> QED
    BY <2>1, <1>1, <1>2, <1>8, <1>9, <1>11, <1>13
<1>15. ArrayRight(T, flat, t, FlatArray(T, flat, t, v), v)
  BY <1>14, ArrayParts
<1>16. Len(FlatArray(T, flat, t, v)) = SizeOf(T, t)
  BY <1>15 DEF ArrayRight
<1>17. SizeOf(T, t) = c * n
  <2>1. CASE T[t].byte_size = None
    BY <2>1, <1>1, SizeValues DEF b, c, n
  <2>2. CASE T[t].byte_size # None
    <3>1. T[t].byte_size = c * SizeOf(T, b)
      BY <2>2, <1>1 DEF ArraysOK, b, c
    <3>2. SizeOf(T, t) = T[t].byte_size
      BY <2>2, SizeValues
    <3> QED
      BY <3>1, <3>2, <1>4
  <2> QED
    BY <2>1, <2>2
<1>18. c * n > 0
  BY <1>2, <1>4, <1>6
<1> QED
  BY <1>16, <1>17, <1>18, FailTyped

\* A struct whose members fit and do not overlap is not refused.
LEMMA StructAccepted ==
  ASSUME NEW T, TableOK(T), NEW t \in DOMAIN T, T[t].tag = "structure",
         NEW fits, NEW flat, FlatSized(T, flat), Accepts(T, fits, flat),
         NEW v \in Value, v.kind # "empty", RepresentableBy(T, fits, t, v)
  PROVE  FlatStruct(T, flat, t, v) # Fail
<1> DEFINE n == Len(T[t].members)
<1> DEFINE mem(i) == ByLocation(T, t)[i]
<1> DEFINE start(i) == T[mem(i)].data_member_location
<1> DEFINE blobs == MemberBlobs(T, flat, t, v)
<1> DEFINE end(i) == IF i = 0 THEN 0 ELSE start(i) + Len(blobs[i])
<1> DEFINE size == T[t].byte_size
<1>1. /\ size # None /\ Apart(T, t)
      /\ \A m \in MembersOf(T, t) :
           /\ BaseType(T, m) # None
           /\ Extent(T, m) \subseteq 1..size
           /\ \A k \in MembersOf(T, t) \ {m} : Extent(T, m) \cap Extent(T, k) = {}
  BY DEF RepresentableBy, Supported
<1>2. /\ v.kind = "config" /\ FieldsMatch(T, t, v)
      /\ \A m \in MembersOf(T, t) : fits[<<BaseType(T, m), v.fields[T[m].name]>>]
  BY DEF RepresentableBy
<1>3. n \in Nat /\ size \in Nat \ {0}
  BY <1>1, MembersFacts DEF TableOK
<1>4. /\ DOMAIN ByLocation(T, t) = 1..n
      /\ \A i \in 1..n : mem(i) \in MembersOf(T, t) /\ mem(i) \in DOMAIN T
      /\ \A i, j \in 1..n : i < j => start(i) <= start(j) /\ start(i) # start(j)
  BY <1>1, LocationOrder
<1>5. ASSUME NEW i \in 1..n
      PROVE  /\ blobs[i] # Fail /\ start(i) \in Nat /\ Len(blobs[i]) \in Nat \ {0}
             /\ Extent(T, mem(i)) = start(i) + 1..start(i) + Len(blobs[i])
  <2> DEFINE m == mem(i)
  <2> DEFINE w == v.fields[T[m].name]
  <2> DEFINE u == BaseType(T, m)
  <2>1. m \in MembersOf(T, t) /\ m \in DOMAIN T /\ i \in DOMAIN ByLocation(T, t)
    BY <1>4
  <2>2. blobs[i] = IF u = None THEN Fail ELSE flat[<<u, w>>]
    BY <2>1 DEF MemberBlobs
  <2>3. u # None /\ fits[<<u, w>>]
    BY <2>1, <1>1, <1>2
  <2>4. u \in DOMAIN T
    BY <2>1, <2>3, BaseTypeHeld DEF TableOK
  <2>5. w \in Value
    <3>1. PICK j \in DOMAIN T[t].members : m = T[t].members[j]
      BY <2>1 DEF MembersOf
    <3>2. T[m].name \in DOMAIN v.fields
      BY <3>1, <1>2 DEF FieldsMatch
    <3> QED
      BY <3>2, <1>2, ValueAssumption
  <2>6. flat[<<u, w>>] # Fail
    BY <2>3, <2>4, <2>5 DEF Accepts
  <2>7. blobs[i] # Fail
    BY <2>2, <2>3, <2>6
  <2>8. MemberAt(T, flat, t, v, i)
    BY <2>7, <1>2, MemberFacts
  <2>9. /\ start(i) \in Nat /\ Len(blobs[i]) \in Nat /\ blobs[i] \in Blobs
        /\ Len(blobs[i]) = SizeOf(T, u)
    BY <2>8 DEF MemberAt
  <2>10. Len(blobs[i]) # 0
    <3> DEFINE bl == blobs[i]
    <3> DEFINE B == 0..Byte - 1
    <3>1. bl \in Seq(B) /\ bl # <<>>
      BY <2>7, <2>9 DEF Blobs, Fail
    <3> HIDE DEF bl, B
    <3>2. Len(bl) # 0
      BY <3>1, EmptySeq
    <3> QED
      BY <3>2 DEF bl
  <2>11. Extent(T, mem(i)) = start(i) + 1..start(i) + SizeOf(T, u)
    BY DEF Extent
  <2> QED
    BY <2>7, <2>9, <2>10, <2>11
<1> DEFINE at == [i \in 1..n |-> start(i)]
<1> DEFINE ln == [i \in 1..n |-> Len(blobs[i])]
<1> DEFINE ext == [i \in 1..n |-> Extent(T, mem(i))]
<1>6. \A i \in 1..n : /\ at[i] = start(i) /\ ln[i] = Len(blobs[i]) /\ end(i) = at[i] + ln[i]
                      /\ at[i] \in Nat /\ ln[i] \in Nat \ {0} /\ ext[i] = at[i] + 1..at[i] + ln[i]
                      /\ ext[i] \subseteq 1..size
  <2> SUFFICES ASSUME NEW i \in 1..n
               PROVE  /\ at[i] = start(i) /\ ln[i] = Len(blobs[i]) /\ end(i) = at[i] + ln[i]
                      /\ at[i] \in Nat /\ ln[i] \in Nat \ {0} /\ ext[i] = at[i] + 1..at[i] + ln[i]
                      /\ ext[i] \subseteq 1..size
    OBVIOUS
  <2>1. at[i] = start(i) /\ ln[i] = Len(blobs[i]) /\ ext[i] = Extent(T, mem(i))
    OBVIOUS
  <2>2. end(i) = start(i) + Len(blobs[i])
    BY <1>3
  <2>3. Extent(T, mem(i)) \subseteq 1..size
    BY <1>1, <1>4
  <2> QED
    BY <2>1, <2>2, <2>3, <1>5
<1>7. \A i, j \in 1..n : i < j => at[i] < at[j] /\ ext[i] \cap ext[j] = {}
  <2> SUFFICES ASSUME NEW i \in 1..n, NEW j \in 1..n, i < j
               PROVE  at[i] < at[j] /\ ext[i] \cap ext[j] = {}
    OBVIOUS
  <2>1. start(i) <= start(j) /\ start(i) # start(j)
    BY <1>4
  <2>2. mem(i) # mem(j)
    BY <2>1
  <2>3. Extent(T, mem(i)) \cap Extent(T, mem(j)) = {}
    BY <2>2, <1>1, <1>4
  <2>4. ext[i] \cap ext[j] = {}
    BY <2>3
  <2> HIDE DEF ext, mem
  <2>5. at[i] <= at[j] /\ at[i] # at[j]
    BY <2>1
  <2>6. at[i] \in Nat /\ at[j] \in Nat
    BY <1>6
  <2> HIDE DEF at
  <2> QED
    BY <2>4, <2>5, <2>6
<1>8. end(0) = 0
  OBVIOUS
<1>9. StructFits(T, flat, t, v) <=>
        /\ FieldsMatch(T, t, v)
        /\ \A i \in 1..n : blobs[i] # Fail /\ ~(end(i - 1) > start(i))
        /\ ~(end(n) > size)
  BY DEF StructFits
<1> HIDE DEF n, mem, start, blobs, end, size, at, ln, ext
<1>10. ASSUME NEW i \in 1..n PROVE ~(end(i - 1) > start(i))
  <2>1. CASE i = 1
    <3>1. i - 1 = 0 /\ start(i) \in Nat
      BY <2>1, <1>6
    <3> QED
      BY <3>1, <1>8
  <2>2. CASE i # 1
    <3> DEFINE j == i - 1
    <3>1. j \in 1..n /\ j < i
      BY <2>2, <1>3
    <3> HIDE DEF j
    <3>2. /\ at[j] < at[i] /\ ext[j] \cap ext[i] = {}
          /\ at[j] \in Nat /\ ln[j] \in Nat /\ at[i] \in Nat /\ ln[i] \in Nat \ {0}
          /\ ext[j] = at[j] + 1..at[j] + ln[j] /\ ext[i] = at[i] + 1..at[i] + ln[i]
          /\ end(j) = at[j] + ln[j] /\ start(i) = at[i]
      BY <3>1, <1>6, <1>7
    <3>3. at[i] + 1 \in ext[i]
      BY <3>2
    <3>4. at[i] + 1 \notin ext[j]
      BY <3>2, <3>3
    <3>5. at[j] + ln[j] <= at[i]
      BY <3>2, <3>4
    <3>6. ~(end(j) > start(i))
      BY <3>2, <3>5
    <3> QED
      BY <3>6 DEF j
  <2> QED
    BY <2>1, <2>2
<1>11. ~(end(n) > size)
  <2>1. CASE n = 0
    BY <2>1, <1>3, <1>8
  <2>2. CASE n # 0
    <3>1. n \in 1..n
      BY <2>2, <1>3
    <3>2. /\ at[n] \in Nat /\ ln[n] \in Nat \ {0} /\ ext[n] = at[n] + 1..at[n] + ln[n]
          /\ ext[n] \subseteq 1..size /\ end(n) = at[n] + ln[n]
      BY <3>1, <1>6
    <3>3. at[n] + ln[n] \in ext[n]
      BY <3>2
    <3>4. at[n] + ln[n] \in 1..size
      BY <3>2, <3>3
    <3> QED
      BY <3>2, <3>4, <1>3
  <2> QED
    BY <2>1, <2>2
<1>12. \A i \in 1..n : blobs[i] # Fail
  BY <1>5
<1>13. StructFits(T, flat, t, v)
  BY <1>2, <1>9, <1>10, <1>11, <1>12
<1>14. StructRight(T, flat, t, FlatStruct(T, flat, t, v), v)
  BY <1>13, StructParts
<1>15. Len(FlatStruct(T, flat, t, v)) = size
  <2>1. SizeOf(T, t) = size
    BY <1>1, SizeValues DEF size
  <2> QED
    BY <2>1, <1>14 DEF StructRight
<1> QED
  BY <1>3, <1>15, FailTyped

\* One level of the serialiser refuses nothing that fits.
LEMMA StepAccepted ==
  ASSUME NEW T, TableOK(T), ArraysOK(T), NEW t \in DOMAIN T,
         NEW fits, NEW flat, FlatSized(T, flat), EndsZero(T, flat), Accepts(T, fits, flat),
         NEW v \in Value, RepresentableBy(T, fits, t, v)
  PROVE  FlatBy(T, flat, t, v) # Fail
<1>1. CASE v.kind = "empty"
  <2>1. T[t].tag \in {"structure", "base"}
    BY <1>1 DEF RepresentableBy, Iterable
  <2>2. T[t].byte_size # None
    <3>1. CASE T[t].tag = "structure"
      BY <3>1 DEF RepresentableBy, Supported
    <3>2. CASE T[t].tag = "base"
      <4>1. T[t].encoding \in DOMAIN BaseSizes /\ T[t].byte_size \in BaseSizes[T[t].encoding]
        BY <3>2 DEF RepresentableBy, Supported
      <4> QED
        BY <4>1 DEF BaseSizes, None
    <3> QED
      BY <2>1, <3>1, <3>2
  <2>3. T[t].byte_size \in Nat \ {0}
    BY <2>2 DEF TableOK
  <2>4. FlatBy(T, flat, t, v) = Zeros(T[t].byte_size)
    BY <1>1, <2>2 DEF FlatBy
  <2>5. Len(Zeros(T[t].byte_size)) = T[t].byte_size
    BY <2>3, ZeroBytes
  <2> QED
    BY <2>3, <2>4, <2>5, FailTyped
<1>2. CASE v.kind # "empty" /\ T[t].tag = "pointer"
  <2>1. FlatBy(T, flat, t, v) = FlatPointer(T[t], v)
    BY <1>2 DEF FlatBy
  <2> QED
    BY <2>1, <1>2, PointerAccepted
<1>3. CASE v.kind # "empty" /\ T[t].tag = "base"
  <2>1. FlatBy(T, flat, t, v) = FlatBase(T[t], v)
    BY <1>3 DEF FlatBy
  <2> QED
    BY <2>1, <1>3, BaseAccepted
<1>4. CASE v.kind # "empty" /\ T[t].tag = "array"
  <2>1. FlatBy(T, flat, t, v) = FlatArray(T, flat, t, v)
    BY <1>4 DEF FlatBy
  <2> QED
    BY <2>1, <1>4, ArrayAccepted
<1>5. CASE v.kind # "empty" /\ T[t].tag = "structure"
  <2>1. FlatBy(T, flat, t, v) = FlatStruct(T, flat, t, v)
    BY <1>5 DEF FlatBy
  <2> QED
    BY <2>1, <1>5, StructAccepted
<1>6. CASE v.kind # "empty" /\ T[t].tag \notin {"pointer", "base", "array", "structure"}
  BY <1>6 DEF RepresentableBy
<1> QED
  BY <1>1, <1>2, <1>3, <1>4, <1>5, <1>6

\* A type and a value, and one level of what fits.
Pairs(T) == (DOMAIN T) \X Value
FitsStep(T, fits) == [p \in Pairs(T) |-> RepresentableBy(T, fits, p[1], p[2])]

\* The levels of what fits.
LEMMA FitsLevels ==
  ASSUME NEW T
  PROVE  /\ RepresentableWithin(T)[0] = [p \in Pairs(T) |-> FALSE]
         /\ \A k \in 1..MaxNesting : RepresentableWithin(T)[k] = FitsStep(T, RepresentableWithin(T)[k - 1])
<1> DEFINE M == MaxNesting
<1> DEFINE S == [Pairs(T) -> BOOLEAN]
<1> DEFINE f0 == [p \in Pairs(T) |-> FALSE]
<1> DEFINE W == [g \in S |-> FitsStep(T, g)]
<1>1. M \in Nat /\ f0 \in S
  BY NestingAssumption
<1>2. \A g \in S : W[g] = FitsStep(T, g) /\ W[g] \in S
  <2> SUFFICES ASSUME NEW g \in S PROVE W[g] = FitsStep(T, g) /\ W[g] \in S
    OBVIOUS
  <2>1. ASSUME NEW p \in Pairs(T) PROVE RepresentableBy(T, g, p[1], p[2]) \in BOOLEAN
    BY DEF RepresentableBy
  <2>2. FitsStep(T, g) \in S
    BY <2>1 DEF FitsStep
  <2> QED
    BY <2>2
<1> DEFINE Solves(e) == e = [k \in 0..M |-> IF k = 0 THEN f0 ELSE FitsStep(T, e[k - 1])]
<1>3. RepresentableWithin(T) = CHOOSE e : Solves(e)
  BY DEF RepresentableWithin, FitsStep, Pairs
<1> HIDE DEF S, f0, M, W
<1>4. PICK f : Levels(f, f0, W, M) /\ \A k \in 0..M : f[k] \in S
  BY <1>1, <1>2, LevelRecursion
<1>5. Solves(f)
  <2>1. f = [k \in 0..M |-> IF k = 0 THEN f0 ELSE W[f[k - 1]]]
    BY <1>4 DEF Levels
  <2>2. \A k \in 0..M : k # 0 => k - 1 \in 0..M
    BY <1>1
  <2>3. \A k \in 0..M : k # 0 => W[f[k - 1]] = FitsStep(T, f[k - 1])
    BY <2>2, <1>2, <1>4
  <2> QED
    BY <2>1, <2>3
<1>6. Solves(RepresentableWithin(T))
  <2>1. Solves(CHOOSE e : Solves(e))
    BY <1>5, Zenon
  <2> QED
    BY <1>3, <2>1
<1> DEFINE c == RepresentableWithin(T)
<1> HIDE DEF c
<1>7. c[0] = f0 /\ \A k \in 1..M : c[k] = FitsStep(T, c[k - 1])
  BY <1>6, <1>1 DEF c
<1> QED
  BY <1>7 DEF c, f0, M

\* At every level, what fits is written.
LEMMA LevelsAccepted ==
  ASSUME NEW T, TableOK(T), ArraysOK(T)
  PROVE  \A k \in 0..MaxNesting : Accepts(T, RepresentableWithin(T)[k], FlatWithin(T)[k])
<1> DEFINE M == MaxNesting
<1> DEFINE F == FlatWithin(T)
<1> DEFINE R == RepresentableWithin(T)
<1> DEFINE G == {k \in 0..M : Accepts(T, R[k], F[k]) /\ EndsZero(T, F[k])}
<1>1. M \in Nat
  BY NestingAssumption
<1>2. /\ F[0] = [p \in (DOMAIN T) \X Value |-> Fail]
      /\ \A k \in 1..M : F[k] = FlatStep(T, F[k - 1])
      /\ \A k \in 0..M : FlatSized(T, F[k])
  BY FlatLevels
<1>3. /\ R[0] = [p \in Pairs(T) |-> FALSE]
      /\ \A k \in 1..M : R[k] = FitsStep(T, R[k - 1])
  BY FitsLevels
<1> HIDE DEF M, F, R
<1>4. 0 \in G
  <2>1. \A u \in DOMAIN T, w \in Value : F[0][<<u, w>>] = Fail
    BY <1>2
  <2>2. \A u \in DOMAIN T, w \in Value : ~R[0][<<u, w>>]
    BY <1>3 DEF Pairs
  <2> QED
    BY <2>1, <2>2, <1>1 DEF Accepts, EndsZero
<1>5. ASSUME NEW k \in 1..M, k - 1 \in G PROVE k \in G
  <2> DEFINE g == F[k - 1]
  <2> DEFINE r == R[k - 1]
  <2>1. k \in 0..M /\ FlatSized(T, g) /\ Accepts(T, r, g) /\ EndsZero(T, g)
    BY <1>5, <1>1, <1>2
  <2>2. F[k] = FlatStep(T, g) /\ R[k] = FitsStep(T, r)
    BY <1>2, <1>3
  <2> HIDE DEF g, r, G
  <2>3. ASSUME NEW u \in DOMAIN T, NEW w \in Value
        PROVE  F[k][<<u, w>>] = FlatBy(T, g, u, w) /\ R[k][<<u, w>>] = RepresentableBy(T, r, u, w)
    BY <2>2 DEF FlatStep, FitsStep, Pairs
  <2>4. Accepts(T, R[k], F[k])
    <3> SUFFICES ASSUME NEW u \in DOMAIN T, NEW w \in Value, R[k][<<u, w>>]
                 PROVE  F[k][<<u, w>>] # Fail
      BY DEF Accepts
    <3>1. RepresentableBy(T, r, u, w)
      BY <2>3
    <3>2. FlatBy(T, g, u, w) # Fail
      BY <2>1, <3>1, StepAccepted
    <3> QED
      BY <3>2, <2>3
  <2>5. EndsZero(T, F[k])
    <3> SUFFICES ASSUME NEW u \in DOMAIN T, NEW w \in Value, T[u].tag = "base", w \in Terminators,
                        F[k][<<u, w>>] # Fail
                 PROVE  F[k][<<u, w>>][Len(F[k][<<u, w>>])] = 0
      BY DEF EndsZero
    <3>1. w.kind # "empty"
      BY DEF Terminators, Num, Text
    <3>2. F[k][<<u, w>>] = FlatBase(T[u], w)
      BY <2>3, <3>1 DEF FlatBy
    <3>3. T[u].byte_size \in Nat \ {0}
      <4>1. T[u].encoding \in DOMAIN BaseSizes /\ T[u].byte_size \in BaseSizes[T[u].encoding]
        BY <3>2 DEF FlatBase
      <4> QED
        BY <4>1 DEF BaseSizes
    <3> QED
      BY <3>2, <3>3, ZeroLast
  <2> QED
    BY <2>1, <2>4, <2>5 DEF G
<1> HIDE DEF G
<1>6. 0..M \subseteq G
  BY <1>1, <1>4, <1>5, UpTo
<1> QED
  BY <1>6 DEF G, M, F, R

\* One level of what is one definition.
OneStep(T, one) == [p \in SamePairs(T) |-> OneDefinitionBy(T, one, p[1], p[2])]

\* The levels of what is one definition.
LEMMA OneLevels ==
  ASSUME NEW T
  PROVE  /\ OneDefinitionWithin(T)[0] = [p \in SamePairs(T) |-> FALSE]
         /\ \A k \in 1..MaxNesting : OneDefinitionWithin(T)[k] = OneStep(T, OneDefinitionWithin(T)[k - 1])
<1> DEFINE M == MaxNesting
<1> DEFINE S == [SamePairs(T) -> BOOLEAN]
<1> DEFINE f0 == [p \in SamePairs(T) |-> FALSE]
<1> DEFINE W == [g \in S |-> OneStep(T, g)]
<1>1. M \in Nat /\ f0 \in S
  BY NestingAssumption
<1>2. \A g \in S : W[g] = OneStep(T, g) /\ W[g] \in S
  <2> SUFFICES ASSUME NEW g \in S PROVE W[g] = OneStep(T, g) /\ W[g] \in S
    OBVIOUS
  <2>1. ASSUME NEW p \in SamePairs(T) PROVE OneDefinitionBy(T, g, p[1], p[2]) \in BOOLEAN
    BY DEF OneDefinitionBy
  <2>2. OneStep(T, g) \in S
    BY <2>1 DEF OneStep
  <2> QED
    BY <2>2
<1> DEFINE Solves(e) == e = [k \in 0..M |-> IF k = 0 THEN f0 ELSE OneStep(T, e[k - 1])]
<1>3. OneDefinitionWithin(T) = CHOOSE e : Solves(e)
  BY DEF OneDefinitionWithin, OneStep, SamePairs
<1> HIDE DEF S, f0, M, W
<1>4. PICK f : Levels(f, f0, W, M) /\ \A k \in 0..M : f[k] \in S
  BY <1>1, <1>2, LevelRecursion
<1>5. Solves(f)
  <2>1. f = [k \in 0..M |-> IF k = 0 THEN f0 ELSE W[f[k - 1]]]
    BY <1>4 DEF Levels
  <2>2. \A k \in 0..M : k # 0 => k - 1 \in 0..M
    BY <1>1
  <2>3. \A k \in 0..M : k # 0 => W[f[k - 1]] = OneStep(T, f[k - 1])
    BY <2>2, <1>2, <1>4
  <2> QED
    BY <2>1, <2>3
<1>6. Solves(OneDefinitionWithin(T))
  <2>1. Solves(CHOOSE e : Solves(e))
    BY <1>5, Zenon
  <2> QED
    BY <1>3, <2>1
<1> DEFINE c == OneDefinitionWithin(T)
<1> HIDE DEF c
<1>7. c[0] = f0 /\ \A k \in 1..M : c[k] = OneStep(T, c[k - 1])
  BY <1>6, <1>1 DEF c
<1> QED
  BY <1>7 DEF c, f0, M

\* The first n numbers of a row are in ascending order, and in another row.
Ascends(n, a) ==
  /\ \A i \in 1..n : a[i] \in Nat
  /\ \A i, j \in 1..n : i < j => a[i] < a[j]
Occurs(n, a, b) == \A i \in 1..n : \E j \in 1..n : a[i] = b[j]

\* The next number of one row is not less than that of the other.
LEMMA NotBefore ==
  ASSUME NEW n \in Nat, NEW a, NEW b, Ascends(n, a), Ascends(n, b), NEW k \in 1..n,
         \A i \in 1..n : i < k => a[i] = b[i], NEW j \in 1..n, a[k] = b[j]
  PROVE  b[k] <= a[k]
<1>1. ~(j < k)
  <2> SUFFICES ASSUME j < k PROVE FALSE
    OBVIOUS
  <2>1. a[j] = b[j] /\ a[j] < a[k] /\ a[k] \in Nat
    BY DEF Ascends
  <2> QED
    BY <2>1
<1>2. b[k] \in Nat /\ b[j] \in Nat /\ (k < j => b[k] < b[j])
  BY DEF Ascends
<1> QED
  BY <1>1, <1>2

\* Rows of numbers in ascending order are determined by which they are.
LEMMA SameAscending ==
  ASSUME NEW n \in Nat, NEW a, NEW b, Ascends(n, a), Ascends(n, b),
         Occurs(n, a, b), Occurs(n, b, a)
  PROVE  \A i \in 1..n : a[i] = b[i]
<1> DEFINE G == {k \in 0..n : \A i \in 1..k : a[i] = b[i]}
<1>1. 0 \in G
  OBVIOUS
<1>2. ASSUME NEW k \in 1..n, k - 1 \in G PROVE k \in G
  <2>1. \A i \in 1..n : i < k => a[i] = b[i]
    BY <1>2
  <2>2. b[k] <= a[k]
    <3>1. PICK j \in 1..n : a[k] = b[j]
      BY DEF Occurs
    <3> QED
      BY <2>1, <3>1, NotBefore
  <2>3. a[k] <= b[k]
    <3>1. PICK j \in 1..n : b[k] = a[j]
      BY DEF Occurs
    <3>2. \A i \in 1..n : i < k => b[i] = a[i]
      BY <2>1
    <3> QED
      BY <3>1, <3>2, NotBefore
  <2>4. a[k] = b[k]
    BY <2>2, <2>3 DEF Ascends
  <2>5. \A h \in 1..k : h \in 1..n /\ (h = k \/ h < k)
    OBVIOUS
  <2> QED
    BY <2>1, <2>4, <2>5
<1> HIDE DEF G
<1>3. 0..n \subseteq G
  BY <1>1, <1>2, UpTo
<1>4. n \in G
  BY <1>3
<1> QED
  BY <1>4 DEF G

\* What is one definition below is equal below, and at one place.
Finds(T, one, same) ==
  \A x, y \in DOMAIN T : one[<<x, y>>] =>
    same[<<x, y>>] /\ T[x].data_member_location = T[y].data_member_location

\* Equal members stand at the same position once they are in the order of their
\* places.
LEMMA StructFound ==
  ASSUME NEW T, TableOK(T), NEW t \in DOMAIN T, NEW u \in DOMAIN T, NEW one, NEW same,
         Finds(T, one, same), OneDefinitionBy(T, one, t, u), T[t].tag = "structure"
  PROVE  \A i \in 1..Len(T[t].members) : same[<<ByLocation(T, t)[i], ByLocation(T, u)[i]>>]
<1> DEFINE n == Len(T[t].members)
<1> DEFINE p == ByLocation(T, t)
<1> DEFINE q == ByLocation(T, u)
<1> DEFINE at(m) == T[m].data_member_location
<1> DEFINE A == MembersOf(T, t)
<1> DEFINE B == MembersOf(T, u)
<1>1. /\ n = Len(T[u].members) /\ Located(T, t) /\ Located(T, u) /\ Apart(T, t) /\ Apart(T, u)
      /\ \A x \in A : \E y \in B : one[<<x, y>>]
      /\ \A y \in B : \E x \in A : one[<<x, y>>]
  BY DEF OneDefinitionBy
<1>2. n \in Nat
  BY MembersFacts
<1>3. /\ \A i \in 1..n : p[i] \in A /\ p[i] \in DOMAIN T
      /\ \A m \in A : \E i \in 1..n : p[i] = m
      /\ \A i, j \in 1..n : i < j => at(p[i]) <= at(p[j]) /\ at(p[i]) # at(p[j])
  BY <1>1, LocationOrder
<1>4. /\ \A i \in 1..n : q[i] \in B /\ q[i] \in DOMAIN T
      /\ \A m \in B : \E i \in 1..n : q[i] = m
      /\ \A i, j \in 1..n : i < j => at(q[i]) <= at(q[j]) /\ at(q[i]) # at(q[j])
  <2> DEFINE k == Len(T[u].members)
  <2>1. /\ \A i \in 1..k : q[i] \in B /\ q[i] \in DOMAIN T
        /\ \A m \in B : \E i \in 1..k : q[i] = m
        /\ \A i, j \in 1..k : i < j => at(q[i]) <= at(q[j]) /\ at(q[i]) # at(q[j])
    BY <1>1, LocationOrder
  <2>2. k = n
    BY <1>1
  <2> HIDE DEF k, n, q, at, B
  <2> QED
    BY <2>1, <2>2
<1>5. \A m \in A \cup B : m \in DOMAIN T /\ at(m) \in Nat
  <2>1. \A m \in A : \E i \in DOMAIN T[t].members : m = T[t].members[i]
    BY DEF MembersOf
  <2>2. \A m \in B : \E i \in DOMAIN T[u].members : m = T[u].members[i]
    BY DEF MembersOf
  <2>3. \A m \in A \cup B : at(m) # None
    BY <2>1, <2>2, <1>1 DEF Located
  <2>4. \A m \in A \cup B : m \in DOMAIN T
    BY <1>3, <1>4
  <2> QED
    BY <2>3, <2>4 DEF TableOK
<1> DEFINE a == [i \in 1..n |-> at(p[i])]
<1> DEFINE b == [i \in 1..n |-> at(q[i])]
<1> HIDE DEF n, p, q, A, B
<1>6. \A i \in 1..n : a[i] = at(p[i]) /\ b[i] = at(q[i]) /\ a[i] \in Nat /\ b[i] \in Nat
  BY <1>3, <1>4, <1>5
<1> HIDE DEF a, b, at
<1>7. \A i, j \in 1..n : i < j => a[i] < a[j] /\ b[i] < b[j]
  <2> SUFFICES ASSUME NEW i \in 1..n, NEW j \in 1..n, i < j PROVE a[i] < a[j] /\ b[i] < b[j]
    OBVIOUS
  <2>1. a[i] <= a[j] /\ a[i] # a[j] /\ b[i] <= b[j] /\ b[i] # b[j]
    BY <1>3, <1>4, <1>6
  <2>2. a[i] \in Nat /\ a[j] \in Nat /\ b[i] \in Nat /\ b[j] \in Nat
    BY <1>6
  <2> QED
    BY <2>1, <2>2
<1>8. \A x, y \in DOMAIN T : one[<<x, y>>] => same[<<x, y>>] /\ at(x) = at(y)
  BY DEF Finds, at
<1>9. \A i \in 1..n : \E j \in 1..n : one[<<p[i], q[j]>>] /\ a[i] = b[j]
  <2> SUFFICES ASSUME NEW i \in 1..n PROVE \E j \in 1..n : one[<<p[i], q[j]>>] /\ a[i] = b[j]
    OBVIOUS
  <2>1. PICK y \in B : one[<<p[i], y>>]
    BY <1>1, <1>3 DEF A, B
  <2>2. PICK j \in 1..n : q[j] = y
    BY <1>4
  <2>3. at(p[i]) = at(q[j])
    BY <2>1, <2>2, <1>3, <1>4, <1>8
  <2> QED
    BY <2>1, <2>2, <2>3, <1>6
<1>10. \A j \in 1..n : \E i \in 1..n : b[j] = a[i]
  <2> SUFFICES ASSUME NEW j \in 1..n PROVE \E i \in 1..n : b[j] = a[i]
    OBVIOUS
  <2>1. PICK x \in A : one[<<x, q[j]>>]
    BY <1>1, <1>4 DEF A, B
  <2>2. PICK i \in 1..n : p[i] = x
    BY <1>3
  <2>3. at(p[i]) = at(q[j])
    BY <2>1, <2>2, <1>3, <1>4, <1>8
  <2> QED
    BY <2>2, <2>3, <1>6
<1>11. \A i \in 1..n : a[i] = b[i]
  <2>1. Ascends(n, a) /\ Ascends(n, b)
    BY <1>6, <1>7 DEF Ascends
  <2>2. Occurs(n, a, b)
    BY <1>9 DEF Occurs
  <2>3. Occurs(n, b, a)
    BY <1>10 DEF Occurs
  <2> QED
    BY <2>1, <2>2, <2>3, <1>2, SameAscending
<1>12. ASSUME NEW i \in 1..n PROVE same[<<p[i], q[i]>>]
  <2>1. PICK j \in 1..n : one[<<p[i], q[j]>>] /\ a[i] = b[j]
    BY <1>9
  <2>2. b[i] = b[j] /\ b[i] \in Nat
    BY <2>1, <1>6, <1>11
  <2>3. ~(i < j) /\ ~(j < i)
    BY <2>2, <1>7
  <2>4. i = j
    BY <2>3
  <2> QED
    BY <2>1, <2>4, <1>3, <1>4, <1>8
<1> QED
  BY <1>12 DEF n, p, q

\* One level of __eq__ finds what is one definition equal.
LEMMA StepFound ==
  ASSUME NEW T, TableOK(T), NEW t \in DOMAIN T, NEW u \in DOMAIN T, NEW one, NEW same,
         Finds(T, one, same), OneDefinitionBy(T, one, t, u)
  PROVE  SameBy(T, same, t, u) /\ T[t].data_member_location = T[u].data_member_location
<1>1. SameAttributes(T[t], T[u]) /\ Len(T[t].members) = Len(T[u].members)
  BY DEF OneDefinitionBy
<1>2. T[t].data_member_location = T[u].data_member_location
  BY <1>1 DEF SameAttributes, Entry
<1>3. CASE T[t].tag \in {"base", "pointer"}
  BY <1>1, <1>2, <1>3 DEF SameBy
<1>4. CASE T[t].tag \in {"typedef", "member", "array"}
  <2>1. /\ BaseType(T, t) # None /\ BaseType(T, u) # None /\ one[<<BaseType(T, t), BaseType(T, u)>>]
        /\ T[t].tag = "array" => Dimensions(T, t) = Dimensions(T, u)
    BY <1>4 DEF OneDefinitionBy
  <2>2. BaseType(T, t) \in DOMAIN T /\ BaseType(T, u) \in DOMAIN T
    BY <2>1, BaseTypeHeld DEF TableOK
  <2>3. same[<<BaseType(T, t), BaseType(T, u)>>]
    BY <2>1, <2>2 DEF Finds
  <2> QED
    BY <2>1, <2>3, <1>1, <1>2, <1>4 DEF SameBy
<1>5. CASE T[t].tag = "structure"
  <2>1. Sortable(T, t) /\ Sortable(T, u)
    BY <1>5 DEF OneDefinitionBy, Sortable
  <2>2. \A i \in 1..Len(T[t].members) : same[<<ByLocation(T, t)[i], ByLocation(T, u)[i]>>]
    BY <1>5, StructFound
  <2>3. DOMAIN T[t].members = 1..Len(T[t].members)
    BY MembersFacts
  <2> QED
    BY <2>1, <2>2, <2>3, <1>1, <1>2, <1>5 DEF SameBy
<1> QED
  BY <1>3, <1>4, <1>5 DEF OneDefinitionBy

\* At every level, what is one definition is equal.
LEMMA LevelsFound ==
  ASSUME NEW T, TableOK(T)
  PROVE  \A k \in 0..MaxNesting : Finds(T, OneDefinitionWithin(T)[k], SameWithin(T)[k])
<1> DEFINE M == MaxNesting
<1> DEFINE D == OneDefinitionWithin(T)
<1> DEFINE E == SameWithin(T)
<1> DEFINE G == {k \in 0..M : Finds(T, D[k], E[k])}
<1>1. M \in Nat
  BY NestingAssumption
<1>2. /\ D[0] = [p \in SamePairs(T) |-> FALSE]
      /\ \A k \in 1..M : D[k] = OneStep(T, D[k - 1])
  BY OneLevels
<1>3. \A k \in 1..M : E[k] = SameStep(T, E[k - 1])
  BY SameLevels
<1> HIDE DEF M, D, E
<1>4. 0 \in G
  <2>1. \A x, y \in DOMAIN T : ~D[0][<<x, y>>]
    BY <1>2 DEF SamePairs
  <2> QED
    BY <2>1, <1>1 DEF Finds
<1>5. ASSUME NEW k \in 1..M, k - 1 \in G PROVE k \in G
  <2> DEFINE d == D[k - 1]
  <2> DEFINE e == E[k - 1]
  <2>1. k \in 0..M /\ Finds(T, d, e)
    BY <1>5, <1>1
  <2>2. D[k] = OneStep(T, d) /\ E[k] = SameStep(T, e)
    BY <1>2, <1>3
  <2> HIDE DEF d, e, G
  <2>3. ASSUME NEW x \in DOMAIN T, NEW y \in DOMAIN T, D[k][<<x, y>>]
        PROVE  E[k][<<x, y>>] /\ T[x].data_member_location = T[y].data_member_location
    <3>1. D[k][<<x, y>>] = OneDefinitionBy(T, d, x, y) /\ E[k][<<x, y>>] = SameBy(T, e, x, y)
      BY <2>2 DEF OneStep, SameStep, SamePairs
    <3>2. OneDefinitionBy(T, d, x, y)
      BY <2>3, <3>1
    <3> QED
      BY <2>1, <3>1, <3>2, StepFound
  <2> QED
    BY <2>1, <2>3 DEF G, Finds
<1> HIDE DEF G
<1>6. 0..M \subseteq G
  BY <1>1, <1>4, <1>5, UpTo
<1> QED
  BY <1>6 DEF G, M, D, E

\* The serialiser refuses nothing that it is made for: whatever the types in a
\* program are and in whichever order their members are listed, a struct of
\* which all definitions say the same, the place of the declaration included,
\* is written whenever its value can be.
THEOREM RepresentableIsAccepted == Spec => []RepresentableAccepted
<1>1. CallsInv => RepresentableAccepted
  <2> DEFINE s == structs[next]
  <2> DEFINE T == Tables[s.target]
  <2> DEFINE ts == Named(T, s.type)
  <2> DEFINE f == First(ts)
  <2> DEFINE v == s.value
  <2> SUFFICES ASSUME CallsInv, pc = "emit", next <= Len(structs),
                      ts # {}, \A t \in ts : BaseType(T, t) # None,
                      \A t, u \in ts : t # u => OneDefinition(T, t, u),
                      \A t \in ts : Representable(T, BaseType(T, t), v)
               PROVE  Serialise(s) # NoBlob
    BY DEF RepresentableAccepted
  <2>1. structs \in Seq(Struct) /\ next \in 1..Len(structs)
    BY LenProperties DEF CallsInv
  <2>2. s \in Struct /\ Complete(s) /\ Dumped(s)
    BY <2>1, ElementOfSeq DEF CallsInv
  <2>3. v \in Value /\ Serialise(s) = Blob(s) /\ NoBlob = Fail
    BY <2>2, SerialiserAssumption, StructAssumption
  <2>4. TableOK(T) /\ ArraysOK(T)
    BY <2>2, TablesRight, SerialiserAssumption DEF Dumped
  <2>5. ts \subseteq DOMAIN T /\ ts \subseteq Nat
    BY <2>4 DEF Named, TableOK
  <2>6. f \in ts
    <3>1. \E m \in ts : \A n \in ts : m <= n
      BY <2>5, LeastNat
    <3> HIDE DEF ts
    <3> QED
      BY <3>1 DEF First
  <2>7. MaxNesting \in 0..MaxNesting
    BY NestingAssumption
  <2> HIDE DEF s, T, ts, f, v
  <2>8. \A t \in ts \ {f} : Same(T, t, f)
    <3> SUFFICES ASSUME NEW t \in ts \ {f} PROVE Same(T, t, f)
      OBVIOUS
    <3>1. OneDefinition(T, t, f)
      BY <2>6
    <3>2. Finds(T, OneDefinitionWithin(T)[MaxNesting], SameWithin(T)[MaxNesting])
      BY <2>4, <2>7, LevelsFound
    <3> QED
      BY <3>1, <3>2, <2>5, <2>6 DEF OneDefinition, Same, Finds
  <2>9. FindType(T, s.type) = BaseType(T, f)
    BY <2>8 DEF FindType, ts, f
  <2> DEFINE b == BaseType(T, f)
  <2>10. b # None /\ b \in DOMAIN T /\ Representable(T, b, v)
    BY <2>4, <2>5, <2>6, BaseTypeHeld DEF TableOK
  <2> HIDE DEF b
  <2>11. Flatten(T, b, v) # Fail
    <3>1. Accepts(T, RepresentableWithin(T)[MaxNesting], FlatWithin(T)[MaxNesting])
      BY <2>4, <2>7, LevelsAccepted
    <3> QED
      BY <3>1, <2>3, <2>10 DEF Accepts, Representable, Flatten
  <2>12. Blob(s) = Flatten(T, b, v)
    BY <2>9, <2>10 DEF Blob, TypeOf, T, b, v
  <2> QED
    BY <2>3, <2>11, <2>12
<1> QED
  BY <1>1, CallsInvariant, PTL
===============================================================================
