-------------------------- MODULE DeviceTreeProofs --------------------------
(***************************************************************************)
(* Device trees, for every tree, every size of addresses on either side of *)
(* a bus, and every page size.                                             *)
(*                                                                         *)
(*   ListsRead        what the code cuts out of the blob is what the tree's*)
(*                    author wrote: the lists are concatenations of blocks *)
(*                    of one length (FlattenBlocks), so that a slice is a  *)
(*                    block or a part of it (EntrySlices), and merging the *)
(*                    digits of a number gives the number (MergeDigits).   *)
(*   InterruptsRead   the same for interrupts, with less than an entry left*)
(*                    over, and that different ones get different numbers. *)
(*   PagesFound       aligning an address before it is translated does no  *)
(*                    harm if the buses move whole pages (PageMoves).      *)
(*   InterfacesFound  both walks of Arm_GIC.create end at the page of their*)
(*                    register: where the register is for the CPU is the   *)
(*                    same from every bus of the walk (Tracked).           *)
(***************************************************************************)
EXTENDS DeviceTree, Arithmetic, SequenceTheorems, TLAPS

\* Trees are as their author can write them.
TreeOK(t) ==
  \A n \in DOMAIN t :
    /\ IF n = 0 THEN t[n].parent = None ELSE t[n].parent \in DOMAIN t /\ t[n].parent < n
    /\ t[n].addrCells \in Nat \cup {None} /\ t[n].sizeCells \in Nat \cup {None}
    /\ t[n].reg \in Seq([addr : Nat, size : Nat])
    /\ t[n].ranges \in Seq([child : Nat, parent : Nat, length : Nat])
    /\ t[n].interrupts \in Seq(Seq(Nat)) /\ t[n].stray \in Nat

-----------------------------------------------------------------------------
(* Numbers in cells.                                                       *)

\* Power is the power.
LEMMA PowerSolved ==
  ASSUME NEW n \in Nat
  PROVE  \E g :
           /\ Power(n) = g[n] /\ g[0] = 1
           /\ \A i \in 0..n : g[i] \in Nat \ {0}
           /\ \A i \in 1..n : g[i] = Word * g[i - 1]
<1> DEFINE S == Nat \ {0}
<1> DEFINE F == [x \in S \X (1..n) |-> Word * x[1]]
<1>1. \A x \in S, i \in 1..n : F[<<x, i>>] = Word * x /\ Word * x \in S
  BY WordAssumption
<1>2. 1 \in S
  OBVIOUS
<1> HIDE DEF F, S
<1>3. PICK g : /\ \A i \in 0..n : g[i] \in S
               /\ g[0] = 1 /\ \A i \in 1..n : g[i] = F[<<g[i - 1], i>>]
  <2>1. StaysIn(F, S, n)
    BY <1>1 DEF StaysIn
  <2>2. \E g : Computes(g, F, 1, n) /\ \A i \in 0..n : g[i] \in S
    BY <1>2, <2>1, FiniteRecursion
  <2> QED
    BY <2>2 DEF Computes
<1>4. \A i \in 1..n : g[i] = Word * g[i - 1]
  <2> SUFFICES ASSUME NEW i \in 1..n PROVE g[i] = Word * g[i - 1]
    OBVIOUS
  <2>1. g[i - 1] \in S
    BY <1>3
  <2> QED
    BY <2>1, <1>1, <1>3
<1> DEFINE Solves(f) == f = [i \in 0..n |-> IF i = 0 THEN 1 ELSE Word * f[i - 1]]
<1> DEFINE f == [i \in 0..n |-> g[i]]
<1>5. Solves(f)
  BY <1>3, <1>4
<1>6. PICK c : Solves(c) /\ Power(n) = c[n]
  <2>1. Solves(CHOOSE e : Solves(e))
    BY <1>5, Zenon
  <2> QED
    BY <2>1 DEF Power
<1>7. c[0] = g[0] /\ \A i \in 1..n : c[i - 1] = g[i - 1] => c[i] = g[i]
  BY <1>3, <1>4, <1>6
<1>8. \A i \in 0..n : c[i] = g[i]
  BY <1>7, SameValues
<1> QED
  BY <1>3, <1>4, <1>6, <1>8 DEF S

\* The next power is Word times as much.
LEMMA PowerFacts ==
  /\ Power(0) = 1
  /\ \A k \in Nat : Power(k) \in Nat \ {0} /\ Power(k + 1) = Word * Power(k)
<1>1. Power(0) = 1
  BY PowerSolved
<1>2. ASSUME NEW k \in Nat
      PROVE  Power(k) \in Nat \ {0} /\ Power(k + 1) = Word * Power(k)
  <2>1. PICK g : /\ Power(k) = g[k] /\ g[0] = 1
                 /\ \A i \in 0..k : g[i] \in Nat \ {0}
                 /\ \A i \in 1..k : g[i] = Word * g[i - 1]
    BY PowerSolved
  <2> DEFINE n == k + 1
  <2>2. PICK h : /\ Power(n) = h[n] /\ h[0] = 1
                 /\ \A i \in 0..n : h[i] \in Nat \ {0}
                 /\ \A i \in 1..n : h[i] = Word * h[i - 1]
    BY n \in Nat, PowerSolved
  <2>3. g[0] = h[0] /\ \A i \in 1..k : g[i - 1] = h[i - 1] => g[i] = h[i]
    BY <2>1, <2>2
  <2>4. \A i \in 0..k : g[i] = h[i]
    BY <2>3, SameValues
  <2>5. h[n] = Word * h[k]
    BY <2>2
  <2> QED
    BY <2>1, <2>2, <2>4, <2>5
<1> QED
  BY <1>1, <1>2

\* Merging the digits of a number that fits gives the number back.
LEMMA MergeDigits ==
  ASSUME NEW v \in Nat, NEW k \in Nat, Fits(v, k)
  PROVE  Digits(v, k) \in Seq(Nat) /\ Len(Digits(v, k)) = k /\ Merge(Digits(v, k)) = v
<1> DEFINE ws == Digits(v, k)
<1>1. \A j \in 0..k : Power(j) \in Nat \ {0}
  BY PowerFacts
<1>2. \A i \in 1..k : ws[i] = (v \div Power(k - i)) % Word /\ ws[i] \in Nat
  <2> SUFFICES ASSUME NEW i \in 1..k PROVE ws[i] = (v \div Power(k - i)) % Word /\ ws[i] \in Nat
    OBVIOUS
  <2>1. Power(k - i) \in Nat \ {0}
    BY <1>1
  <2>2. v \div Power(k - i) \in Int
    BY <2>1
  <2>3. (v \div Power(k - i)) % Word \in 0..Word - 1
    BY <2>2, DivMod, WordAssumption
  <2> QED
    BY <2>3, WordAssumption DEF Digits
<1>3. ws \in Seq(Nat) /\ Len(ws) = k
  BY <1>2 DEF Digits
<1> DEFINE Solves(f) == f = [i \in 0..Len(ws) |-> IF i = 0 THEN 0 ELSE f[i - 1] * Word + ws[i]]
<1> DEFINE g == [i \in 0..k |-> v \div Power(k - i)]
<1> HIDE DEF ws
<1>4. g[0] = 0
  <2>1. Power(k) \in Nat \ {0} /\ v < Power(k)
    BY <1>1 DEF Fits
  <2>2. v \div Power(k) = 0
    BY <2>1
  <2> QED
    BY <2>2
<1>5. ASSUME NEW i \in 1..k
      PROVE  g[i] = g[i - 1] * Word + ws[i]
  <2> DEFINE P == Power(k - i)
  <2>1. P \in Nat \ {0}
    BY <1>1
  <2>2. Power(k - (i - 1)) = Word * P
    <3>1. k - i \in Nat /\ (k - i) + 1 = k - (i - 1)
      OBVIOUS
    <3>2. Power((k - i) + 1) = Word * Power(k - i)
      BY <3>1, PowerFacts
    <3> QED
      BY <3>1, <3>2
  <2>3. g[i] = v \div P /\ g[i - 1] = v \div (Word * P)
    BY <2>2
  <2>4. ws[i] = (v \div P) % Word
    BY <1>2
  <2> HIDE DEF P, g
  <2>5. v \div P = Word * (v \div (Word * P)) + ((v \div P) % Word)
    BY <2>1, DivDiv, WordAssumption
  <2>6. v \div (Word * P) \in Int
    <3>1. Word * P \in Nat \ {0}
      BY <2>1, WordAssumption
    <3> QED
      BY <3>1
  <2>7. Word * (v \div (Word * P)) = (v \div (Word * P)) * Word
    BY <2>6, WordAssumption
  <2> QED
    BY <2>3, <2>4, <2>5, <2>7
<1>6. Solves(g)
  <2>1. DOMAIN g = 0..k /\ g = [i \in 0..k |-> g[i]]
    OBVIOUS
  <2> HIDE DEF g
  <2>2. \A i \in 0..k : g[i] = IF i = 0 THEN 0 ELSE g[i - 1] * Word + ws[i]
    BY <1>4, <1>5
  <2> QED
    BY <2>1, <2>2, <1>3
<1>7. PICK c : Solves(c) /\ Merge(ws) = c[k]
  <2>1. Solves(CHOOSE e : Solves(e))
    BY <1>6, Zenon
  <2> QED
    BY <2>1, <1>3 DEF Merge
<1>8. c[0] = g[0] /\ \A i \in 1..k : c[i - 1] = g[i - 1] => c[i] = g[i]
  <2>1. c[0] = 0 /\ \A i \in 1..k : c[i] = c[i - 1] * Word + ws[i]
    BY <1>3, <1>7
  <2> HIDE DEF g, Solves
  <2> QED
    BY <2>1, <1>4, <1>5
<1>9. g[k] = v
  <2>1. k - k = 0
    OBVIOUS
  <2> QED
    BY <2>1, PowerFacts
<1> HIDE DEF g, Solves
<1>10. \A i \in 0..k : c[i] = g[i]
  BY <1>8, SameValues
<1> QED
  BY <1>3, <1>7, <1>9, <1>10 DEF ws

-----------------------------------------------------------------------------
(* Lists in cells.                                                         *)

\* Lists of one length in a row: where the elements of each are.
LEMMA FlattenBlocks ==
  ASSUME NEW k \in Nat, NEW es \in Seq(Seq(Nat)), \A i \in 1..Len(es) : Len(es[i]) = k
  PROVE  /\ FlattenSeq(es) \in Seq(Nat) /\ Len(FlattenSeq(es)) = Len(es) * k
         /\ \A i \in 1..Len(es), j \in 1..k : FlattenSeq(es)[(i - 1) * k + j] = es[i][j]
<1> DEFINE m == Len(es)
<1> DEFINE S == Seq(Nat)
<1>1. m \in Nat /\ \A i \in 1..m : es[i] \in S /\ Len(es[i]) = k
  <2>1. es \in Seq(S)
    OBVIOUS
  <2> HIDE DEF S
  <2> QED
    BY <2>1
<1>2. CASE m = 0
  <2>1. es = <<>> /\ FlattenSeq(es) = es
    BY <1>2 DEF FlattenSeq
  <2>2. Len(es) * k = 0 /\ 1..Len(es) = {}
    BY <1>2
  <2>3. <<>> \in Seq(Nat) /\ Len(<<>>) = 0
    OBVIOUS
  <2> QED
    BY <2>1, <2>2, <2>3
<1>3. CASE m # 0
  <2> DEFINE Solves(f) == f = [i \in 1..m |-> IF i = 1 THEN es[i] ELSE f[i - 1] \o es[i]]
  <2>1. \E f : Solves(f)
    <3> DEFINE n == m - 1
    <3> DEFINE F == [x \in S \X (1..n) |-> x[1] \o es[x[2] + 1]]
    <3>1. n \in Nat
      BY <1>1, <1>3
    <3>2. \A x \in S, i \in 1..n : F[<<x, i>>] = x \o es[i + 1] /\ F[<<x, i>>] \in S
      <4> SUFFICES ASSUME NEW x \in S, NEW i \in 1..n
                   PROVE  F[<<x, i>>] = x \o es[i + 1] /\ F[<<x, i>>] \in S
        OBVIOUS
      <4>1. F[<<x, i>>] = x \o es[i + 1]
        OBVIOUS
      <4>2. es[i + 1] \in S
        BY <1>1
      <4> QED
        BY <4>1, <4>2, ConcatProperties
    <3>3. es[1] \in S
      BY <1>1, <1>3
    <3> HIDE DEF n, F, S
    <3>4. StaysIn(F, S, n)
      BY <3>2 DEF StaysIn
    <3>5. PICK g : Computes(g, F, es[1], n) /\ \A i \in 0..n : g[i] \in S
      BY <3>1, <3>3, <3>4, FiniteRecursion
    <3> DEFINE f == [i \in 1..m |-> g[i - 1]]
    <3>6. ASSUME NEW i \in 1..m
          PROVE  f[i] = IF i = 1 THEN es[i] ELSE f[i - 1] \o es[i]
      <4>1. CASE i = 1
        BY <4>1, <3>5 DEF Computes
      <4>2. CASE i # 1
        <5>1. i - 1 \in 1..n /\ (i - 1) - 1 \in 0..n /\ i - 1 \in 1..m /\ (i - 1) + 1 = i
          BY <4>2, <1>1 DEF n
        <5>2. g[i - 1] = F[<<g[(i - 1) - 1], i - 1>>]
          BY <5>1, <3>5 DEF Computes
        <5>3. g[(i - 1) - 1] \in S
          BY <5>1, <3>5
        <5>4. F[<<g[(i - 1) - 1], i - 1>>] = g[(i - 1) - 1] \o es[(i - 1) + 1]
          BY <5>1, <5>3, <3>2
        <5> QED
          BY <4>2, <5>1, <5>2, <5>4
      <4> QED
        BY <4>1, <4>2
    <3>7. f = [i \in 1..m |-> f[i]]
      OBVIOUS
    <3> HIDE DEF f
    <3>8. Solves(f)
      BY <3>6, <3>7
    <3> QED
      BY <3>8, Zenon
  <2>2. PICK c : Solves(c) /\ FlattenSeq(es) = c[m]
    <3>1. Solves(CHOOSE f : Solves(f))
      BY <2>1, Zenon
    <3> QED
      BY <3>1, <1>3 DEF FlattenSeq
  <2>3. c[1] = es[1] /\ \A i \in 2..m : c[i] = c[i - 1] \o es[i]
    <3>1. \A i \in 1..m : c[i] = IF i = 1 THEN es[i] ELSE c[i - 1] \o es[i]
      BY <2>2
    <3> HIDE DEF Solves, m
    <3>2. \A i \in 2..m : i \in 1..m /\ i # 1
      OBVIOUS
    <3>3. 1 \in 1..m
      BY <1>1, <1>3
    <3> QED
      BY <3>1, <3>2, <3>3
  <2> HIDE DEF Solves
  <2> DEFINE Good(i) == /\ c[i] \in S /\ Len(c[i]) = i * k
                        /\ \A h \in 1..i, j \in 1..k : c[i][(h - 1) * k + j] = es[h][j]
  <2> DEFINE G == {i \in 0..m : i # 0 => Good(i)}
  <2> HIDE DEF Good
  <2>4. ASSUME NEW i \in 1..m, i - 1 \in G
        PROVE  i \in G
    <3>1. CASE i = 1
      <4>1. c[1] \in S /\ Len(c[1]) = 1 * k
        BY <1>1, <2>3, <3>1
      <4>2. ASSUME NEW h \in 1..1, NEW j \in 1..k
            PROVE  c[1][(h - 1) * k + j] = es[h][j]
        <5>1. h = 1 /\ (h - 1) * k + j = j
          OBVIOUS
        <5> QED
          BY <5>1, <2>3
      <4>3. Good(1)
        BY <4>1, <4>2 DEF Good
      <4> QED
        BY <3>1, <4>3
    <3>2. CASE i # 1
      <4>1. i \in 2..m /\ i - 1 \in Nat /\ i \in Nat /\ Good(i - 1)
        BY <2>4, <3>2
      <4>2. c[i] = c[i - 1] \o es[i] /\ es[i] \in S /\ Len(es[i]) = k
        BY <1>1, <2>3, <4>1
      <4>3. c[i - 1] \in S /\ Len(c[i - 1]) = (i - 1) * k
        BY <4>1 DEF Good
      <4> HIDE DEF G
      <4> DEFINE q == (i - 1) * k
      <4>4. /\ c[i] \in S /\ Len(c[i]) = q + k
            /\ \A p \in 1..q + k : c[i][p] = IF p <= q THEN c[i - 1][p] ELSE es[i][p - q]
        <5>1. /\ c[i - 1] \o es[i] \in S
              /\ Len(c[i - 1] \o es[i]) = Len(c[i - 1]) + Len(es[i])
              /\ \A p \in 1..Len(c[i - 1]) + Len(es[i]) : (c[i - 1] \o es[i])[p] =
                   IF p <= Len(c[i - 1]) THEN c[i - 1][p] ELSE es[i][p - Len(c[i - 1])]
          BY <4>2, <4>3, ConcatProperties
        <5> QED
          BY <5>1, <4>2, <4>3
      <4>5. q + k = i * k /\ q \in Nat
        BY <4>1
      <4> HIDE DEF q
      <4>6. ASSUME NEW h \in 1..i, NEW j \in 1..k
            PROVE  c[i][(h - 1) * k + j] = es[h][j]
        <5> DEFINE p == (h - 1) * k + j
        <5>1. CASE h = i
          <6>1. p = q + j
            BY <5>1 DEF q
          <6> HIDE DEF p
          <6>2. p \in 1..q + k /\ ~(p <= q) /\ p - q = j
            BY <6>1, <4>5
          <6> QED
            BY <6>2, <4>4, <5>1 DEF p
        <5>2. CASE h # i
          <6>1. h - 1 \in Nat /\ h \in 1..i - 1 /\ h <= i - 1 /\ h \in Nat
            BY <5>2, <4>1
          <6> DEFINE r == (h - 1) * k
          <6>2. r \in Nat /\ r + k <= q
            <7>1. h * k <= (i - 1) * k /\ h * k = (h - 1) * k + k /\ (h - 1) * k \in Nat
              BY <6>1, <4>1, BlocksAscend
            <7> QED
              BY <7>1 DEF q
          <6> HIDE DEF r
          <6>3. p \in 1..q + k /\ p <= q
            <7>1. p = r + j
              BY DEF r
            <7> HIDE DEF p
            <7> QED
              BY <7>1, <6>2, <4>5
          <6>4. c[i][p] = c[i - 1][p]
            BY <6>3, <4>4
          <6>5. c[i - 1][p] = es[h][j]
            BY <6>1, <4>1 DEF Good
          <6> QED
            BY <6>4, <6>5
        <5> QED
          BY <5>1, <5>2
      <4> HIDE DEF S
      <4>7. Good(i)
        BY <4>4, <4>5, <4>6 DEF Good
      <4> QED
        BY <4>7 DEF G
    <3> QED
      BY <3>1, <3>2
  <2>5. 0 \in G
    BY <1>1
  <2> HIDE DEF G
  <2>6. 0..m \subseteq G
    BY <2>4, <2>5, <1>1, UpTo
  <2>7. Good(m)
    BY <2>6, <1>1, <1>3 DEF G
  <2> QED
    BY <2>2, <2>7 DEF Good
<1> QED
  BY <1>2, <1>3

\* A slice inside a list is what Python says it is.
LEMMA SliceOf ==
  ASSUME NEW s \in Seq(Nat), NEW f \in Nat, NEW t \in f..Len(s)
  PROVE  /\ Slice(s, f, t) = SubSeq(s, f + 1, t)
         /\ SubSeq(s, f + 1, t) \in Seq(Nat) /\ Len(SubSeq(s, f + 1, t)) = t - f
         /\ \A j \in 1..t - f : SubSeq(s, f + 1, t)[j] = s[f + j]
<1>1. \A j \in f + 1..t : s[j] \in Nat
  OBVIOUS
<1>2. f + 1 \in Int /\ t \in Int
  OBVIOUS
<1> DEFINE r == SubSeq(s, f + 1, t)
<1>3. /\ r \in Seq(Nat) /\ Len(r) = IF f + 1 <= t THEN t - (f + 1) + 1 ELSE 0
      /\ \A j \in 1..t - (f + 1) + 1 : r[j] = s[(f + 1) + j - 1]
  BY <1>1, <1>2, SubSeqProperties
<1>4. Slice(s, f, t) = r
  <2>1. (IF t < Len(s) THEN t ELSE Len(s)) = t
    OBVIOUS
  <2> QED
    BY <2>1 DEF Slice
<1> HIDE DEF r
<1>5. Len(r) = t - f
  BY <1>3, <1>2
<1>6. ASSUME NEW j \in 1..t - f
      PROVE  r[j] = s[f + j]
  <2>1. j \in 1..t - (f + 1) + 1 /\ (f + 1) + j - 1 = f + j
    BY <1>2
  <2> QED
    BY <2>1, <1>3
<1> QED
  BY <1>3, <1>4, <1>5, <1>6 DEF r

\* What Python's slices take out of the cells of entry i.
LEMMA BlockSlice ==
  ASSUME NEW k \in Nat, NEW es \in Seq(Seq(Nat)), \A i \in 1..Len(es) : Len(es[i]) = k,
         NEW tail \in Seq(Nat), NEW i \in 1..Len(es), NEW f \in 0..k, NEW t \in f..k
  PROVE  Slice(FlattenSeq(es) \o tail, (i - 1) * k + f, (i - 1) * k + t) = SubSeq(es[i], f + 1, t)
<1> DEFINE fl == FlattenSeq(es)
<1> DEFINE vals == fl \o tail
<1> DEFINE q == (i - 1) * k
<1>1. /\ fl \in Seq(Nat) /\ Len(fl) = Len(es) * k
      /\ \A j \in 1..k : fl[q + j] = es[i][j]
  BY FlattenBlocks
<1> HIDE DEF fl
<1>2. /\ vals \in Seq(Nat) /\ Len(vals) = Len(fl) + Len(tail)
      /\ \A j \in 1..Len(fl) + Len(tail) : vals[j] = IF j <= Len(fl) THEN fl[j] ELSE tail[j - Len(fl)]
  BY <1>1, ConcatProperties
<1>3. q \in Nat /\ q + k <= Len(fl) /\ Len(fl) \in Nat /\ Len(tail) \in Nat
  <2>1. i \in Nat /\ i <= Len(es) /\ Len(es) \in Nat /\ i - 1 \in Nat
    OBVIOUS
  <2>2. i * k <= Len(es) * k
    BY <2>1, BlocksAscend
  <2>3. i * k = (i - 1) * k + k /\ (i - 1) * k \in Nat
    BY <2>1
  <2> QED
    BY <2>1, <2>2, <2>3, <1>1
<1> HIDE DEF vals, q
<1>4. q + f \in Nat /\ q + t \in q + f..Len(vals) /\ (q + t) - (q + f) = t - f
  BY <1>2, <1>3
<1> DEFINE a == q + f
<1> DEFINE b == q + t
<1>5. a \in Nat /\ b \in a..Len(vals) /\ b - a = t - f
  BY <1>4
<1> HIDE DEF a, b
<1>6. /\ Slice(vals, a, b) \in Seq(Nat) /\ Len(Slice(vals, a, b)) = t - f
      /\ \A j \in 1..t - f : Slice(vals, a, b)[j] = vals[a + j]
  <2>1. /\ Slice(vals, a, b) = SubSeq(vals, a + 1, b)
        /\ SubSeq(vals, a + 1, b) \in Seq(Nat) /\ Len(SubSeq(vals, a + 1, b)) = b - a
        /\ \A j \in 1..b - a : SubSeq(vals, a + 1, b)[j] = vals[a + j]
    BY <1>2, <1>5, SliceOf
  <2> QED
    BY <2>1, <1>5
<1>7. es[i] \in Seq(Nat) /\ Len(es[i]) = k
  OBVIOUS
<1>8. /\ SubSeq(es[i], f + 1, t) \in Seq(Nat) /\ Len(SubSeq(es[i], f + 1, t)) = t - f
      /\ \A j \in 1..t - f : SubSeq(es[i], f + 1, t)[j] = es[i][f + j]
  BY <1>7, SliceOf
<1>9. ASSUME NEW j \in 1..t - f
      PROVE  vals[a + j] = es[i][f + j]
  <2>1. f + j \in 1..k /\ a + j = q + (f + j)
    BY <1>3 DEF a
  <2>2. a + j \in 1..Len(fl) + Len(tail) /\ a + j <= Len(fl)
    BY <2>1, <1>3
  <2>3. vals[a + j] = fl[a + j]
    BY <2>2, <1>2
  <2> QED
    BY <2>1, <2>3, <1>1
<1>10. Slice(vals, a, b) = SubSeq(es[i], f + 1, t)
  <2> DEFINE s1 == Slice(vals, a, b)
  <2> DEFINE s2 == SubSeq(es[i], f + 1, t)
  <2>1. s1 \in Seq(Nat) /\ s2 \in Seq(Nat) /\ Len(s1) = Len(s2)
    BY <1>6, <1>8
  <2>2. \A j \in 1..Len(s1) : s1[j] = s2[j]
    BY <1>6, <1>8, <1>9
  <2> HIDE DEF s1, s2
  <2>3. s1 = s2
    BY <2>1, <2>2, SeqEqual
  <2> QED
    BY <2>3 DEF s1, s2
<1> QED
  BY <1>10 DEF vals, fl, a, b, q

-----------------------------------------------------------------------------
(* Registers and windows as they were written.                             *)

\* The code reads the numbers of cells as they are meant if both are stated or
\* neither is.
LEMMA CellsStated ==
  ASSUME TreeOK(source), Node \subseteq Nat, NEW n \in Node, Stated(n)
  PROVE  /\ CellsRead(n) /\ AddrCells(n) = TrueAddrCells(n) /\ SizeCells(n) = TrueSizeCells(n)
         /\ TrueAddrCells(n) \in Nat /\ TrueSizeCells(n) \in Nat
<1>1. source[n].addrCells \in Nat \cup {None} /\ source[n].sizeCells \in Nat \cup {None}
  BY DEF TreeOK, Node
<1>2. n # None
  BY DEF None
<1> QED
  BY <1>1, <1>2 DEF Stated, CellsRead, AddrCells, SizeCells, TrueAddrCells, TrueSizeCells

\* A node and its parent.
LEMMA ParentOK ==
  ASSUME TreeOK(source), NEW n \in Node, Parent(n) # None
  PROVE  Parent(n) \in Node
  BY DEF TreeOK, Node, Parent

\* No bytes too many, no stray cells.
LEMMA NoStray ==
  ASSUME NEW n, source[n].stray = 0, NEW es
  PROVE  ~Misaligned(n) /\ Cells(n, es) = FlattenSeq(es) \o <<>>
<1>1. Stray(n) = 0 /\ ~Misaligned(n)
  BY DEF Stray, Misaligned
<1>2. [i \in 1..Stray(n) |-> 1] = <<>>
  BY <1>1
<1> QED
  BY <1>1, <1>2 DEF Cells

\* Entries of one length.
Uniform(es, k) == es \in Seq(Seq(Nat)) /\ \A i \in 1..Len(es) : Len(es[i]) = k

\* What the code's slices take out of entries that are made of three lists.
\* Entry i of the list in the blob is made of x, y and z.
EntryOf(vals, es, k, i, x, y, z) ==
  /\ k \in Nat /\ Uniform(es, k) /\ vals = FlattenSeq(es) \o <<>> /\ i \in 1..Len(es)
  /\ es[i] = (x \o y) \o z /\ x \in Seq(Nat) /\ y \in Seq(Nat) /\ z \in Seq(Nat)

LEMMA EntrySlices ==
  ASSUME NEW vals, NEW es, NEW k, NEW i, NEW x, NEW y, NEW z, EntryOf(vals, es, k, i, x, y, z)
  PROVE  /\ Slice(vals, (i - 1) * k, (i - 1) * k + Len(x)) = x
         /\ Slice(vals, (i - 1) * k + Len(x), (i - 1) * k + Len(x) + Len(y)) = y
         /\ Slice(vals, (i - 1) * k + Len(x) + Len(y), i * k) = z
         /\ k = Len(x) + Len(y) + Len(z)
<1> USE DEF EntryOf
<1> DEFINE a == Len(x)
<1> DEFINE u == Len(y)
<1> DEFINE s == Len(z)
<1> DEFINE q == (i - 1) * k
<1>1. a \in Nat /\ u \in Nat /\ s \in Nat /\ q \in Nat /\ i * k = q + k
  BY DEF Uniform
<1>2. /\ x \o y \in Seq(Nat) /\ Len(x \o y) = a + u
      /\ \A j \in 1..a + u : (x \o y)[j] = IF j <= a THEN x[j] ELSE y[j - a]
  BY ConcatProperties
<1> DEFINE xy == x \o y
<1>3. /\ xy \in Seq(Nat) /\ Len(xy) = a + u
      /\ \A j \in 1..a + u : xy[j] = IF j <= a THEN x[j] ELSE y[j - a]
  BY <1>2
<1> HIDE DEF xy
<1>4. /\ xy \o z \in Seq(Nat) /\ Len(xy \o z) = Len(xy) + s
      /\ \A j \in 1..Len(xy) + s : (xy \o z)[j] = IF j <= Len(xy) THEN xy[j] ELSE z[j - Len(xy)]
  <2>1. xy \in Seq(Nat) /\ z \in Seq(Nat)
    BY <1>3 DEF EntryOf
  <2> QED
    BY <2>1, ConcatProperties
<1> DEFINE c == es[i]
<1>5. c = xy \o z
  BY DEF xy
<1> HIDE DEF c
<1>6. c \in Seq(Nat) /\ Len(c) = k /\ k = a + u + s
  <2>1. Len(c) = k
    BY DEF Uniform, c
  <2> QED
    BY <2>1, <1>3, <1>4, <1>5
<1> HIDE DEF a, u, s, q
<1>7. ASSUME NEW j \in 1..a + u
      PROVE  c[j] = IF j <= a THEN x[j] ELSE y[j - a]
  <2>1. j \in 1..Len(xy) + s /\ j <= Len(xy)
    BY <1>1, <1>3
  <2>2. c[j] = xy[j]
    BY <2>1, <1>4, <1>5
  <2> QED
    BY <2>2, <1>3
<1>8. SubSeq(c, 0 + 1, a) = x
  <2> DEFINE r == SubSeq(c, 0 + 1, a)
  <2>1. a \in 0..Len(c) /\ a - 0 = a /\ 0 \in Nat
    BY <1>1, <1>6
  <2>2. r \in Seq(Nat) /\ Len(r) = a /\ \A j \in 1..a : r[j] = c[0 + j]
    <3>1. r \in Seq(Nat) /\ Len(r) = a - 0 /\ \A j \in 1..a - 0 : r[j] = c[0 + j]
      BY <1>6, <2>1, SliceOf
    <3> QED
      BY <2>1, <3>1
  <2> HIDE DEF r
  <2>3. ASSUME NEW j \in 1..a
        PROVE  r[j] = x[j]
    <3>1. 0 + j = j /\ j \in 1..a + u /\ j <= a
      BY <1>1
    <3> QED
      BY <3>1, <1>7, <2>2
  <2>4. r = x
    BY <2>2, <2>3, SeqEqual DEF a
  <2> QED
    BY <2>4 DEF r
<1>9. SubSeq(c, a + 1, a + u) = y
  <2> DEFINE b == a + u
  <2> DEFINE r == SubSeq(c, a + 1, b)
  <2>1. b \in a..Len(c) /\ b - a = u
    BY <1>1, <1>6
  <2> HIDE DEF b
  <2>2. r \in Seq(Nat) /\ Len(r) = u /\ \A j \in 1..u : r[j] = c[a + j]
    <3>1. r \in Seq(Nat) /\ Len(r) = b - a /\ \A j \in 1..b - a : r[j] = c[a + j]
      BY <1>1, <1>6, <2>1, SliceOf
    <3> QED
      BY <2>1, <3>1
  <2> HIDE DEF r
  <2>3. ASSUME NEW j \in 1..u
        PROVE  r[j] = y[j]
    <3>1. a + j \in 1..a + u /\ ~(a + j <= a) /\ (a + j) - a = j
      BY <1>1
    <3> QED
      BY <3>1, <1>7, <2>2
  <2>4. r = y
    BY <2>2, <2>3, SeqEqual DEF u
  <2> QED
    BY <2>4 DEF r, b
<1>10. SubSeq(c, a + u + 1, k) = z
  <2> DEFINE b == a + u
  <2> DEFINE r == SubSeq(c, b + 1, k)
  <2>1. b \in Nat /\ k \in b..Len(c) /\ k - b = s /\ Len(xy) = b
    BY <1>1, <1>3, <1>6
  <2> HIDE DEF b
  <2>2. r \in Seq(Nat) /\ Len(r) = s /\ \A j \in 1..s : r[j] = c[b + j]
    <3>1. r \in Seq(Nat) /\ Len(r) = k - b /\ \A j \in 1..k - b : r[j] = c[b + j]
      BY <1>6, <2>1, SliceOf
    <3> QED
      BY <2>1, <3>1
  <2> HIDE DEF r
  <2>3. ASSUME NEW j \in 1..s
        PROVE  r[j] = z[j]
    <3>1. b + j \in 1..Len(xy) + s /\ ~(b + j <= Len(xy)) /\ (b + j) - Len(xy) = j
      BY <1>1, <2>1
    <3> QED
      BY <3>1, <1>4, <1>5, <2>2
  <2>4. r = z
    BY <2>2, <2>3, SeqEqual DEF s
  <2> QED
    BY <2>4 DEF r, b
<1>11. ASSUME NEW f \in 0..k, NEW t \in f..k
       PROVE  Slice(vals, q + f, q + t) = SubSeq(c, f + 1, t)
  <2>1. es \in Seq(Seq(Nat)) /\ (\A h \in 1..Len(es) : Len(es[h]) = k) /\ <<>> \in Seq(Nat)
    BY DEF Uniform
  <2> QED
    BY <2>1, BlockSlice DEF q, c
<1> DEFINE au == a + u
<1>12. /\ 0 \in 0..k /\ a \in 0..k /\ a \in 0..k /\ au \in a..k /\ au \in 0..k /\ k \in au..k
       /\ q + 0 = q /\ q + au = q + a + u
  BY <1>1, <1>6
<1> HIDE DEF au
<1>13. Slice(vals, q + 0, q + a) = x
  BY <1>8, <1>11, <1>12
<1>14. Slice(vals, q + a, q + au) = y
  BY <1>9, <1>11, <1>12 DEF au
<1>15. Slice(vals, q + au, q + k) = z
  BY <1>10, <1>11, <1>12 DEF au
<1> QED
  BY <1>1, <1>6, <1>12, <1>13, <1>14, <1>15 DEF a, u, s, q

\* As many cells as the entries have.
LEMMA EntriesLength ==
  ASSUME NEW k \in Nat, NEW es, Uniform(es, k)
  PROVE  Len(FlattenSeq(es) \o <<>>) = Len(es) * k
<1>1. FlattenSeq(es) \in Seq(Nat) /\ Len(FlattenSeq(es)) = Len(es) * k
  <2>1. es \in Seq(Seq(Nat)) /\ \A i \in 1..Len(es) : Len(es[i]) = k
    BY DEF Uniform
  <2> QED
    BY <2>1, FlattenBlocks
<1>2. FlattenSeq(es) \o <<>> = FlattenSeq(es)
  BY <1>1, ConcatEmptySeq
<1> QED
  BY <1>1, <1>2

\* The entries of "reg" are blocks of two parts.
LEMMA RegsRight ==
  ASSUME TreeOK(source), Node \subseteq Nat, NEW n \in Node, SoundRegs(n)
  PROVE  RegsRead(n) /\ Regs(n) = source[n].reg
<1> DEFINE p == Parent(n)
<1> DEFINE rs == source[n].reg
<1> DEFINE a == TrueAddrCells(p)
<1> DEFINE s == TrueSizeCells(p)
<1> DEFINE k == a + s
<1> DEFINE D(i) == Digits(rs[i].addr, a)
<1> DEFINE E(i) == Digits(rs[i].size, s)
<1> DEFINE es == [i \in DOMAIN rs |-> D(i) \o E(i)]
<1> DEFINE vals == RawReg(n)
<1>1. p \in Node /\ p # None
  BY ParentOK DEF SoundRegs
<1>2. /\ CellsRead(p) /\ AddrCells(p) = a /\ SizeCells(p) = s
      /\ a \in Nat /\ s \in Nat
  BY <1>1, CellsStated DEF SoundRegs
<1>3. k \in Nat \ {0}
  BY <1>2 DEF SoundRegs
<1>4. RegsRead(n)
  <2>1. ~Misaligned(n)
    BY NoStray DEF SoundRegs
  <2> QED
    BY <1>1, <1>2, <1>3, <2>1 DEF RegsRead, SoundRegs
<1>5. /\ Len(rs) \in Nat /\ DOMAIN rs = 1..Len(rs) /\ rs = [i \in 1..Len(rs) |-> rs[i]]
      /\ \A i \in 1..Len(rs) : rs[i] \in [addr : Nat, size : Nat]
  <2> DEFINE T == [addr : Nat, size : Nat]
  <2>1. rs \in Seq(T)
    BY DEF TreeOK, Node
  <2> HIDE DEF T, rs
  <2>2. /\ Len(rs) \in Nat /\ DOMAIN rs = 1..Len(rs) /\ rs = [i \in 1..Len(rs) |-> rs[i]]
        /\ \A i \in 1..Len(rs) : rs[i] \in T
    BY <2>1
  <2> QED
    BY <2>2 DEF T
<1>6. ASSUME NEW i \in 1..Len(rs)
      PROVE  /\ D(i) \in Seq(Nat) /\ Len(D(i)) = a /\ Merge(D(i)) = rs[i].addr
             /\ E(i) \in Seq(Nat) /\ Len(E(i)) = s /\ Merge(E(i)) = rs[i].size
             /\ rs[i] = [addr |-> rs[i].addr, size |-> rs[i].size]
  <2>1. Fits(rs[i].addr, a) /\ Fits(rs[i].size, s)
    BY <1>5 DEF SoundRegs
  <2>2. rs[i].addr \in Nat /\ rs[i].size \in Nat /\ rs[i] = [addr |-> rs[i].addr, size |-> rs[i].size]
    BY <1>5
  <2> QED
    BY <1>2, <2>1, <2>2, MergeDigits
<1>7. vals = FlattenSeq(es) \o <<>>
  BY NoStray DEF RawReg, SoundRegs
<1> HIDE DEF D, E, vals
<1>8. ASSUME NEW i \in 1..Len(rs)
      PROVE  es[i] = (D(i) \o E(i)) \o <<>> /\ es[i] \in Seq(Nat) /\ Len(es[i]) = k
  <2>1. D(i) \in Seq(Nat) /\ E(i) \in Seq(Nat) /\ Len(D(i)) = a /\ Len(E(i)) = s
    BY <1>6
  <2>2. es[i] = D(i) \o E(i)
    BY <1>5
  <2> HIDE DEF es, a, s
  <2>3. D(i) \o E(i) \in Seq(Nat) /\ Len(D(i) \o E(i)) = Len(D(i)) + Len(E(i))
    BY <2>1, ConcatProperties
  <2>4. (D(i) \o E(i)) \o <<>> = D(i) \o E(i)
    BY <2>3, ConcatEmptySeq
  <2> QED
    BY <2>1, <2>2, <2>3, <2>4
<1>9. DOMAIN es = 1..Len(rs) /\ es = [i \in 1..Len(rs) |-> es[i]]
  BY <1>5
<1> HIDE DEF es, a, s, p
<1>10. Uniform(es, k) /\ Len(es) = Len(rs)
  <2> HIDE DEF rs, k
  <2> QED
    BY <1>5, <1>8, <1>9 DEF Uniform
<1>11. Len(vals) = Len(rs) * k
  BY <1>3, <1>7, <1>10, EntriesLength
<1>12. (Len(vals) + k - 1) \div k = Len(rs)
  <2>1. k - 1 \in 0..k - 1
    BY <1>3
  <2>2. (Len(rs) * k + (k - 1)) \div k = Len(rs)
    BY <1>3, <1>5, <2>1, WholeEntries
  <2>3. Len(rs) * k + (k - 1) = Len(vals) + k - 1
    <3>1. Len(rs) * k \in Int
      BY <1>3, <1>5
    <3> QED
      BY <1>3, <1>11, <3>1
  <2> QED
    BY <2>2, <2>3
<1>13. ASSUME NEW i \in 1..Len(rs)
       PROVE  /\ Merge(Slice(vals, (i - 1) * k, (i - 1) * k + a)) = rs[i].addr
              /\ Merge(Slice(vals, (i - 1) * k + a, i * k)) = rs[i].size
  <2>1. (i - 1) * k + a + s = i * k
    BY <1>2, <1>5
  <2>2. k \in Nat
    BY <1>3
  <2>3. D(i) \in Seq(Nat) /\ E(i) \in Seq(Nat) /\ Len(D(i)) = a /\ Len(E(i)) = s
    BY <1>6
  <2> HIDE DEF k, rs
  <2>4. i \in 1..Len(es) /\ es[i] = (D(i) \o E(i)) \o <<>> /\ <<>> \in Seq(Nat)
    <3>1. i \in 1..Len(es) /\ <<>> \in Seq(Nat)
      BY <1>10
    <3>2. es[i] = (D(i) \o E(i)) \o <<>>
      BY <1>8, Zenon
    <3> QED
      BY <3>1, <3>2
  <2> DEFINE x == D(i)
  <2> DEFINE y == E(i)
  <2> DEFINE z == <<>>
  <2>5. /\ x \in Seq(Nat) /\ y \in Seq(Nat) /\ z \in Seq(Nat) /\ Len(x) = a /\ Len(y) = s
        /\ es[i] = (x \o y) \o z
    BY <2>3, <2>4
  <2> HIDE DEF x, y, z
  <2>6. EntryOf(vals, es, k, i, x, y, z)
    BY <1>7, <1>10, <2>2, <2>4, <2>5 DEF EntryOf
  <2>7. /\ Slice(vals, (i - 1) * k, (i - 1) * k + Len(x)) = x
        /\ Slice(vals, (i - 1) * k + Len(x), (i - 1) * k + Len(x) + Len(y)) = y
    BY <2>6, EntrySlices
  <2>8. Slice(vals, (i - 1) * k, (i - 1) * k + a) = D(i)
    BY <2>5, <2>7 DEF x
  <2>9. Slice(vals, (i - 1) * k + a, i * k) = E(i)
    BY <2>1, <2>5, <2>7 DEF y
  <2> QED
    BY <1>6, <2>8, <2>9 DEF rs
<1>14. Regs(n) = [i \in 1..Len(rs) |->
                    [addr |-> Merge(Slice(vals, (i - 1) * k, (i - 1) * k + a)),
                     size |-> Merge(Slice(vals, (i - 1) * k + a, i * k))]]
  BY <1>2, <1>12 DEF Regs, p, vals
<1>15. Regs(n) = rs
  <2> HIDE DEF k, rs
  <2>1. Regs(n) = [i \in 1..Len(rs) |-> rs[i]]
    BY <1>6, <1>13, <1>14
  <2> QED
    BY <2>1, <1>5
<1> QED
  BY <1>4, <1>15

\* The entries of "ranges" are blocks of three parts, none left over.
LEMMA WindowsRight ==
  ASSUME TreeOK(source), Node \subseteq Nat, NEW p \in Node, SoundRanges(p)
  PROVE  WindowsRead(p) /\ Windows(p) = source[p].ranges
<1> DEFINE ws == source[p].ranges
<1> DEFINE a == TrueAddrCells(p)
<1> DEFINE u == TrueAddrCells(Parent(p))
<1> DEFINE s == TrueSizeCells(p)
<1> DEFINE k == a + u + s
<1> DEFINE D(i) == Digits(ws[i].child, a)
<1> DEFINE E(i) == Digits(ws[i].parent, u)
<1> DEFINE F(i) == Digits(ws[i].length, s)
<1> DEFINE es == [i \in DOMAIN ws |-> LET w == ws[i]
                                   IN  Digits(w.child, a) \o Digits(w.parent, u) \o Digits(w.length, s)]
<1> DEFINE vals == RawRanges(p)
<1>1. /\ CellsRead(p) /\ AddrCells(p) = a /\ SizeCells(p) = s
      /\ a \in Nat /\ s \in Nat
  BY CellsStated DEF SoundRanges
<1>2. /\ Parent(p) # None => CellsRead(Parent(p))
      /\ UpperCells(p) = u /\ u \in Nat
  <2>1. CASE Parent(p) = None
    BY <2>1 DEF UpperCells, TrueAddrCells
  <2>2. CASE Parent(p) # None
    <3>1. Parent(p) \in Node
      BY <2>2, ParentOK
    <3> QED
      BY <2>2, <3>1, CellsStated DEF SoundRanges, UpperCells
  <2> QED
    BY <2>1, <2>2
<1>3. EntryCells(p) = k /\ k \in Nat \ {0}
  BY <1>1, <1>2 DEF SoundRanges, EntryCells
<1>4. WindowsRead(p)
  BY <1>1, <1>2, <1>3 DEF WindowsRead
<1>5. /\ Len(ws) \in Nat /\ DOMAIN ws = 1..Len(ws) /\ ws = [i \in 1..Len(ws) |-> ws[i]]
      /\ \A i \in 1..Len(ws) : ws[i] \in [child : Nat, parent : Nat, length : Nat]
  <2> DEFINE T == [child : Nat, parent : Nat, length : Nat]
  <2>1. ws \in Seq(T)
    BY DEF TreeOK, Node
  <2> HIDE DEF T, ws
  <2>2. /\ Len(ws) \in Nat /\ DOMAIN ws = 1..Len(ws) /\ ws = [i \in 1..Len(ws) |-> ws[i]]
        /\ \A i \in 1..Len(ws) : ws[i] \in T
    BY <2>1
  <2> QED
    BY <2>2 DEF T
<1>6. ASSUME NEW i \in 1..Len(ws)
      PROVE  /\ D(i) \in Seq(Nat) /\ Len(D(i)) = a /\ Merge(D(i)) = ws[i].child
             /\ E(i) \in Seq(Nat) /\ Len(E(i)) = u /\ Merge(E(i)) = ws[i].parent
             /\ F(i) \in Seq(Nat) /\ Len(F(i)) = s /\ Merge(F(i)) = ws[i].length
             /\ ws[i] = [child |-> ws[i].child, parent |-> ws[i].parent, length |-> ws[i].length]
  <2>1. Fits(ws[i].child, a) /\ Fits(ws[i].parent, u) /\ Fits(ws[i].length, s)
    BY <1>5 DEF SoundRanges
  <2>2. /\ ws[i].child \in Nat /\ ws[i].parent \in Nat /\ ws[i].length \in Nat
        /\ ws[i] = [child |-> ws[i].child, parent |-> ws[i].parent, length |-> ws[i].length]
    BY <1>5
  <2> HIDE DEF ws, a, u, s
  <2> QED
    BY <1>1, <1>2, <2>1, <2>2, MergeDigits
<1>7. vals = FlattenSeq(es) \o <<>> /\ ~Misaligned(p)
  BY NoStray DEF RawRanges, SoundRanges
<1>8. ASSUME NEW i \in 1..Len(ws)
      PROVE  es[i] = (D(i) \o E(i)) \o F(i) /\ es[i] \in Seq(Nat) /\ Len(es[i]) = k
  <2>1. /\ D(i) \in Seq(Nat) /\ E(i) \in Seq(Nat) /\ F(i) \in Seq(Nat)
        /\ Len(D(i)) = a /\ Len(E(i)) = u /\ Len(F(i)) = s
    BY <1>6
  <2>2. es[i] = (D(i) \o E(i)) \o F(i)
    BY <1>5
  <2> HIDE DEF es, a, u, s, D, E, F
  <2>3. D(i) \o E(i) \in Seq(Nat) /\ Len(D(i) \o E(i)) = Len(D(i)) + Len(E(i))
    BY <2>1, ConcatProperties
  <2>4. /\ (D(i) \o E(i)) \o F(i) \in Seq(Nat)
        /\ Len((D(i) \o E(i)) \o F(i)) = Len(D(i) \o E(i)) + Len(F(i))
    BY <2>1, <2>3, ConcatProperties
  <2> QED
    BY <2>1, <2>2, <2>3, <2>4
<1>9. DOMAIN es = 1..Len(ws) /\ es = [i \in 1..Len(ws) |-> es[i]]
  BY <1>5
<1> HIDE DEF D, E, F, vals, es, a, u, s
<1>10. Uniform(es, k) /\ Len(es) = Len(ws)
  <2> HIDE DEF ws, k
  <2> QED
    BY <1>5, <1>8, <1>9 DEF Uniform
<1>11. Len(vals) = Len(ws) * k
  BY <1>3, <1>7, <1>10, EntriesLength
<1>12. Len(vals) \div k = Len(ws) /\ ~Malformed(p)
  <2>1. 0 \in 0..k - 1
    BY <1>3
  <2>2. (Len(ws) * k + 0) \div k = Len(ws) /\ (Len(ws) * k) % k = 0
    BY <1>3, <1>5, <2>1, WholeEntries
  <2>3. Len(ws) * k + 0 = Len(vals)
    <3>1. Len(ws) * k \in Int
      BY <1>3, <1>5
    <3> QED
      BY <1>11, <3>1
  <2> QED
    BY <1>3, <1>7, <1>11, <2>2, <2>3 DEF Malformed, vals
<1>13. ASSUME NEW i \in 1..Len(ws)
       PROVE  /\ Merge(Slice(vals, (i - 1) * k, (i - 1) * k + a)) = ws[i].child
              /\ Merge(Slice(vals, (i - 1) * k + a, (i - 1) * k + a + u)) = ws[i].parent
              /\ Merge(Slice(vals, (i - 1) * k + a + u, i * k)) = ws[i].length
  <2>1. k \in Nat
    BY <1>3
  <2>2. /\ D(i) \in Seq(Nat) /\ E(i) \in Seq(Nat) /\ F(i) \in Seq(Nat)
        /\ Len(D(i)) = a /\ Len(E(i)) = u
    BY <1>6
  <2> HIDE DEF k, ws
  <2>3. i \in 1..Len(es) /\ es[i] = (D(i) \o E(i)) \o F(i)
    BY <1>8, <1>10
  <2>4. EntryOf(vals, es, k, i, D(i), E(i), F(i))
    BY <1>7, <1>10, <2>1, <2>2, <2>3 DEF EntryOf
  <2>5. /\ Slice(vals, (i - 1) * k, (i - 1) * k + Len(D(i))) = D(i)
        /\ Slice(vals, (i - 1) * k + Len(D(i)), (i - 1) * k + Len(D(i)) + Len(E(i))) = E(i)
        /\ Slice(vals, (i - 1) * k + Len(D(i)) + Len(E(i)), i * k) = F(i)
    BY <2>4, EntrySlices
  <2>6. /\ Slice(vals, (i - 1) * k, (i - 1) * k + a) = D(i)
        /\ Slice(vals, (i - 1) * k + a, (i - 1) * k + a + u) = E(i)
        /\ Slice(vals, (i - 1) * k + a + u, i * k) = F(i)
    BY <2>2, <2>5
  <2> QED
    BY <1>6, <2>6 DEF ws
<1>14. Windows(p) = [i \in 1..Len(ws) |->
                       [child  |-> Merge(Slice(vals, (i - 1) * k, (i - 1) * k + a)),
                        parent |-> Merge(Slice(vals, (i - 1) * k + a, (i - 1) * k + a + u)),
                        length |-> Merge(Slice(vals, (i - 1) * k + a + u, i * k))]]
  BY <1>1, <1>2, <1>3, <1>12 DEF Windows, vals
<1>15. Windows(p) = ws
  <2> HIDE DEF k, ws
  <2>1. Windows(p) = [i \in 1..Len(ws) |-> ws[i]]
    BY <1>6, <1>13, <1>14
  <2> QED
    BY <2>1, <1>5
<1> QED
  BY <1>4, <1>15

\* Sound lists of every tree read as they were written.
LEMMA BlobReadable ==
  ASSUME TreeOK(source), Node \subseteq Nat
  PROVE  Readable
BY RegsRight, WindowsRight DEF Readable

\* What never changes.
TreeInv == DOMAIN source \subseteq Nat /\ TreeOK(source) /\ arch \in ArchID

LEMMA TreeStays ==
  ASSUME [Next]_vars
  PROVE  source' = source /\ arch' = arch
BY DEF Next, GetRegPaddr, CreateGic, CreateGicFails, Climb, Return, vars

\* However many cells an address and a length take on either side of a bus, the
\* registers and windows that get_node_regs and the walk cut out of the blob are
\* those of the tree (dtb.py:240-294, dtb.py:385-421).
THEOREM ListsRead == Spec => []ReadsRight
<1>1. Init => TreeInv
  BY SourceAssumption DEF Init, TreeInv, TreeOK
<1>2. TreeInv /\ [Next]_vars => TreeInv'
  BY TreeStays DEF TreeInv
<1>3. TreeInv => ReadsRight
  BY BlobReadable DEF TreeInv, ReadsRight, Node
<1> QED
  BY <1>1, <1>2, <1>3, PTL DEF Spec

-----------------------------------------------------------------------------
(* Interrupts.                                                             *)

\* Whole entries are parsed as they were written, and what is left over is not.
LEMMA EntriesRight ==
  ASSUME TreeInv, NEW n \in Node, SoundIrqs(n)
  PROVE  /\ ~Misaligned(n) /\ CellsPerIrq \in {1, 3}
         /\ IrqEntries(n) = source[n].interrupts
         /\ \A i \in DOMAIN source[n].interrupts : \A j \in 1..CellsPerIrq :
              source[n].interrupts[i][j] \in Nat
<1> DEFINE es == source[n].interrupts
<1> DEFINE c == CellsPerIrq
<1> DEFINE x == source[n].stray
<1> DEFINE r == Stray(n)
<1> DEFINE tail == [i \in 1..r |-> 1]
<1> DEFINE vals == RawIrqs(n)
<1>1. c \in {1, 3}
  BY ArchAssumption DEF TreeInv, SoundIrqs, CellsPerIrq
<1>2. x \in 0..4 * c - 1 /\ x % 4 = 0
  BY DEF SoundIrqs
<1>3. ~Misaligned(n)
  BY <1>2 DEF Misaligned
<1>4. r \in 0..c - 1
  <2>1. r = x \div 4
    BY DEF Stray
  <2> HIDE DEF x, r, c
  <2> QED
    BY <2>1, <1>1, <1>2
<1>5. /\ es \in Seq(Seq(Nat)) /\ Len(es) \in Nat /\ DOMAIN es = 1..Len(es)
      /\ es = [i \in 1..Len(es) |-> es[i]]
  <2> DEFINE S == Seq(Nat)
  <2>1. es \in Seq(S)
    BY DEF TreeInv, TreeOK, Node
  <2> HIDE DEF es, S
  <2>2. Len(es) \in Nat /\ DOMAIN es = 1..Len(es) /\ es = [i \in 1..Len(es) |-> es[i]]
    BY <2>1
  <2> QED
    BY <2>1, <2>2 DEF S
<1>6. \A i \in 1..Len(es) : Len(es[i]) = c
  BY <1>5 DEF SoundIrqs
<1>7. vals = FlattenSeq(es) \o tail
  BY DEF RawIrqs, Cells
<1> HIDE DEF c, r
<1>8. tail \in Seq(Nat) /\ Len(tail) = r
  BY <1>1, <1>4
<1> HIDE DEF vals, tail, es
<1>9. Len(vals) \div c = Len(es)
  <2>1. FlattenSeq(es) \in Seq(Nat) /\ Len(FlattenSeq(es)) = Len(es) * c
    BY <1>1, <1>5, <1>6, FlattenBlocks
  <2>2. Len(FlattenSeq(es) \o tail) = Len(FlattenSeq(es)) + Len(tail)
    BY <1>8, <2>1, ConcatProperties
  <2>3. (Len(es) * c + r) \div c = Len(es)
    <3>1. Len(es) \in Nat /\ c \in Nat \ {0} /\ r \in 0..c - 1
      BY <1>1, <1>4, <1>5
    <3> QED
      BY <3>1, WholeEntries, Zenon
  <2> QED
    BY <1>7, <1>8, <2>1, <2>2, <2>3
<1>10. ASSUME NEW i \in 1..Len(es)
       PROVE  Slice(vals, (i - 1) * c, i * c) = es[i]
  <2>1. /\ c \in Nat /\ 0 \in 0..c /\ c \in 0..c
        /\ (i - 1) * c + 0 = (i - 1) * c /\ (i - 1) * c + c = i * c
    BY <1>1
  <2>2. Slice(FlattenSeq(es) \o tail, (i - 1) * c + 0, (i - 1) * c + c) = SubSeq(es[i], 0 + 1, c)
    BY <1>5, <1>6, <1>8, <2>1, BlockSlice
  <2>3. SubSeq(es[i], 0 + 1, c) = es[i]
    <3> DEFINE e == es[i]
    <3>1. e \in Seq(Nat) /\ Len(e) = c
      BY <1>5, <1>6
    <3> HIDE DEF e
    <3> QED
      <4>1. SubSeq(e, 1, Len(e)) = e
        BY <3>1
      <4> QED
        BY <3>1, <4>1 DEF e
  <2> QED
    BY <1>7, <2>1, <2>2, <2>3
<1>11. IrqEntries(n) = es
  <2>1. IrqEntries(n) = [i \in 1..Len(es) |-> Slice(vals, (i - 1) * c, i * c)]
    BY <1>9 DEF IrqEntries, vals, c
  <2> QED
    BY <2>1, <1>5, <1>10
<1>12. ASSUME NEW i \in DOMAIN es, NEW j \in 1..c
       PROVE  es[i][j] \in Nat
  <2>1. es[i] \in Seq(Nat) /\ Len(es[i]) = c
    BY <1>5, <1>6
  <2> QED
    BY <2>1
<1> QED
  BY <1>1, <1>3, <1>11, <1>12 DEF es, c

\* A sound interrupt is supported.
LEMMA Supported ==
  ASSUME TreeInv, NEW n \in Node, SoundIrqs(n)
  PROVE  IrqsRead(n)
<1>1. ~Misaligned(n) /\ CellsPerIrq > 0 /\ IrqEntries(n) = source[n].interrupts
  BY EntriesRight DEF SoundIrqs
<1>2. ASSUME arch = "aarch64", NEW i \in DOMAIN IrqEntries(n)
      PROVE  IrqEntries(n)[i][1] \in {0, 1} /\ Trigger(IrqEntries(n)[i][3]) # "raises"
  <2> DEFINE c == source[n].interrupts[i]
  <2>1. c[1] \in {0, 1} /\ c[3] % 16 \in {1, 2, 4, 8}
    BY <1>1, <1>2 DEF SoundIrqs
  <2>2. Trigger(c[3]) # "raises"
    BY <2>1 DEF Trigger
  <2> QED
    BY <2>1, <2>2, <1>1
<1> QED
  BY <1>1, <1>2 DEF IrqsRead, SoundIrqs

\* Of an interrupt that is private, the number is below those that are shared.
LEMMA IrqNumbers ==
  ASSUME TreeInv, NEW m \in Node, NEW n \in Node, SoundIrqs(m), SoundIrqs(n),
         NEW i \in DOMAIN Irqs(m), NEW j \in DOMAIN Irqs(n)
  PROVE  LET c == source[m].interrupts[i]  d == source[n].interrupts[j]
         IN  /\ Irqs(m)[i].number = Irqs(n)[j].number =>
                  IF arch = "aarch64" THEN <<c[1], c[2]>> = <<d[1], d[2]>> ELSE c = d
             /\ arch = "aarch64" /\ c[3] % 16 = d[3] % 16 =>
                  Irqs(m)[i].trigger = Irqs(n)[j].trigger
<1> DEFINE c == source[m].interrupts[i]
<1> DEFINE d == source[n].interrupts[j]
<1>1. /\ i \in DOMAIN source[m].interrupts /\ j \in DOMAIN source[n].interrupts
      /\ IrqEntries(m)[i] = c /\ IrqEntries(n)[j] = d
      /\ \A h \in 1..CellsPerIrq : c[h] \in Nat /\ d[h] \in Nat
      /\ CellsPerIrq \in {1, 3}
  BY EntriesRight DEF Irqs
<1>2. /\ c \in Seq(Nat) /\ d \in Seq(Nat) /\ Len(c) = CellsPerIrq /\ Len(d) = CellsPerIrq
      /\ arch = "aarch64" => /\ c[1] \in {0, 1} /\ d[1] \in {0, 1}
                             /\ c[1] = 1 => c[2] < 16
                             /\ d[1] = 1 => d[2] < 16
  <2>1. /\ Len(c) = CellsPerIrq /\ Len(d) = CellsPerIrq
        /\ arch = "aarch64" => /\ c[1] \in {0, 1} /\ d[1] \in {0, 1}
                               /\ c[1] = 1 => c[2] < 16
                               /\ d[1] = 1 => d[2] < 16
    BY <1>1 DEF SoundIrqs
  <2>2. \A k \in Node : \A h \in DOMAIN source[k].interrupts : source[k].interrupts[h] \in Seq(Nat)
    <3> SUFFICES ASSUME NEW k \in Node, NEW h \in DOMAIN source[k].interrupts
                 PROVE  source[k].interrupts[h] \in Seq(Nat)
      OBVIOUS
    <3> DEFINE es == source[k].interrupts
    <3> DEFINE S == Seq(Nat)
    <3>1. es \in Seq(S)
      BY DEF TreeInv, TreeOK, Node
    <3>2. h \in DOMAIN es
      OBVIOUS
    <3> HIDE DEF es, S
    <3>3. es[h] \in S
      BY <3>1, <3>2
    <3> QED
      BY <3>3 DEF es, S
  <2> QED
    BY <1>1, <2>1, <2>2
<1>3. CASE arch = "aarch64"
  <2>1. CellsPerIrq = 3
    BY <1>3 DEF CellsPerIrq
  <2>2. /\ Irqs(m)[i] = [number |-> c[2] + NumberBase(c[1]), trigger |-> Trigger(c[3])]
        /\ Irqs(n)[j] = [number |-> d[2] + NumberBase(d[1]), trigger |-> Trigger(d[3])]
    BY <1>1, <1>3 DEF Irqs
  <2>3. /\ c[2] \in Nat /\ d[2] \in Nat /\ c[1] \in {0, 1} /\ d[1] \in {0, 1}
        /\ c[1] = 1 => c[2] < 16
        /\ d[1] = 1 => d[2] < 16
    BY <1>1, <1>2, <1>3, <2>1
  <2> HIDE DEF c, d
  <2>4. NumberBase(0) = 32 /\ NumberBase(1) = 16
    BY DEF NumberBase
  <2>5. c[2] + NumberBase(c[1]) = d[2] + NumberBase(d[1]) => c[1] = d[1] /\ c[2] = d[2]
    BY <2>3, <2>4
  <2>6. c[3] % 16 = d[3] % 16 => Trigger(c[3]) = Trigger(d[3])
    BY DEF Trigger
  <2> QED
    BY <1>3, <2>2, <2>5, <2>6 DEF c, d
<1>4. CASE arch # "aarch64"
  <2>1. CellsPerIrq = 1
    BY <1>1, <1>4, ArchAssumption DEF TreeInv, CellsPerIrq
  <2>2. Irqs(m)[i].number = c[1] /\ Irqs(n)[j].number = d[1]
    BY <1>1, <1>4 DEF Irqs
  <2> HIDE DEF c, d
  <2>3. c[1] = d[1] => c = d
    <3> SUFFICES ASSUME c[1] = d[1] PROVE c = d
      OBVIOUS
    <3>1. \A h \in 1..Len(c) : c[h] = d[h]
      BY <1>2, <2>1
    <3> QED
      BY <1>2, <3>1, SeqEqual
  <2> QED
    BY <1>4, <2>2, <2>3 DEF c, d
<1> QED
  BY <1>3, <1>4

\* get_parsed_irqs reads the supported interrupts of every tree, all of them and
\* no more, and keeps different ones apart (dtb.py:113-139).
THEOREM InterruptsRead == Spec => []IrqsRight
<1>1. Init => TreeInv
  BY SourceAssumption DEF Init, TreeInv, TreeOK
<1>2. TreeInv /\ [Next]_vars => TreeInv'
  BY TreeStays DEF TreeInv
<1>3. TreeInv => IrqsRight
  <2> SUFFICES ASSUME TreeInv, NEW m \in Node, NEW n \in Node, SoundIrqs(m), SoundIrqs(n)
               PROVE  /\ IrqsRead(m) /\ Len(Irqs(m)) = Len(source[m].interrupts)
                      /\ \A i \in DOMAIN Irqs(m), j \in DOMAIN Irqs(n) :
                           LET c == source[m].interrupts[i]  d == source[n].interrupts[j]
                           IN  /\ Irqs(m)[i].number = Irqs(n)[j].number =>
                                    IF arch = "aarch64" THEN <<c[1], c[2]>> = <<d[1], d[2]>>
                                    ELSE c = d
                               /\ arch = "aarch64" /\ c[3] % 16 = d[3] % 16 =>
                                    Irqs(m)[i].trigger = Irqs(n)[j].trigger
    BY DEF IrqsRight
  <2>1. Len(Irqs(m)) = Len(source[m].interrupts)
    <3> DEFINE es == source[m].interrupts
    <3>1. es \in Seq(Seq(Nat))
      BY DEF TreeInv, TreeOK, Node
    <3>2. DOMAIN Irqs(m) = DOMAIN es
      BY EntriesRight DEF Irqs
    <3>3. DOMAIN es = 1..Len(es) /\ Len(es) \in Nat
      BY <3>1
    <3> HIDE DEF es
    <3>4. Irqs(m) = [i \in 1..Len(es) |-> Irqs(m)[i]]
      BY <3>2, <3>3 DEF Irqs
    <3> QED
      BY <3>3, <3>4 DEF es
  <2> QED
    BY <2>1, Supported, IrqNumbers
<1> QED
  BY <1>1, <1>2, <1>3, PTL DEF Spec

-----------------------------------------------------------------------------
(* The walk over the buses.                                                *)

\* What the walk keeps.
WalkInv ==
  /\ DOMAIN source \subseteq Nat /\ TreeOK(source)
  /\ curr \in Node
  /\ phase = "idle" => goal = "none"
  /\ goal = "cpu" => GicNodes # {} /\ RegsRead(GicNode)
  /\ SoundTree /\ goal # "none" =>
       exact \in Int /\ phase # "raised" /\ addr = RoundDown(exact)

\* Rounding down an address moves it neither into a window of whole pages nor
\* out of one, and commutes with moving it by whole pages.
LEMMA PageMoves ==
  ASSUME NEW e \in Int, NEW c \in Nat, NEW q \in Nat, NEW l \in Nat,
         c % Page = 0, q % Page = 0, l % Page = 0
  PROVE  /\ (c <= RoundDown(e) /\ RoundDown(e) < c + l) <=> (c <= e /\ e < c + l)
         /\ q + (RoundDown(e) - c) = RoundDown(q + (e - c))
<1> DEFINE a == e - (e % Page)
<1>1. a \in Int /\ a % Page = 0 /\ a <= e /\ e < a + Page
  BY RoundedDown, PageAssumption
<1>5. a = RoundDown(e) /\ RoundDown(q + (e - c)) = (q + (e - c)) - ((q + (e - c)) % Page)
  BY DEF RoundDown
<1> HIDE DEF a
<1>6. Page \in Nat \ {0} /\ c \in Int /\ l \in Int /\ q \in Int
  BY PageAssumption
<1>2. c <= e => c <= a
  <2>1. a < c => a + Page <= c
    BY <1>1, <1>6, MultiplesApart
  <2>2. a + Page <= c => e < c
    BY <1>1, <1>6
  <2> QED
    BY <2>1, <2>2, <1>1
<1>3. a < c + l => e < c + l
  <2> DEFINE b == c + l
  <2>1. b % Page = 0 /\ b \in Int
    <3>1. (c + l) % Page = 0
      BY <1>6, AlignedSum, Zenon
    <3> QED
      BY <3>1, <1>6
  <2> HIDE DEF b
  <2>2. a < b => a + Page <= b
    BY <2>1, <1>1, <1>6, MultiplesApart
  <2>3. a < b => e < b
    BY <2>1, <2>2, <1>1, <1>6
  <2> QED
    BY <2>3 DEF b
<1>4. q + (a - c) = (q + (e - c)) - ((q + (e - c)) % Page)
  <2> DEFINE d == a - c
  <2>1. d % Page = 0 /\ d \in Int
    <3>1. (a - c) % Page = 0
      BY <1>1, <1>6, AlignedSum, Zenon
    <3> QED
      BY <3>1, <1>1, <1>6
  <2> HIDE DEF d
  <2> DEFINE z == q + d
  <2>2. z % Page = 0 /\ z \in Int
    <3>1. (q + d) % Page = 0
      BY <2>1, <1>6, AlignedSum, Zenon
    <3> QED
      BY <3>1, <2>1, <1>6
  <2> HIDE DEF z
  <2>3. PICK k \in Int : z = Page * k
    BY <2>2, <1>6, IsMultiple
  <2>4. e - a \in 0 .. Page - 1
    BY <1>1, <1>6
  <2>5. (Page * k + (e - a)) % Page = e - a
    BY <2>4, <1>6, Remainder
  <2>6. q + (e - c) = z + (e - a)
    BY <1>1, <1>6 DEF z, d
  <2>7. (q + (e - c)) % Page = e - a
    BY <2>3, <2>5, <2>6
  <2>8. (q + (e - c)) - (e - a) = q + (a - c)
    BY <1>1, <1>6
  <2> QED
    BY <2>7, <2>8
<1> QED
  BY <1>1, <1>2, <1>3, <1>4, <1>5

\* In a bus that moves whole pages to one place each, the code finds for the page
\* of an address the window that holds the address.
LEMMA Translated ==
  ASSUME NEW p \in Node, TreeOK(source), PageWise(p), HasProp(p, "ranges"),
         Windows(p) = source[p].ranges, exact \in Int, addr = RoundDown(exact)
  PROVE  /\ Moved(p, exact) \in Int
         /\ (IF Hits(p) = {} THEN addr
             ELSE LET w == Windows(p)[CHOOSE i \in Hits(p) : \A j \in Hits(p) : i <= j]
                  IN  w.parent + (addr - w.child)) = RoundDown(Moved(p, exact))
<1> DEFINE ws == source[p].ranges
<1>1. /\ ws \in Seq([child : Nat, parent : Nat, length : Nat])
      /\ DOMAIN ws \subseteq Nat
      /\ \A i \in DOMAIN ws : ws[i].child \in Nat /\ ws[i].parent \in Nat /\ ws[i].length \in Nat
  <2>1. ws \in Seq([child : Nat, parent : Nat, length : Nat])
    BY Zenon DEF TreeOK, Node
  <2> HIDE DEF ws
  <2> DEFINE T == [child : Nat, parent : Nat, length : Nat]
  <2>2. DOMAIN ws = 1..Len(ws) /\ Len(ws) \in Nat
    BY <2>1
  <2>6. ws \in Seq(T)
    BY <2>1
  <2> HIDE DEF T
  <2>7. \A i \in DOMAIN ws : ws[i] \in T
    BY <2>6, <2>2
  <2>3. \A i \in DOMAIN ws : ws[i] \in [child : Nat, parent : Nat, length : Nat]
    BY <2>7 DEF T
  <2>4. ASSUME NEW i \in DOMAIN ws
        PROVE  ws[i].child \in Nat /\ ws[i].parent \in Nat /\ ws[i].length \in Nat
    BY <2>3
  <2>5. DOMAIN ws \subseteq Nat
    BY <2>2
  <2> QED
    BY <2>1, <2>4, <2>5
<1>2. \A i \in DOMAIN ws : /\ ws[i].child % Page = 0 /\ ws[i].parent % Page = 0
                          /\ ws[i].length % Page = 0
  BY DEF PageWise
<1>3. \A i, j \in DOMAIN ws : i # j => \/ ws[i].child + ws[i].length <= ws[j].child
                                       \/ ws[j].child + ws[j].length <= ws[i].child
  BY Zenon DEF PageWise
<1> DEFINE H == {i \in DOMAIN ws : ws[i].child <= exact /\ exact < ws[i].child + ws[i].length}
<1>4. \A i \in DOMAIN ws :
        /\ (ws[i].child <= addr /\ addr < ws[i].child + ws[i].length)
             <=> (ws[i].child <= exact /\ exact < ws[i].child + ws[i].length)
        /\ ws[i].parent + (addr - ws[i].child) = RoundDown(ws[i].parent + (exact - ws[i].child))
  <2> HIDE DEF ws
  <2> SUFFICES ASSUME NEW i \in DOMAIN ws
               PROVE  /\ (ws[i].child <= addr /\ addr < ws[i].child + ws[i].length)
                           <=> (ws[i].child <= exact /\ exact < ws[i].child + ws[i].length)
                      /\ ws[i].parent + (addr - ws[i].child)
                           = RoundDown(ws[i].parent + (exact - ws[i].child))
    OBVIOUS
  <2> DEFINE c == ws[i].child
  <2> DEFINE q == ws[i].parent
  <2> DEFINE l == ws[i].length
  <2>1. c \in Nat /\ q \in Nat /\ l \in Nat /\ c % Page = 0 /\ q % Page = 0 /\ l % Page = 0
    BY <1>1, <1>2
  <2> HIDE DEF c, q, l
  <2>2. /\ (c <= addr /\ addr < c + l) <=> (c <= exact /\ exact < c + l)
        /\ q + (addr - c) = RoundDown(q + (exact - c))
    BY <2>1, PageMoves
  <2> QED
    BY <2>2 DEF c, q, l
<1>5. Hits(p) = H
  BY <1>4 DEF Hits
<1>6. Moved(p, exact) = IF H = {} THEN exact
                        ELSE LET w == ws[CHOOSE i \in H : TRUE]
                             IN  w.parent + (exact - w.child)
  <2>1. Moved(p, exact) = IF ~HasProp(p, "ranges") \/ H = {} THEN exact
                          ELSE LET w == ws[CHOOSE i \in H : TRUE]
                               IN  w.parent + (exact - w.child)
    BY Zenon DEF Moved
  <2> HIDE DEF H, ws
  <2> QED
    BY <2>1
<1>7. CASE H = {}
  BY <1>5, <1>6, <1>7
<1>8. CASE H # {}
  <2>1. PICK i \in H : TRUE
    BY <1>8
  <2>2. \A j \in H : j = i
    <3> SUFFICES ASSUME NEW j \in H, j # i
                 PROVE  FALSE
      OBVIOUS
    <3>1. i \in DOMAIN ws /\ j \in DOMAIN ws
      BY <2>1
    <3>2. ws[i].child + ws[i].length <= ws[j].child \/ ws[j].child + ws[j].length <= ws[i].child
      BY <3>1, <1>3
    <3>3. /\ ws[i].child <= exact /\ exact < ws[i].child + ws[i].length
          /\ ws[j].child <= exact /\ exact < ws[j].child + ws[j].length
      BY <2>1
    <3>4. /\ ws[i].child \in Nat /\ ws[i].length \in Nat
          /\ ws[j].child \in Nat /\ ws[j].length \in Nat
      BY <3>1, <1>1
    <3> HIDE DEF H, ws
    <3> QED
      BY <3>2, <3>3, <3>4
  <2>3. i \in Nat /\ \A j \in H : i <= j
    BY <2>1, <2>2, <1>1
  <2>4. (CHOOSE k \in H : TRUE) = i
    BY <2>1, <2>2
  <2>5. (CHOOSE k \in H : \A j \in H : k <= j) = i
    BY <2>1, <2>2, <2>3
  <2> HIDE DEF H, ws
  <2>6. Moved(p, exact) = ws[i].parent + (exact - ws[i].child)
    BY <1>6, <1>8, <2>4
  <2>7. i \in DOMAIN ws
    BY <2>1 DEF H
  <2>8. Moved(p, exact) \in Int
    <3>1. ws[i].parent \in Int /\ ws[i].child \in Int
      BY <2>7, <1>1
    <3> QED
      BY <2>6, <3>1
  <2> QED
    <3>1. Hits(p) # {} /\ Windows(p) = ws
      BY <1>5, <1>8 DEF ws
    <3>2. (CHOOSE k \in Hits(p) : \A j \in Hits(p) : k <= j) = i
      BY <2>5, <1>5
    <3>3. ws[i].parent + (addr - ws[i].child) = RoundDown(Moved(p, exact))
      BY <2>6, <2>7, <1>4
    <3> QED
      BY <3>1, <3>2, <3>3, <2>8
<1> QED
  BY <1>7, <1>8

LEMMA SameTree ==
  ASSUME source' = source
  PROVE  /\ SoundTree' = SoundTree /\ Node' = Node
         /\ GicNodes' = GicNodes /\ RegsRead(GicNode)' = RegsRead(GicNode)
<1>1. SoundTree' = SoundTree /\ Node' = Node /\ GicNodes' = GicNodes
  BY DEF SoundTree, SoundRegs, SoundRanges, PageWise, Stated, Fits, TrueAddrCells,
         TrueSizeCells, HasProp, Parent, Node, GicNodes
<1>2. GicNode' = GicNode
  BY <1>1 DEF GicNode
<1>3. RegsRead(GicNode)' = RegsRead(GicNode)
  BY <1>2 DEF RegsRead, CellsRead, HasProp, Misaligned, SizeCells, AddrCells, Parent
<1> QED
  BY <1>1, <1>3

\* Of a register that is read as it was written, the walk takes the page.
LEMMA Begins ==
  ASSUME WalkInv, Readable, NEW n \in Node, NEW i \in DOMAIN Regs(n), RegsRead(n),
         NEW c, c # "none", Begin(c, n, i), source' = source,
         c = "cpu" => GicNodes # {} /\ RegsRead(GicNode)
  PROVE  WalkInv'
<1>1. /\ SoundTree' = SoundTree /\ Node' = Node
      /\ GicNodes' = GicNodes /\ RegsRead(GicNode)' = RegsRead(GicNode)
  BY SameTree
<1>2. phase' = "walk" /\ goal' = c /\ curr' = n /\ addr' = RoundDown(Regs(n)[i].addr)
      /\ exact' = Written(n, i)
  BY DEF Begin
<1>3. ASSUME SoundTree
      PROVE  exact' \in Int /\ addr' = RoundDown(exact')
  <2> DEFINE rs == source[n].reg
  <2>1. HasProp(n, "reg") /\ SoundRegs(n)
    BY <1>3 DEF SoundTree, RegsRead
  <2>2. Regs(n) = rs
    BY <2>1 DEF Readable
  <2> DEFINE T == [addr : Nat, size : Nat]
  <2>3. rs \in Seq(T)
    BY Zenon DEF WalkInv, TreeOK, Node
  <2> HIDE DEF rs, T
  <2>4. i \in DOMAIN rs /\ DOMAIN rs = 1..Len(rs) /\ rs[i] \in T
    BY <2>2, <2>3
  <2>5. rs[i].addr \in Nat /\ i <= Len(rs)
    BY <2>4 DEF T
  <2>6. Written(n, i) = rs[i].addr
    BY <2>5 DEF Written, rs
  <2> QED
    BY <1>2, <2>2, <2>5, <2>6
<1>4. TreeOK(source)' /\ (DOMAIN source \subseteq Nat)'
  BY DEF WalkInv
<1>5. curr' \in Node'
  BY <1>1, <1>2
<1> QED
  BY <1>1, <1>2, <1>3, <1>4, <1>5 DEF WalkInv

LEMMA GicNodeExists ==
  ASSUME WalkInv, GicNodes # {}
  PROVE  GicNode \in Node
<1>1. GicNodes \subseteq Nat
  BY DEF GicNodes, WalkInv, Node
<1>2. \E m \in GicNodes : \A k \in GicNodes : m <= k
  BY <1>1, LeastNat
<1> QED
  BY <1>2 DEF GicNode, GicNodes

LEMMA AfterCpu ==
  ASSUME WalkInv, Readable, NEW v, VcpuNext(v), GicNode \in Node, RegsRead(GicNode),
         source' = source
  PROVE  WalkInv'
<1>1. CASE VcpuReg(v) \in DOMAIN Regs(GicNode)
  <2>1. Begin("vcpu", GicNode, VcpuReg(v))
    BY <1>1 DEF VcpuNext
  <2> QED
    BY <2>1, <1>1, Begins
<1>2. CASE VcpuReg(v) \notin DOMAIN Regs(GicNode)
  BY <1>2, SameTree DEF VcpuNext, WalkInv
<1> QED
  BY <1>1, <1>2

\* One bus up.
LEMMA Climbs ==
  ASSUME WalkInv, Readable, Climb
  PROVE  WalkInv'
<1> DEFINE p == Parent(curr)
<1>1. source' = source /\ goal' = goal /\ phase = "walk" /\ p # None
  BY DEF Climb
<1>2. /\ SoundTree' = SoundTree /\ Node' = Node
      /\ GicNodes' = GicNodes /\ RegsRead(GicNode)' = RegsRead(GicNode)
  BY <1>1, SameTree
<1>3. p \in Node
  BY <1>1 DEF WalkInv, TreeOK, Parent, Node
<1> HIDE DEF p
<1>4. curr' \in Node' /\ phase' # "idle"
  BY <1>1, <1>2, <1>3 DEF Climb, PassOn, Translate, WalkRaises, WalkInv, p
<1>5. ASSUME SoundTree, goal # "none"
      PROVE  exact' \in Int /\ phase' # "raised" /\ addr' = RoundDown(exact')
  <2>1. exact \in Int /\ addr = RoundDown(exact) /\ TreeOK(source)
    BY <1>5 DEF WalkInv
  <2>2. HasProp(p, "ranges") => /\ SoundRanges(p) /\ PageWise(p)
                                /\ WindowsRead(p) /\ Windows(p) = source[p].ranges
    BY <1>3, <1>5 DEF SoundTree, Readable
  <2>3. CASE PassOn(p)
    <3>1. Moved(p, exact) = exact
      <4>1. CASE ~HasProp(p, "ranges")
        BY <4>1 DEF Moved
      <4>2. CASE HasProp(p, "ranges")
        <5>1. RawRanges(p) = <<>>
          BY <2>3, <4>2 DEF PassOn, Identity
        <5>2. Windows(p) = <<>>
          <6> DEFINE k == EntryCells(p)
          <6>1. k \in Int
            <7>1. ASSUME NEW n \in Node
                  PROVE  SizeCells(n) \in Int /\ AddrCells(n) \in Int
              <8>1. source[n].addrCells \in Int /\ source[n].sizeCells \in Int
                BY <2>1 DEF TreeOK, Node, None
              <8> QED
                BY <8>1 DEF SizeCells, AddrCells
            <7>2. Parent(p) = None \/ Parent(p) \in Node
              BY <1>3, <2>1 DEF TreeOK, Node, Parent
            <7>3. UpperCells(p) \in Int
              BY <7>1, <7>2 DEF UpperCells
            <7> QED
              BY <7>1, <7>3, <1>3 DEF EntryCells
          <6>2. k \in Nat /\ k > 0
            BY <6>1, <2>2, <4>2 DEF WindowsRead
          <6>3. 0 \div k = 0
            BY <6>2
          <6>4. 1..(Len(RawRanges(p)) \div k) = {}
            BY <5>1, <6>3
          <6> HIDE DEF k
          <6> QED
            BY <5>1, <6>4 DEF Windows, k
        <5> QED
          BY <5>2, <2>2, <4>2 DEF Moved
      <4> QED
        BY <4>1, <4>2
    <3> QED
      BY <3>1, <2>1, <2>3, <1>1 DEF PassOn
  <2>4. CASE Translate(p)
    <3>1. HasProp(p, "ranges")
      BY <2>4 DEF Translate, Identity
    <3> QED
      BY <3>1, <2>1, <2>2, <2>4, <1>1, <1>3, Translated DEF Translate
  <2>5. CASE WalkRaises(p)
    BY <2>5, <2>2 DEF WalkRaises, Identity
  <2> QED
    BY <2>3, <2>4, <2>5 DEF Climb, p
<1> QED
  BY <1>1, <1>2, <1>4, <1>5 DEF WalkInv

\* From one walk to the next, or back to the caller.
LEMMA Returns ==
  ASSUME WalkInv, Readable, Return
  PROVE  WalkInv'
<1>1. source' = source /\ phase = "walk"
  BY DEF Return
<1>2. CASE goal = "cpu"
  <2>1. GicNode \in Node /\ RegsRead(GicNode)
    BY <1>2, GicNodeExists DEF WalkInv
  <2>2. VcpuNext(gic.version)
    BY <1>2 DEF Return
  <2> QED
    BY <1>1, <2>1, <2>2, AfterCpu
<1>3. CASE goal # "cpu"
  <2>1. phase' = "done" /\ UNCHANGED <<goal, node, curr, addr, exact>>
    BY <1>3 DEF Return
  <2> QED
    BY <2>1, <1>1, <1>3, SameTree DEF WalkInv
<1> QED
  BY <1>2, <1>3

\* Before any call.
LEMMA WalkBegins == Init => WalkInv
<1> SUFFICES ASSUME Init
             PROVE  WalkInv
  OBVIOUS
<1>1. TreeOK(source) /\ DOMAIN source \subseteq Nat /\ 0 \in DOMAIN source
  BY SourceAssumption DEF Init, TreeOK
<1> QED
  BY <1>1 DEF Init, WalkInv, Node

LEMMA WalkStep ==
  ASSUME WalkInv, [Next]_vars
  PROVE  WalkInv'
<1> Readable
  BY BlobReadable DEF WalkInv, Node
<1>1. ASSUME NEW n \in Node, NEW i \in 1..Len(source[n].reg) + 1, GetRegPaddr(n, i)
      PROVE  WalkInv'
  BY <1>1, Begins DEF GetRegPaddr
<1>2. CASE CreateGic
  <2>1. GicNode \in Node /\ GicNodes # {} /\ RegsRead(GicNode) /\ source' = source
    BY <1>2, GicNodeExists DEF CreateGic
  <2>2. CASE CpuReg(GicVersion) \in DOMAIN Regs(GicNode)
    <3>1. Begin("cpu", GicNode, CpuReg(GicVersion))
      BY <1>2, <2>2 DEF CreateGic
    <3> QED
      BY <3>1, <2>1, <2>2, Begins
  <2>3. CASE CpuReg(GicVersion) \notin DOMAIN Regs(GicNode)
    BY <1>2, <2>1, <2>3, AfterCpu DEF CreateGic
  <2> QED
    BY <2>2, <2>3
<1>3. CASE CreateGicFails
  BY <1>3, SameTree DEF CreateGicFails, WalkInv
<1>4. CASE Climb
  BY <1>4, Climbs
<1>5. CASE Return
  BY <1>5, Returns
<1>6. CASE UNCHANGED vars
  BY <1>6, SameTree DEF vars, WalkInv
<1> QED
  BY <1>1, <1>2, <1>3, <1>4, <1>5, <1>6 DEF Next

\* What a driver gets for a register is the page of the register, whatever the
\* tree, the sizes of addresses and the page size, if the buses above it move
\* whole pages (dtb.py:348-430).
THEOREM PagesFound == Spec => []PageOfRegister
<1>1. Init => WalkInv
  BY WalkBegins
<1>2. WalkInv /\ [Next]_vars => WalkInv'
  BY WalkStep
<1>3. WalkInv => PageOfRegister
  BY DEF WalkInv, PageOfRegister
<1> QED
  BY <1>1, <1>2, <1>3, PTL DEF Spec

-----------------------------------------------------------------------------
(* Where the CPU sees a register.                                          *)

\* A register stays at a natural address.
LEMMA MovedNat ==
  ASSUME TreeOK(source), NEW p \in Node, NEW a \in Nat
  PROVE  Moved(p, a) \in Nat
<1> DEFINE ws == source[p].ranges
<1> DEFINE hits == {i \in DOMAIN ws : ws[i].child <= a /\ a < ws[i].child + ws[i].length}
<1> DEFINE T == [child : Nat, parent : Nat, length : Nat]
<1>1. \A i \in DOMAIN ws : ws[i] \in T
  <2>1. ws \in Seq(T)
    BY DEF TreeOK, Node
  <2> HIDE DEF ws, T
  <2> QED
    BY <2>1
<1>2. CASE ~HasProp(p, "ranges") \/ hits = {}
  BY <1>2 DEF Moved
<1>3. CASE HasProp(p, "ranges") /\ hits # {}
  <2> DEFINE i == CHOOSE j \in hits : TRUE
  <2>1. i \in hits
    BY <1>3
  <2>2. Moved(p, a) = ws[i].parent + (a - ws[i].child)
    BY <1>3 DEF Moved
  <2> HIDE DEF i
  <2>3. i \in DOMAIN ws /\ ws[i].child <= a
    BY <2>1
  <2>4. ws[i].parent \in Nat /\ ws[i].child \in Nat
    BY <1>1, <2>3
  <2> HIDE DEF ws
  <2> QED
    BY <2>2, <2>3, <2>4
<1> QED
  BY <1>2, <1>3

\* g says where an address above node n is for the CPU, for the nodes up to m.
Maps(g, m) ==
  \A n \in Node, a \in Nat :
    n <= m => g[n][a] = IF n = 0 THEN a ELSE g[Parent(n)][Moved(Parent(n), a)]

\* The parent of a node comes before it.
LEMMA UpOne ==
  ASSUME TreeOK(source), Node \subseteq Nat, NEW n \in Node, n # 0
  PROVE  /\ Parent(n) \in Node /\ Parent(n) < n
         /\ \A a \in Nat : Moved(Parent(n), a) \in Nat
<1>1. Parent(n) \in Node /\ Parent(n) < n
  BY DEF TreeOK, Node, Parent
<1> QED
  BY <1>1, MovedNat

\* There is such a map for the nodes up to any.
LEMMA MapExists ==
  ASSUME TreeOK(source), Node \subseteq Nat, NEW m \in Nat
  PROVE  \E g : Maps(g, m)
<1> DEFINE G == {i \in 0..m : \E g : Maps(g, i)}
<1>1. 0 \in G
  <2> DEFINE g == [i \in Node |-> [a \in Nat |-> a]]
  <2>1. Maps(g, 0)
    BY DEF Maps
  <2> QED
    BY <2>1
<1>2. ASSUME NEW i \in 1..m, i - 1 \in G
      PROVE  i \in G
  <2>1. PICK g : Maps(g, i - 1)
    BY <1>2
  <2> DEFINE h == [n \in Node |-> [a \in Nat |-> IF n = i THEN g[Parent(i)][Moved(Parent(i), a)]
                                                 ELSE g[n][a]]]
  <2>2. ASSUME NEW n \in Node, NEW a \in Nat
        PROVE  h[n][a] = IF n = i THEN g[Parent(i)][Moved(Parent(i), a)] ELSE g[n][a]
    OBVIOUS
  <2> HIDE DEF h
  <2>3. ASSUME NEW n \in Node, NEW a \in Nat, n <= i
        PROVE  h[n][a] = IF n = 0 THEN a ELSE h[Parent(n)][Moved(Parent(n), a)]
    <3>1. n \in Nat /\ i \in Nat /\ i # 0
      OBVIOUS
    <3>2. CASE n = 0
      <4>1. h[n][a] = g[n][a]
        BY <3>1, <3>2, <2>2
      <4>2. n <= i - 1 /\ g[n][a] = a
        BY <3>1, <3>2, <2>1 DEF Maps
      <4> QED
        BY <4>1, <4>2, <3>2
    <3>3. CASE n # 0
      <4> DEFINE q == Parent(n)
      <4> DEFINE b == Moved(q, a)
      <4>1. q \in Node /\ q < n /\ b \in Nat
        BY <3>3, UpOne
      <4> HIDE DEF q, b
      <4>2. h[q][b] = g[q][b]
        BY <3>1, <4>1, <2>2, <2>3, q \in Nat
      <4>3. h[n][a] = g[q][b]
        <5>1. CASE n = i
          BY <5>1, <2>2 DEF q, b
        <5>2. CASE n # i
          <6>1. n <= i - 1
            BY <5>2, <3>1, <2>3
          <6>2. g[n][a] = g[q][b]
            BY <6>1, <3>3, <2>1 DEF Maps, q, b
          <6> QED
            BY <5>2, <6>2, <2>2
        <5> QED
          BY <5>1, <5>2
      <4> QED
        BY <3>3, <4>2, <4>3 DEF q, b
    <3> QED
      BY <3>2, <3>3
  <2>4. Maps(h, i)
    BY <2>3 DEF Maps
  <2> QED
    BY <2>4
<1> HIDE DEF G
<1>3. 0..m \subseteq G
  BY <1>1, <1>2, UpTo
<1> QED
  BY <1>3 DEF G

\* Only one.
LEMMA MapsAgree ==
  ASSUME TreeOK(source), Node \subseteq Nat, NEW m \in Nat, NEW k \in Nat,
         NEW g, NEW h, Maps(g, m), Maps(h, k), NEW n \in Node, n <= m, n <= k, NEW a \in Nat
  PROVE  g[n][a] = h[n][a]
<1> DEFINE Bad == {i \in Node : i <= m /\ i <= k /\ \E b \in Nat : g[i][b] # h[i][b]}
<1> SUFFICES ASSUME Bad # {} PROVE FALSE
  OBVIOUS
<1>1. PICK i \in Bad : \A j \in Bad : i <= j
  <2>1. Bad \subseteq Nat
    OBVIOUS
  <2> HIDE DEF Bad
  <2> QED
    BY <2>1, LeastNat
<1>2. i \in Node /\ i \in Nat /\ i <= m /\ i <= k
  BY <1>1
<1>3. PICK b \in Nat : g[i][b] # h[i][b]
  BY <1>1
<1>4. i # 0
  BY <1>2, <1>3 DEF Maps
<1> DEFINE q == Parent(i)
<1> DEFINE c == Moved(q, b)
<1>5. q \in Node /\ q < i /\ c \in Nat
  BY <1>2, <1>4, UpOne
<1>6. g[i][b] = g[q][c] /\ h[i][b] = h[q][c]
  BY <1>2, <1>4 DEF Maps
<1> HIDE DEF q, c
<1>7. q \in Nat /\ q <= m /\ q <= k /\ ~(i <= q)
  BY <1>2, <1>5
<1>8. q \notin Bad
  BY <1>1, <1>7
<1> QED
  BY <1>3, <1>5, <1>6, <1>7, <1>8

\* The recursion over the buses is well founded.
LEMMA CpuAddressUp ==
  ASSUME TreeOK(source), Node \subseteq Nat, NEW n \in Node, NEW a \in Nat
  PROVE  CpuAddress[n][a] = IF n = 0 THEN a ELSE CpuAddress[Parent(n)][Moved(Parent(n), a)]
<1> DEFINE M(m) == CHOOSE g : Maps(g, m)
<1>1. \A m \in Nat : Maps(M(m), m)
  BY MapExists
<1> DEFINE c == [i \in Node |-> [b \in Nat |-> M(i)[i][b]]]
<1>2. \A i \in Node, b \in Nat : c[i][b] = M(i)[i][b]
  OBVIOUS
<1> HIDE DEF c, M
<1>3. ASSUME NEW i \in Node, NEW b \in Nat
      PROVE  c[i][b] = IF i = 0 THEN b ELSE c[Parent(i)][Moved(Parent(i), b)]
  <2>1. i \in Nat /\ Maps(M(i), i)
    BY <1>1
  <2>2. CASE i = 0
    BY <2>1, <2>2, <1>2 DEF Maps
  <2>3. CASE i # 0
    <3> DEFINE q == Parent(i)
    <3> DEFINE d == Moved(q, b)
    <3>1. q \in Node /\ q < i /\ d \in Nat
      BY <2>3, UpOne
    <3>2. M(i)[i][b] = M(i)[q][d]
      BY <2>1, <2>3 DEF Maps
    <3> HIDE DEF q, d
    <3>3. q \in Nat /\ Maps(M(q), q)
      BY <3>1, <1>1
    <3>4. M(i)[q][d] = M(q)[q][d]
      BY <2>1, <3>1, <3>3, MapsAgree
    <3> QED
      BY <1>2, <2>3, <3>1, <3>2, <3>4 DEF q, d
  <2> QED
    BY <2>2, <2>3
<1> DEFINE Solves(f) ==
      f = [i \in Node |-> [b \in Nat |-> IF i = 0 THEN b ELSE f[Parent(i)][Moved(Parent(i), b)]]]
<1>4. Solves(c)
  <2>1. c = [i \in Node |-> [b \in Nat |-> c[i][b]]]
    BY DEF c
  <2> QED
    BY <1>3, <2>1
<1>5. PICK e : Solves(e) /\ e = CpuAddress
  <2>1. Solves(CHOOSE e : Solves(e))
    BY <1>4, Zenon
  <2> QED
    BY <2>1 DEF CpuAddress
<1>6. e[n][a] = IF n = 0 THEN a ELSE e[Parent(n)][Moved(Parent(n), a)]
  <2> DEFINE F == [i \in Node |-> [b \in Nat |-> IF i = 0 THEN b ELSE e[Parent(i)][Moved(Parent(i), b)]]]
  <2>1. e = F
    BY <1>5
  <2>2. F[n] = [b \in Nat |-> IF n = 0 THEN b ELSE e[Parent(n)][Moved(Parent(n), b)]]
    OBVIOUS
  <2> HIDE DEF F
  <2>3. e[n] = [b \in Nat |-> IF n = 0 THEN b ELSE e[Parent(n)][Moved(Parent(n), b)]]
    BY <2>1, <2>2, Zenon
  <2> QED
    BY <2>3
<1> QED
  BY <1>5, <1>6

\* The register on its way is number i of the controller.
Tracked(i) ==
  /\ i \in DOMAIN source[GicNode].reg /\ exact \in Nat
  /\ CpuAddress[curr][exact] = CpuAddress[GicNode][source[GicNode].reg[i].addr]

\* The attributes of an Arm_GIC.
WholeGic(g) == g = [version |-> g.version, cpu |-> g.cpu, vcpu |-> g.vcpu, vcpuSize |-> g.vcpuSize]

\* A walk for the controller starts with one and follows its register; what the
\* first walk found is right while the second is under way.
GicInv ==
  /\ WholeGic(gic)
  /\ phase = "idle" => goal = "none"
  /\ phase = "walk" => goal \in {"paddr", "cpu", "vcpu"}
  /\ phase = "idle" \/ goal = "paddr" => gic = NoGic
  /\ goal \in {"cpu", "vcpu"} =>
       gic.version = GicVersion /\ node = GicNode /\ GicNodes # {} /\ RegsRead(GicNode)
  /\ phase = "walk" /\ goal \in {"cpu", "vcpu"} =>
       gic.vcpu = NoAddr /\ gic.vcpuSize = NoAddr
  /\ SoundTree /\ phase = "walk" /\ goal = "cpu" => Tracked(CpuReg(gic.version))
  /\ SoundTree /\ phase = "walk" /\ goal = "vcpu" =>
       Tracked(VcpuReg(gic.version)) /\ InterfaceRight(gic.cpu, CpuReg(gic.version))
  /\ GicRight

\* No step moves the controller.
LEMMA SameController ==
  ASSUME source' = source
  PROVE  /\ SoundTree' = SoundTree /\ GicNodes' = GicNodes /\ GicNode' = GicNode
         /\ GicVersion' = GicVersion /\ RegsRead(GicNode)' = RegsRead(GicNode)
         /\ CpuAddress' = CpuAddress
<1>1. /\ SoundTree' = SoundTree /\ GicNodes' = GicNodes
      /\ RegsRead(GicNode)' = RegsRead(GicNode)
  BY SameTree
<1>2. GicNode' = GicNode
  BY <1>1 DEF GicNode
<1>3. GicVersion' = GicVersion
  BY <1>2 DEF GicVersion
<1>4. CpuAddress' = CpuAddress
  BY DEF CpuAddress, Parent, Moved, HasProp, Node
<1> QED
  BY <1>1, <1>2, <1>3, <1>4

\* The controller of a sound tree has the registers that were written.
LEMMA ControllerRegs ==
  ASSUME WalkInv, SoundTree, GicNodes # {}, RegsRead(GicNode)
  PROVE  /\ GicNode \in Node /\ Regs(GicNode) = source[GicNode].reg
         /\ \A i \in DOMAIN source[GicNode].reg :
              /\ source[GicNode].reg[i].addr \in Nat /\ source[GicNode].reg[i].size \in Nat
              /\ Written(GicNode, i) = source[GicNode].reg[i].addr
<1>1. GicNode \in Node
  BY GicNodeExists
<1>2. SoundRegs(GicNode)
  BY <1>1 DEF SoundTree, RegsRead
<1>3. Regs(GicNode) = source[GicNode].reg
  BY <1>1, <1>2, RegsRight DEF WalkInv, Node
<1> DEFINE rs == source[GicNode].reg
<1> DEFINE T == [addr : Nat, size : Nat]
<1>4. rs \in Seq(T)
  BY <1>1 DEF WalkInv, TreeOK, Node
<1> HIDE DEF rs, T
<1>5. ASSUME NEW i \in DOMAIN rs
      PROVE  rs[i] \in T /\ i <= Len(rs)
  BY <1>4
<1>6. ASSUME NEW i \in DOMAIN rs
      PROVE  rs[i].addr \in Nat /\ rs[i].size \in Nat /\ Written(GicNode, i) = rs[i].addr
  <2>1. rs[i].addr \in Nat /\ rs[i].size \in Nat
    BY <1>5 DEF T
  <2> QED
    BY <2>1, <1>5 DEF Written, rs
<1> QED
  BY <1>1, <1>3, <1>6 DEF rs

\* A walk starts at the register.
LEMMA StartsAt ==
  ASSUME WalkInv, SoundTree, GicNodes # {}, RegsRead(GicNode), source' = source,
         NEW c, NEW i \in DOMAIN Regs(GicNode), Begin(c, GicNode, i)
  PROVE  Tracked(i)'
<1>1. /\ Regs(GicNode) = source[GicNode].reg
      /\ source[GicNode].reg[i].addr \in Nat /\ Written(GicNode, i) = source[GicNode].reg[i].addr
  BY ControllerRegs
<1>2. curr' = GicNode /\ exact' = source[GicNode].reg[i].addr
  BY <1>1 DEF Begin
<1>3. GicNode' = GicNode /\ CpuAddress' = CpuAddress
  BY SameController
<1> QED
  BY <1>1, <1>2, <1>3 DEF Tracked

\* At the root the register is where the CPU sees it.
LEMMA Arrived ==
  ASSUME WalkInv, SoundTree, goal # "none", Parent(curr) = None, NEW i, Tracked(i)
  PROVE  InterfaceRight(addr, i) /\ addr \in Nat
<1>1. TreeOK(source) /\ DOMAIN source \subseteq Nat /\ curr \in Node /\ addr = RoundDown(exact)
  BY DEF WalkInv
<1>2. curr = 0
  BY <1>1 DEF TreeOK, Parent, Node, None
<1>3. exact \in Nat /\ CpuAddress[0][exact] = exact
  <2>1. exact \in Nat
    BY DEF Tracked
  <2>2. 0 \in Node /\ Node \subseteq Nat
    BY <1>1, <1>2 DEF Node
  <2> QED
    BY <2>1, <2>2, <1>1, CpuAddressUp
<1>4. InterfaceRight(addr, i)
  BY <1>1, <1>2, <1>3 DEF Tracked, InterfaceRight
<1>5. addr \in Nat
  <2> DEFINE r == exact % Page
  <2>1. r \in 0..Page - 1 /\ r <= exact
    BY <1>3, PageAssumption
  <2> HIDE DEF r
  <2>2. exact - r \in Nat
    BY <1>3, <2>1, PageAssumption
  <2> QED
    BY <1>1, <2>2 DEF RoundDown, r
<1> QED
  BY <1>4, <1>5

\* A bus further up the register is still at the same address for the CPU.
LEMMA GicClimbs ==
  ASSUME WalkInv, GicInv, Climb
  PROVE  GicInv'
<1>1. source' = source /\ goal' = goal /\ node' = node /\ gic' = gic /\ phase = "walk"
  BY DEF Climb, PassOn, Translate, WalkRaises
<1>2. /\ SoundTree' = SoundTree /\ GicNodes' = GicNodes /\ GicNode' = GicNode
      /\ GicVersion' = GicVersion /\ RegsRead(GicNode)' = RegsRead(GicNode)
      /\ CpuAddress' = CpuAddress
  BY <1>1, SameController
<1>3. phase' \in {"walk", "raised"}
  BY <1>1 DEF Climb, PassOn, Translate, WalkRaises
<1>4. ASSUME phase' = "walk", NEW i, Tracked(i)
      PROVE  Tracked(i)'
  <2> DEFINE p == Parent(curr)
  <2>1. p # None /\ curr' = p /\ exact' = Moved(p, exact)
    BY <1>4 DEF Climb, PassOn, Translate, WalkRaises
  <2>2. TreeOK(source) /\ Node \subseteq Nat /\ curr \in Node /\ exact \in Nat
    BY <1>4 DEF WalkInv, Node, Tracked
  <2>3. curr # 0 /\ p \in Node
    BY <2>1, <2>2 DEF TreeOK, Node, Parent
  <2>4. CpuAddress[curr][exact] = CpuAddress[p][Moved(p, exact)]
    BY <2>2, <2>3, CpuAddressUp
  <2>5. Moved(p, exact) \in Nat
    BY <2>2, <2>3, MovedNat
  <2> QED
    BY <1>1, <1>2, <1>4, <2>1, <2>4, <2>5 DEF Tracked
<1>5. ASSUME NEW x, NEW i
      PROVE  InterfaceRight(x, i)' = InterfaceRight(x, i)
  BY <1>1, <1>2 DEF InterfaceRight
<1>6. GicRight'
  BY <1>3 DEF GicRight
<1>7. SoundTree' /\ phase' = "walk" /\ goal' = "cpu" => Tracked(CpuReg(gic.version))'
  <2> SUFFICES ASSUME SoundTree', phase' = "walk", goal' = "cpu"
               PROVE  Tracked(CpuReg(gic.version))'
    OBVIOUS
  <2>1. Tracked(CpuReg(gic.version))
    BY <1>1, <1>2 DEF GicInv
  <2> DEFINE i == CpuReg(gic.version)
  <2>2. i' = i
    BY <1>1 DEF CpuReg
  <2> QED
    BY <1>4, <2>1, <2>2 DEF Tracked
<1>8. SoundTree' /\ phase' = "walk" /\ goal' = "vcpu" => Tracked(VcpuReg(gic.version))'
  <2> SUFFICES ASSUME SoundTree', phase' = "walk", goal' = "vcpu"
               PROVE  Tracked(VcpuReg(gic.version))'
    OBVIOUS
  <2>1. Tracked(VcpuReg(gic.version))
    BY <1>1, <1>2 DEF GicInv
  <2> DEFINE i == VcpuReg(gic.version)
  <2>2. i' = i
    BY <1>1 DEF VcpuReg
  <2> QED
    BY <1>4, <2>1, <2>2 DEF Tracked
<1>9. SoundTree' /\ phase' = "walk" /\ goal' = "vcpu" =>
        InterfaceRight(gic.cpu, CpuReg(gic.version))'
  BY <1>1, <1>2 DEF GicInv, InterfaceRight, CpuReg
<1> QED
  BY <1>1, <1>2, <1>3, <1>6, <1>7, <1>8, <1>9 DEF GicInv

\* On to the virtual interface, or back to the caller: what is said of `gic`
\* is about the record after the step.
LEMMA GicAfterCpu ==
  ASSUME WalkInv, source' = source, GicNodes # {}, RegsRead(GicNode),
         VcpuNext(GicVersion), goal \in {"none", "cpu"}, goal = "cpu" => node = GicNode,
         WholeGic(gic'),
         gic'.version = GicVersion, gic'.vcpu = NoAddr, gic'.vcpuSize = NoAddr,
         SoundTree => InterfaceRight(gic'.cpu, CpuReg(GicVersion))
  PROVE  GicInv'
<1>1. /\ SoundTree' = SoundTree /\ GicNodes' = GicNodes /\ GicNode' = GicNode
      /\ GicVersion' = GicVersion /\ RegsRead(GicNode)' = RegsRead(GicNode)
      /\ CpuAddress' = CpuAddress
  BY SameController
<1>2. SoundTree => InterfaceRight(gic.cpu, CpuReg(gic.version))'
  BY <1>1 DEF InterfaceRight, CpuReg
<1>3. CASE VcpuReg(GicVersion) \in DOMAIN Regs(GicNode)
  <2>1. Begin("vcpu", GicNode, VcpuReg(GicVersion))
    BY <1>3 DEF VcpuNext
  <2>2. phase' = "walk" /\ goal' = "vcpu" /\ node' = GicNode
    BY <2>1 DEF Begin
  <2>3. SoundTree => Tracked(VcpuReg(gic.version))'
    <3> SUFFICES ASSUME SoundTree PROVE Tracked(VcpuReg(gic.version))'
      OBVIOUS
    <3>1. PICK i : i = VcpuReg(GicVersion)
      OBVIOUS
    <3>2. Tracked(i)'
      BY <1>3, <2>1, <3>1, StartsAt
    <3>3. i = VcpuReg(gic.version)'
      BY <3>1 DEF VcpuReg
    <3> QED
      BY <3>2, <3>3 DEF Tracked
  <2> QED
    BY <1>1, <1>2, <2>2, <2>3 DEF GicInv, GicRight
<1>4. CASE VcpuReg(GicVersion) \notin DOMAIN Regs(GicNode)
  <2>1. phase' = "done" /\ goal' = goal /\ node' = node
    BY <1>4 DEF VcpuNext
  <2>2. SoundTree => InterfaceRight(gic.vcpu, VcpuReg(gic.version))'
    <3> SUFFICES ASSUME SoundTree PROVE InterfaceRight(gic.vcpu, VcpuReg(gic.version))'
      OBVIOUS
    <3>1. Regs(GicNode) = source[GicNode].reg
      BY ControllerRegs
    <3> QED
      BY <1>1, <1>4, <3>1 DEF InterfaceRight, VcpuReg
  <2>3. GicRight'
    BY <1>1, <1>2, <2>2 DEF GicRight, CpuReg, VcpuReg
  <2> QED
    BY <1>1, <2>1, <2>3 DEF GicInv
<1> QED
  BY <1>3, <1>4

\* At the end of a walk its interface is the page of the register.
LEMMA GicReturns ==
  ASSUME WalkInv, GicInv, Return
  PROVE  GicInv'
<1>1. source' = source /\ phase = "walk" /\ Parent(curr) = None /\ goal # "none"
  BY DEF Return, GicInv
<1>2. /\ SoundTree' = SoundTree /\ GicNodes' = GicNodes /\ GicNode' = GicNode
      /\ GicVersion' = GicVersion /\ RegsRead(GicNode)' = RegsRead(GicNode)
      /\ CpuAddress' = CpuAddress
  BY <1>1, SameController
<1>3. CASE goal = "paddr"
  <2>1. phase' = "done" /\ goal' = goal /\ node' = node /\ gic' = gic /\ gic = NoGic
    BY <1>3 DEF Return, GicInv
  <2> QED
    BY <1>3, <2>1 DEF GicInv, GicRight, NoGic
<1>4. CASE goal = "cpu"
  <2>1. gic' = [gic EXCEPT !.cpu = addr] /\ VcpuNext(gic.version)
    BY <1>4 DEF Return
  <2>2. /\ WholeGic(gic)
        /\ gic.version = GicVersion /\ node = GicNode /\ GicNodes # {} /\ RegsRead(GicNode)
        /\ gic.vcpu = NoAddr /\ gic.vcpuSize = NoAddr
        /\ SoundTree => Tracked(CpuReg(gic.version))
    BY <1>1, <1>4 DEF GicInv
  <2>3. SoundTree => InterfaceRight(addr, CpuReg(GicVersion))
    BY <1>1, <2>2, Arrived
  <2> QED
    <3>1. /\ WholeGic(gic') /\ gic'.version = GicVersion
          /\ gic'.cpu = addr /\ gic'.vcpu = gic.vcpu /\ gic'.vcpuSize = gic.vcpuSize
      BY <2>1, <2>2 DEF WholeGic
    <3> QED
      BY <1>1, <1>4, <2>1, <2>2, <2>3, <3>1, GicAfterCpu
<1>5. CASE goal = "vcpu"
  <2>1. /\ gic' = [gic EXCEPT !.vcpu = addr, !.vcpuSize = Regs(node)[VcpuReg(gic.version)].size]
        /\ phase' = "done" /\ goal' = goal /\ node' = node
    BY <1>5 DEF Return
  <2>2. /\ WholeGic(gic)
        /\ gic.version = GicVersion /\ node = GicNode /\ GicNodes # {} /\ RegsRead(GicNode)
        /\ SoundTree => /\ Tracked(VcpuReg(gic.version))
                        /\ InterfaceRight(gic.cpu, CpuReg(gic.version))
    BY <1>1, <1>5 DEF GicInv
  <2>3. /\ WholeGic(gic') /\ gic'.version = GicVersion /\ gic'.cpu = gic.cpu
        /\ gic'.vcpu = addr /\ gic'.vcpuSize = Regs(GicNode)[VcpuReg(GicVersion)].size
    BY <2>1, <2>2 DEF WholeGic
  <2>4. SoundTree => /\ InterfaceRight(gic.cpu, CpuReg(gic.version))'
                     /\ InterfaceRight(gic.vcpu, VcpuReg(gic.version))'
                     /\ gic'.vcpu # NoAddr /\ gic'.vcpuSize # NoAddr
    <3> SUFFICES ASSUME SoundTree
                 PROVE  /\ InterfaceRight(gic.cpu, CpuReg(gic.version))'
                        /\ InterfaceRight(gic.vcpu, VcpuReg(gic.version))'
                        /\ gic'.vcpu # NoAddr /\ gic'.vcpuSize # NoAddr
      OBVIOUS
    <3>1. PICK i : i = VcpuReg(GicVersion)
      OBVIOUS
    <3>2. InterfaceRight(addr, i) /\ addr \in Nat
      BY <1>1, <2>2, <3>1, Arrived
    <3>3. gic'.vcpuSize \in Nat
      BY <2>2, <2>3, <3>1, ControllerRegs DEF Tracked
    <3>4. InterfaceRight(gic.cpu, CpuReg(gic.version))'
      BY <1>1, <1>2, <2>2, <2>3 DEF InterfaceRight, CpuReg
    <3>5. i = VcpuReg(gic.version)'
      BY <2>3, <3>1 DEF VcpuReg
    <3>6. InterfaceRight(gic.vcpu, VcpuReg(gic.version))'
      BY <1>1, <1>2, <2>3, <3>2, <3>5 DEF InterfaceRight
    <3> QED
      BY <2>3, <3>2, <3>3, <3>4, <3>6 DEF NoAddr
  <2>5. GicRight'
    BY <1>2, <2>4 DEF GicRight, CpuReg, VcpuReg
  <2> QED
    BY <1>2, <1>5, <2>1, <2>2, <2>3, <2>5 DEF GicInv
<1> QED
  BY <1>1, <1>3, <1>4, <1>5 DEF GicInv

LEMMA GicStep ==
  ASSUME WalkInv, GicInv, [Next]_vars
  PROVE  GicInv'
<1>1. ASSUME NEW n \in Node, NEW i \in 1..Len(source[n].reg) + 1, GetRegPaddr(n, i)
      PROVE  GicInv'
  <2>1. phase' = "walk" /\ goal' = "paddr" /\ gic' = NoGic
    BY <1>1 DEF GetRegPaddr, Begin, GicInv
  <2> QED
    BY <2>1 DEF GicInv, GicRight, WholeGic, NoGic
<1>2. CASE CreateGic
  <2>1. /\ phase = "idle" /\ GicNodes # {} /\ RegsRead(GicNode) /\ source' = source
        /\ gic = NoGic /\ goal = "none" /\ gic' = [gic EXCEPT !.version = GicVersion]
    BY <1>2 DEF CreateGic, GicInv
  <2>2. /\ WholeGic(gic') /\ gic'.version = GicVersion
        /\ gic'.cpu = NoAddr /\ gic'.vcpu = NoAddr /\ gic'.vcpuSize = NoAddr
    BY <2>1 DEF NoGic, WholeGic
  <2>3. CASE CpuReg(GicVersion) \in DOMAIN Regs(GicNode)
    <3>1. Begin("cpu", GicNode, CpuReg(GicVersion))
      BY <1>2, <2>3 DEF CreateGic
    <3>2. phase' = "walk" /\ goal' = "cpu" /\ node' = GicNode
      BY <3>1 DEF Begin
    <3>3. /\ SoundTree' = SoundTree /\ GicNodes' = GicNodes /\ GicNode' = GicNode
          /\ GicVersion' = GicVersion /\ RegsRead(GicNode)' = RegsRead(GicNode)
      BY <2>1, SameController
    <3>4. SoundTree => Tracked(CpuReg(gic.version))'
      <4> SUFFICES ASSUME SoundTree PROVE Tracked(CpuReg(gic.version))'
        OBVIOUS
      <4>1. PICK i : i = CpuReg(GicVersion)
        OBVIOUS
      <4>2. Tracked(i)'
        BY <2>1, <2>3, <3>1, <4>1, StartsAt
      <4>3. i = CpuReg(gic.version)'
        BY <2>2, <4>1 DEF CpuReg
      <4> QED
        BY <4>2, <4>3 DEF Tracked
    <3> QED
      BY <2>1, <2>2, <3>2, <3>3, <3>4 DEF GicInv, GicRight
  <2>4. CASE CpuReg(GicVersion) \notin DOMAIN Regs(GicNode)
    <3>1. VcpuNext(GicVersion)
      BY <1>2, <2>4 DEF CreateGic
    <3>2. SoundTree => InterfaceRight(gic'.cpu, CpuReg(GicVersion))
      BY <2>1, <2>2, <2>4, ControllerRegs DEF InterfaceRight
    <3> QED
      BY <2>1, <2>2, <3>1, <3>2, GicAfterCpu
  <2> QED
    BY <2>3, <2>4
<1>3. CASE CreateGicFails
  <2>1. gic' = NoGic /\ goal' = "none" /\ phase' \in {"done", "raised"}
    BY <1>3 DEF CreateGicFails, GicInv
  <2> QED
    BY <2>1 DEF GicInv, GicRight, WholeGic, NoGic
<1>4. CASE Climb
  BY <1>4, GicClimbs
<1>5. CASE Return
  BY <1>5, GicReturns
<1>6. CASE UNCHANGED vars
  <2>1. /\ phase' = phase /\ goal' = goal /\ gic' = gic /\ curr' = curr /\ exact' = exact
        /\ node' = node /\ source' = source
    BY <1>6 DEF vars
  <2>2. /\ SoundTree' = SoundTree /\ GicNodes' = GicNodes /\ GicNode' = GicNode
        /\ GicVersion' = GicVersion /\ RegsRead(GicNode)' = RegsRead(GicNode)
        /\ CpuAddress' = CpuAddress
    BY <2>1, SameController
  <2> QED
    BY <2>1, <2>2 DEF GicInv, GicRight, InterfaceRight, Tracked, WholeGic, CpuReg, VcpuReg
<1> QED
  BY <1>1, <1>2, <1>3, <1>4, <1>5, <1>6 DEF Next

\* Arm_GIC.create gives the pages of the CPU and the virtual CPU interface as the
\* CPU sees them, in every sound tree (dtb.py:92-110).
THEOREM InterfacesFound == Spec => []GicRight
<1>1. Init => WalkInv /\ GicInv
  <2>1. Init => GicInv
    BY DEF Init, GicInv, GicRight, WholeGic, NoGic
  <2> QED
    BY <2>1, WalkBegins
<1>2. WalkInv /\ GicInv /\ [Next]_vars => (WalkInv /\ GicInv)'
  BY WalkStep, GicStep
<1>3. GicInv => GicRight
  BY DEF GicInv
<1> QED
  BY <1>1, <1>2, <1>3, PTL DEF Spec
=============================================================================
