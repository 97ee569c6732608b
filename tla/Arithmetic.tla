----------------------------- MODULE Arithmetic -----------------------------
(***************************************************************************)
(* Facts about numbers that several proofs rest on: multiples of a page    *)
(* size, least and greatest elements of sets of numbers, blocks in a row,  *)
(* and recursion and induction up to a number.                             *)
(***************************************************************************)
EXTENDS Integers, FiniteSets, FiniteSetTheorems, WellFoundedInduction, TLAPS

\* Division and remainder by a positive number.
LEMMA DivMod ==
    ASSUME NEW P \in Nat \ {0}, NEW x \in Int
    PROVE  /\ x = P * (x \div P) + (x % P)
           /\ x \div P \in Int
           /\ x % P \in 0 .. P - 1
  OBVIOUS

\* The remainder is the unique offset inside a page.
LEMMA Remainder ==
    ASSUME NEW P \in Nat \ {0}, NEW k \in Int, NEW r \in 0 .. P - 1
    PROVE  (P * k + r) % P = r
  OBVIOUS

\* A number with remainder 0 is a multiple.
LEMMA IsMultiple ==
    ASSUME NEW P \in Nat \ {0}, NEW x \in Int, x % P = 0
    PROVE  \E k \in Int : x = P * k
<1>1. x = P * (x \div P) + (x % P) /\ x \div P \in Int
  BY DivMod
<1>2. \A q \in Int : P * q + 0 = P * q
  OBVIOUS
<1>3. x = P * (x \div P)
  BY <1>1, <1>2
<1> QED
  BY <1>1, <1>3

\* Every multiple has remainder 0.
LEMMA MultipleAligned ==
    ASSUME NEW P \in Nat \ {0}, NEW k \in Int
    PROVE  (P * k) % P = 0
<1>1. P * k + 0 = P * k
  OBVIOUS
<1> QED
  BY <1>1, Remainder

\* Sums and differences of multiples are multiples.
LEMMA AlignedSum ==
    ASSUME NEW P \in Nat \ {0}, NEW x \in Int, NEW y \in Int,
           x % P = 0, y % P = 0
    PROVE  (x + y) % P = 0 /\ (x - y) % P = 0
<1>1. PICK a \in Int : x = P * a
  BY IsMultiple
<1>2. PICK b \in Int : y = P * b
  BY IsMultiple
<1>3. x + y = P * (a + b) /\ x - y = P * (a - b)
  BY <1>1, <1>2
<1>4. (P * (a + b)) % P = 0 /\ (P * (a - b)) % P = 0
  BY MultipleAligned
<1> QED
  BY <1>3, <1>4

\* Rounding down: the greatest multiple that is not above.
LEMMA RoundedDown ==
    ASSUME NEW P \in Nat \ {0}, NEW x \in Int
    PROVE  /\ x - (x % P) \in Int /\ (x - (x % P)) % P = 0
           /\ x - (x % P) <= x /\ x < x - (x % P) + P
<1>1. x = P * (x \div P) + (x % P) /\ x \div P \in Int /\ x % P \in 0 .. P - 1
  BY DivMod
<1>2. x - (x % P) = P * (x \div P)
  BY <1>1
<1>3. (P * (x \div P)) % P = 0
  BY <1>1, MultipleAligned
<1>4. (x - (x % P)) % P = 0
  BY <1>2, <1>3
<1>5. x % P \in Int /\ 0 <= x % P /\ x % P < P
  BY <1>1
<1> QED
  BY <1>4, <1>5

\* Rounding up: the least multiple that is not below.
LEMMA RoundedUp ==
    ASSUME NEW P \in Nat \ {0}, NEW x \in Int
    PROVE  LET y == ((x + P - 1) \div P) * P
           IN  y \in Int /\ y % P = 0 /\ x <= y /\ y < x + P
<1> DEFINE k == (x + P - 1) \div P
<1>1. /\ x + P - 1 = P * k + ((x + P - 1) % P)
      /\ k \in Int /\ (x + P - 1) % P \in 0 .. P - 1
  BY DivMod, x + P - 1 \in Int
<1>2. k * P = P * k /\ P * k \in Int
  BY <1>1
<1>3. (P * k) % P = 0
  BY <1>1, MultipleAligned
<1> HIDE DEF k
<1>4. x <= P * k /\ P * k < x + P
  BY <1>1, <1>2
<1> QED
  BY <1>2, <1>3, <1>4 DEF k

\* Two multiples that differ are a page apart.
LEMMA MultiplesApart ==
    ASSUME NEW P \in Nat \ {0}, NEW x \in Int, NEW y \in Int,
           x % P = 0, y % P = 0, x < y
    PROVE  x + P <= y
<1>1. PICK a \in Int : x = P * a
  BY IsMultiple
<1>2. PICK b \in Int : y = P * b
  BY IsMultiple
<1>3. a < b
  BY <1>1, <1>2
<1>4. P * (a + 1) <= P * b
  BY <1>3
<1>5. P * (a + 1) = P * a + P
  OBVIOUS
<1> QED
  BY <1>1, <1>2, <1>4, <1>5

\* Every set of natural numbers that is not empty has a least element: the
\* inclusion of finite sets is well-founded, so one of the intervals below its
\* elements is minimal.
LEMMA LeastNat ==
    ASSUME NEW S, S \subseteq Nat, S # {}
    PROVE  \E m \in S : \A n \in S : m <= n
<1> DEFINE T == {0 .. x : x \in S}
<1>1. T \subseteq FiniteSubsetsOf(Nat)
  <2> SUFFICES ASSUME NEW x \in S
               PROVE  0 .. x \in FiniteSubsetsOf(Nat)
    OBVIOUS
  <2>1. IsFiniteSet(0 .. x)
    BY FS_Interval, x \in Int, 0 \in Int
  <2> QED
    BY <2>1 DEF FiniteSubsetsOf
<1>2. T # {}
  OBVIOUS
<1> HIDE DEF T
<1>3. IsWellFoundedOn(StrictSubsetOrdering(Nat), FiniteSubsetsOf(Nat))
  BY FS_StrictSubsetOrderingWellFounded
<1>4. PICK I \in T : \A J \in T : ~ (<<J, I>> \in StrictSubsetOrdering(Nat))
  BY <1>1, <1>2, <1>3, WFMin
<1>5. PICK m \in S : I = 0 .. m
  BY <1>4 DEF T
<1>6. ASSUME NEW n \in S, n < m
      PROVE  FALSE
  <2>1. 0 .. n \in T
    BY DEF T
  <2>2. 0 .. n \subseteq 0 .. m /\ 0 .. n # 0 .. m
    <3>1. m \in 0 .. m /\ m \notin 0 .. n
      BY <1>6
    <3>2. 0 .. n \subseteq 0 .. m
      BY <1>6
    <3> QED
      BY <3>1, <3>2
  <2>3. <<0 .. n, 0 .. m>> \in StrictSubsetOrdering(Nat)
    <3>1. 0 .. n \in SUBSET Nat /\ 0 .. m \in SUBSET Nat
      OBVIOUS
    <3> QED
      BY <3>1, <2>2 DEF StrictSubsetOrdering
  <2> QED
    BY <1>4, <1>5, <2>1, <2>3
<1> QED
  BY <1>6

\* A set of natural numbers with a bound has a greatest element.
LEMMA GreatestNat ==
    ASSUME NEW S, S \subseteq Nat, S # {}, NEW b \in Nat, \A x \in S : x <= b
    PROVE  \E m \in S : \A n \in S : n <= m
<1> DEFINE T == {b - x : x \in S}
<1>1. T \subseteq Nat /\ T # {}
  <2>1. \A x \in S : x \in Nat /\ x <= b
    OBVIOUS
  <2>2. \A x \in S : b - x \in Nat
    BY <2>1
  <2> QED
    BY <2>2
<1>2. PICK k \in T : \A j \in T : k <= j
  BY <1>1, LeastNat
<1>3. PICK m \in S : k = b - m
  BY <1>2
<1>4. ASSUME NEW n \in S
      PROVE  n <= m
  <2>1. b - n \in T
    OBVIOUS
  <2>2. b - m <= b - n
    BY <1>2, <1>3, <2>1
  <2>3. n \in Int /\ m \in Int
    BY <1>3
  <2> QED
    BY <2>2, <2>3
<1> QED
  BY <1>3, <1>4

\* The h-th of consecutive blocks of k lies below the i-th.
LEMMA BlocksAscend ==
  ASSUME NEW k \in Nat, NEW h \in Nat, NEW i \in Nat, h <= i
  PROVE  h * k <= i * k /\ h * k \in Nat
<1>1. i * k = h * k + (i - h) * k /\ h * k \in Nat /\ (i - h) * k \in Nat
  OBVIOUS
<1> QED
  BY <1>1

\* What is less than one more block does not count.
LEMMA WholeEntries ==
  ASSUME NEW m \in Nat, NEW k \in Nat \ {0}, NEW r \in 0..k - 1
  PROVE  (m * k + r) \div k = m /\ (m * k) % k = 0
<1>1. m * k = k * m
  OBVIOUS
<1>2. (k * m + r) \div k = m
  OBVIOUS
<1>3. (k * m) % k = 0
  BY MultipleAligned
<1> QED
  BY <1>1, <1>2, <1>3

\* Dividing twice, and what is lost between.
LEMMA DivDiv ==
  ASSUME NEW v \in Nat, NEW P \in Nat \ {0}, NEW W \in Nat \ {0}
  PROVE  v \div P = W * (v \div (W * P)) + ((v \div P) % W)
<1> DEFINE q == v \div P
<1> DEFINE r == v % P
<1> DEFINE t == q \div W
<1> DEFINE u == q % W
<1>1. v = P * q + r /\ q \in Int /\ r \in 0..P - 1
  BY DivMod
<1>2. q = W * t + u /\ t \in Int /\ u \in 0..W - 1
  BY <1>1, DivMod
<1> HIDE DEF q, r, t, u
<1>3. W * P \in Nat \ {0}
  OBVIOUS
<1>4. v = (W * P) * t + (P * u + r)
  <2>1. P * q = P * (W * t) + P * u
    BY <1>2
  <2>2. P * (W * t) = (W * P) * t
    BY <1>2
  <2> QED
    BY <2>1, <2>2, <1>1, <1>2
<1>5. P * u + r \in 0..(W * P) - 1
  <2>1. u \in Int /\ r \in Int /\ 0 <= u /\ u <= W - 1 /\ 0 <= r /\ r <= P - 1
    BY <1>1, <1>2
  <2>2. P * u <= P * (W - 1)
    BY <2>1
  <2>3. P * (W - 1) = (W * P) - P
    OBVIOUS
  <2>4. P * u \in Nat
    BY <2>1
  <2> QED
    BY <2>1, <2>2, <2>3, <2>4, <1>3
<1>6. v \div (W * P) = t
  <2> DEFINE M == W * P
  <2> DEFINE e == P * u + r
  <2>1. M \in Nat \ {0} /\ e \in 0..M - 1 /\ v = M * t + e
    BY <1>3, <1>4, <1>5
  <2> HIDE DEF M, e
  <2>2. (M * t + e) \div M = t
    BY <2>1, <1>2
  <2> QED
    BY <2>1, <2>2 DEF M
<1> QED
  BY <1>2, <1>6 DEF q, t, u

-----------------------------------------------------------------------------
(* Induction and recursion up to a number.  A step is a function of the    *)
(* value so far and the index, so that nothing here ranges over operators. *)

StaysIn(F, S, n) == \A x \in S, i \in 1..n : F[<<x, i>>] \in S
Computes(g, F, f0, n) == g[0] = f0 /\ \A i \in 1..n : g[i] = F[<<g[i - 1], i>>]

\* A step that stays in a set has a sequence of values.
LEMMA FiniteRecursion ==
  ASSUME NEW n \in Nat, NEW S, NEW f0 \in S, NEW F, StaysIn(F, S, n)
  PROVE  \E g : Computes(g, F, f0, n) /\ \A i \in 0..n : g[i] \in S
<1> USE DEF StaysIn, Computes
<1> DEFINE Solves(g, m) == /\ \A i \in 0..m : g[i] \in S
                           /\ g[0] = f0 /\ \A i \in 1..m : g[i] = F[<<g[i - 1], i>>]
<1> DEFINE Solvable(m) == \E g : Solves(g, m)
<1> DEFINE Bad == {m \in 0..n : ~Solvable(m)}
<1> HIDE DEF Solvable
<1> SUFFICES ASSUME Bad # {} PROVE FALSE
  <2>1. n \in 0..n
    OBVIOUS
  <2> QED
    BY <2>1 DEF Solvable
<1>1. PICK m \in Bad : \A k \in Bad : m <= k
  <2>1. Bad \subseteq Nat
    OBVIOUS
  <2> HIDE DEF Bad
  <2> QED
    BY <2>1, LeastNat
<1>2. m # 0
  <2> DEFINE g == [i \in {0} |-> f0]
  <2>1. Solves(g, 0)
    OBVIOUS
  <2> QED
    BY <2>1, <1>1 DEF Solvable
<1>3. m \in 1..n /\ m - 1 \in 0..n /\ m - 1 \notin Bad
  BY <1>1, <1>2
<1>4. PICK g : Solves(g, m - 1)
  BY <1>3 DEF Solvable
<1> DEFINE h == [i \in 0..m |-> IF i = m THEN F[<<g[m - 1], m>>] ELSE g[i]]
<1>5. h[m] = F[<<g[m - 1], m>>] /\ \A i \in 0..m : i # m => h[i] = g[i]
  BY <1>3
<1> HIDE DEF h
<1>6. g[m - 1] \in S /\ \A i \in 0..m : i # m => g[i] \in S
  BY <1>3, <1>4
<1>7. \A i \in 0..m : h[i] \in S
  BY <1>3, <1>5, <1>6
<1>8. h[0] = f0 /\ h[m - 1] = g[m - 1]
  BY <1>3, <1>4, <1>5
<1>9. ASSUME NEW i \in 1..m
      PROVE  h[i] = F[<<h[i - 1], i>>]
  <2>1. CASE i = m
    BY <1>5, <1>8, <2>1
  <2>2. CASE i # m
    <3>1. i \in 1..m - 1 /\ i - 1 \in 0..m /\ i - 1 # m /\ i \in 0..m
      BY <1>3, <2>2
    <3>2. h[i] = g[i] /\ h[i - 1] = g[i - 1] /\ g[i] = F[<<g[i - 1], i>>]
      BY <3>1, <2>2, <1>4, <1>5
    <3> QED
      BY <3>2
  <2> QED
    BY <2>1, <2>2
<1>10. Solves(h, m)
  BY <1>7, <1>8, <1>9
<1> QED
  BY <1>1, <1>10 DEF Solvable

\* Induction up to n.
LEMMA UpTo ==
  ASSUME NEW n \in Nat, NEW G, 0 \in G, \A i \in 1..n : i - 1 \in G => i \in G
  PROVE  0..n \subseteq G
<1> DEFINE Bad == {m \in 0..n : m \notin G}
<1> SUFFICES ASSUME Bad # {} PROVE FALSE
  OBVIOUS
<1>1. PICK m \in Bad : \A k \in Bad : m <= k
  <2>1. Bad \subseteq Nat
    OBVIOUS
  <2> HIDE DEF Bad
  <2> QED
    BY <2>1, LeastNat
<1>2. m \in 1..n /\ m - 1 \in 0..n /\ m - 1 \notin Bad
  BY <1>1
<1> QED
  BY <1>1, <1>2

\* Two functions agree if they start alike and every step keeps them alike.
LEMMA SameValues ==
  ASSUME NEW n \in Nat, NEW g, NEW h, g[0] = h[0],
         \A i \in 1..n : g[i - 1] = h[i - 1] => g[i] = h[i]
  PROVE  \A i \in 0..n : g[i] = h[i]
<1> DEFINE G == {i \in 0..n : g[i] = h[i]}
<1>1. 0 \in G /\ \A i \in 1..n : i - 1 \in G => i \in G
  OBVIOUS
<1> HIDE DEF G
<1>2. 0..n \subseteq G
  BY <1>1, UpTo
<1> QED
  BY <1>2 DEF G
=============================================================================
