-------------------------- MODULE PaddrAllocProofs --------------------------
(***************************************************************************)
(* Proofs about PaddrAlloc for every set of regions, every page size and   *)
(* every paddr_top.                                                        *)
(*                                                                         *)
(* AllocInv is inductive as it stands.  NoOverlap alone is not: the block  *)
(* that Place assigns is free because of PlaceInv, which holds because the *)
(* scan keeps every visited region at prev or above it and every region    *)
(* still to visit below the visited ones (ScanInv), which needs the ends   *)
(* of regions on page boundaries (AllAligned), so that rounding the end of *)
(* a region down changes nothing.                                          *)
(*                                                                         *)
(* ImplementsRegionAlloc needs SearchInv besides: every block above the    *)
(* gap that the scan has come to meets an assigned region, so that the     *)
(* first gap that is large enough holds the highest free block, and there  *)
(* is none when the scan ends without one.                                 *)
(***************************************************************************)
EXTENDS PaddrAlloc, Arithmetic, TLAPS

-----------------------------------------------------------------------------
\* MemoryRegion() gives every region a positive, page-aligned size.
LEMMA RegionSizeOK ==
    ASSUME NEW s \in Size, NEW a \in Addr \cup {Unassigned}
    PROVE  /\ RegionSize(s, a) \in Nat \ {0}
           /\ Aligned(RegionSize(s, a))
<1>1. s \in Nat \ {0} /\ s % Page = 0
  BY SizeAssumption
<1> DEFINE k == (s + LargePage - 1) \div LargePage
<1>2. k \in Int /\ s + LargePage - 1 \in Int
  BY <1>1, PageAssumption
<1>3. s + LargePage - 1 = LargePage * k + ((s + LargePage - 1) % LargePage)
      /\ (s + LargePage - 1) % LargePage \in 0 .. LargePage - 1
  BY <1>2, DivMod, PageAssumption
<1>4. LargePage * k \in Nat \ {0}
  <2>1. LargePage * k \in Int
    BY <1>2, PageAssumption
  <2>2. LargePage * k >= s
    BY <1>1, <1>3, <2>1, PageAssumption
  <2> QED
    BY <1>1, <2>1, <2>2
<1>5. (LargePage * k) % Page = 0
  <2>1. PICK c \in Int : LargePage = Page * c
    BY IsMultiple, LargePageAssumption, PageAssumption
  <2>2. LargePage * k = Page * (c * k) /\ c * k \in Int
    BY <2>1, <1>2, PageAssumption
  <2> QED
    BY <2>2, MultipleAligned, PageAssumption
<1>6. RoundUpLarge(s) = LargePage * k
  BY <1>2, PageAssumption DEF RoundUpLarge
<1> HIDE DEF k
<1> QED
  BY <1>1, <1>4, <1>5, <1>6 DEF RegionSize, Aligned

-----------------------------------------------------------------------------
(* One lemma per step of the invariant.                                    *)

\* Declaring a region: an unusable address clears sound, a usable one is clear
\* of every region.
LEMMA MemoryRegionStep ==
    ASSUME AllocInv,
           NEW r \in Region, NEW s \in Size, NEW a \in Addr \cup {Unassigned},
           NEW p \in BOOLEAN, MemoryRegion(r, s, a, p)
    PROVE  AllocInv'
<1> DEFINE sz == RegionSize(s, a)
<1>1. sz \in Nat \ {0} /\ Aligned(sz)
  BY RegionSizeOK
<1>2. a \in Nat \cup {Unassigned}
  BY AddrAssumption
<1>3. /\ phase = "idle" /\ r \notin mrs
      /\ mrs' = mrs \cup {r}
      /\ size' = [size EXCEPT ![r] = sz]
      /\ physical' = IF a # Unassigned \/ p THEN physical \cup {r} ELSE physical
      /\ paddr' = [paddr EXCEPT ![r] = a]
      /\ sound' = (sound /\ (a # Unassigned =>
                      /\ Aligned(a)
                      /\ Aligned(a + sz)
                      /\ \A q \in Assigned : Disjoint(a, sz, paddr[q], size[q])))
      /\ UNCHANGED <<outcome, phase, mr, rest, prev, next>>
  BY DEF MemoryRegion, scanVars
<1> HIDE DEF sz
<1>4. TypeOK
  BY DEF AllocInv
<1>5. TypeOK'
  <2>1. /\ mrs' \subseteq Region /\ physical' \subseteq mrs'
        /\ size' \in [Region -> Nat]
        /\ paddr' \in [Region -> Nat \cup {Unassigned}]
    BY <1>1, <1>2, <1>3, <1>4 DEF TypeOK
  <2>2. \A q \in mrs' : size'[q] > 0 /\ Aligned(size'[q])
    <3> SUFFICES ASSUME NEW q \in mrs' PROVE size'[q] > 0 /\ Aligned(size'[q])
      BY DEF Aligned
    <3>1. CASE q = r
      <4>1. size'[r] = sz
        BY <1>3, <1>4 DEF TypeOK
      <4> QED
        BY <3>1, <4>1, <1>1
    <3>2. CASE q # r
      BY <3>2, <1>3, <1>4 DEF TypeOK
    <3> QED
      BY <3>1, <3>2
  <2>3. \A q \in Region \ physical' : paddr'[q] = Unassigned
    BY <1>3, <1>4 DEF TypeOK
  <2>4. sound' \in BOOLEAN
    BY <1>3, <1>4, Zenon DEF TypeOK
  <2> QED
    BY <1>3, <1>4, <2>1, <2>2, <2>3, <2>4 DEF TypeOK
<1>6. ASSUME sound'
      PROVE  /\ sound
             /\ \A q \in Assigned' : q # r => q \in Assigned /\ paddr'[q] = paddr[q] /\ size'[q] = size[q]
             /\ r \in Assigned' => /\ paddr'[r] = a /\ size'[r] = sz
                                   /\ Aligned(a) /\ Aligned(a + sz)
                                   /\ \A q \in Assigned : Disjoint(a, sz, paddr[q], size[q])
  BY <1>3, <1>4, <1>6 DEF TypeOK, Assigned
<1>7. NoOverlap'
  BY <1>6, <1>4, <1>1, <1>2 DEF AllocInv, NoOverlap, DisjointLayout, Disjoint, TypeOK, Assigned
<1>8. AllAligned'
  BY <1>6 DEF AllocInv, AllAligned
<1>9. ScanInv' /\ PlaceInv'
  BY <1>3 DEF ScanInv, PlaceInv
<1> QED
  BY <1>5, <1>7, <1>8, <1>9 DEF AllocInv

\* Steps that assign nothing and declare nothing keep the layout.
LEMMA LayoutKept ==
    ASSUME AllocInv, UNCHANGED <<declVars, paddr>>
    PROVE  /\ NoOverlap' /\ AllAligned'
           /\ Assigned' = Assigned /\ UsedRange' = UsedRange /\ Pending' = Pending
  BY DEF AllocInv, NoOverlap, DisjointLayout, AllAligned, Assigned, UsedRange, Pending, declVars

\* Popping a region starts a scan that has visited nothing.
LEMMA PickStep ==
    ASSUME AllocInv, NEW r \in Region, Pick(r)
    PROVE  AllocInv'
<1>1. /\ r \in Pending /\ mr' = r /\ rest' = UsedRange /\ prev' = PaddrTop
      /\ phase' = "scan" /\ UNCHANGED <<declVars, paddr, outcome, next>>
  BY DEF Pick
<1>2. TypeOK'
  BY <1>1, TopAssumption DEF AllocInv, TypeOK, declVars, UsedRange
<1>3. ScanInv'
  <2>1. Pending' = Pending /\ UsedRange' = UsedRange
    BY <1>1, LayoutKept
  <2>2. Aligned(PaddrTop) /\ PaddrTop <= PaddrTop
    BY TopAssumption DEF Aligned
  <2> QED
    BY <1>1, <2>1, <2>2 DEF ScanInv, Aligned
<1>4. PlaceInv'
  BY <1>1 DEF PlaceInv
<1> QED
  BY <1>1, <1>2, <1>3, <1>4, LayoutKept DEF AllocInv

\* An assigned region outside used_range starts at paddr_top or above it.
LEMMA NotUsed ==
    ASSUME TypeOK, NEW q \in Assigned, q \notin UsedRange
    PROVE  paddr[q] >= PaddrTop
<1>1. q \in physical /\ paddr[q] \in Nat /\ paddr[q] # Unassigned
  BY DEF TypeOK, Assigned
<1> QED
  BY <1>1, TopAssumption DEF UsedRange

\* In a sound layout the regions below the highest one of rest end where it
\* starts, or before.
LEMMA VisitHighest ==
    ASSUME AllocInv, phase = "scan", sound, NEW m \in Region, Visit(m)
    PROVE  \A q \in rest : q # m => paddr[q] + size[q] <= paddr[m]
<1>1. rest \subseteq UsedRange /\ UsedRange \subseteq Assigned
  BY DEF AllocInv, ScanInv, TypeOK, UsedRange, Assigned
<1> SUFFICES ASSUME NEW q \in rest, q # m
             PROVE  paddr[q] + size[q] <= paddr[m]
  OBVIOUS
<1>2. /\ paddr[q] \in Nat /\ paddr[m] \in Nat /\ paddr[q] <= paddr[m]
      /\ size[q] \in Nat /\ size[m] \in Nat /\ size[m] > 0
  BY <1>1 DEF Visit, AllocInv, TypeOK, Assigned
<1>3. Disjoint(paddr[q], size[q], paddr[m], size[m])
  BY <1>1 DEF Visit, AllocInv, NoOverlap, DisjointLayout
<1> QED
  BY <1>2, <1>3 DEF Disjoint

\* The gap above m is large enough: the block below prev is free.
LEMMA ScanFitsStep ==
    ASSUME AllocInv, NEW m \in Region, ScanFits(m)
    PROVE  AllocInv'
<1>1. /\ phase = "scan" /\ Visit(m) /\ RegionEnd(m) <= prev /\ Fits(m)
      /\ next' = prev - size[mr] /\ phase' = "place"
      /\ UNCHANGED <<declVars, paddr, outcome, mr, rest, prev>>
  BY DEF ScanFits
<1>2. TypeOK /\ ScanInv
  BY DEF AllocInv
<1>3. mr \in Pending /\ mr \in Region /\ mr \in mrs /\ size[mr] \in Nat
      /\ Aligned(size[mr]) /\ prev \in Nat
  BY <1>1, <1>2 DEF TypeOK, ScanInv, Pending
<1>4. TypeOK'
  <2>1. next' \in Int
    BY <1>1, <1>3
  <2> QED
    BY <1>1, <1>2, <2>1 DEF TypeOK, declVars, Aligned
<1>5. ASSUME sound
      PROVE  /\ next' + size[mr] <= PaddrTop
             /\ Aligned(next')
             /\ Aligned(next' + size[mr])
             /\ \A q \in Assigned : Disjoint(next', size[mr], paddr[q], size[q])
  <2>1. prev <= PaddrTop /\ Aligned(prev) /\ (\A q \in UsedRange \ rest : prev <= paddr[q])
    BY <1>1, <1>2, <1>5 DEF ScanInv
  <2>2. next' + size[mr] = prev
    BY <1>1, <1>3
  <2>3. Aligned(next')
    BY <1>1, <1>3, <2>1, AlignedSum, PageAssumption DEF Aligned
  <2>4. m \in Assigned /\ Aligned(RegionEnd(m)) /\ paddr[m] \in Nat /\ size[m] \in Nat
    BY <1>1, <1>2, <1>5 DEF AllocInv, AllAligned, ScanInv, TypeOK, Visit, UsedRange, Assigned, RegionEnd
  <2>5. RoundDown(RegionEnd(m)) = RegionEnd(m)
    BY <2>4 DEF RoundDown, Aligned, RegionEnd
  <2>6. RegionEnd(m) <= next'
    BY <1>1, <1>3, <2>4, <2>5 DEF Fits, RegionEnd
  <2>7. ASSUME NEW q \in Assigned
        PROVE  Disjoint(next', size[mr], paddr[q], size[q])
    <3>1. paddr[q] \in Nat /\ size[q] \in Nat /\ next' \in Int
      <4>1. next' \in Int
        BY <1>1, <1>3
      <4> QED
        BY <4>1, <1>2 DEF TypeOK, Assigned
    <3>2. CASE q \in rest /\ q # m
      BY <3>1, <3>2, <1>1, <1>5, <2>4, <2>6, VisitHighest DEF Disjoint, RegionEnd
    <3>3. CASE q = m
      BY <3>1, <3>3, <2>6 DEF Disjoint, RegionEnd
    <3>4. CASE q \in UsedRange \ rest
      BY <3>1, <3>4, <2>1, <2>2 DEF Disjoint
    <3>5. CASE q \notin UsedRange
      <4>1. paddr[q] >= PaddrTop
        BY <3>1, <3>5, <1>2, TopAssumption, NotUsed
      <4> QED
        BY <3>1, <4>1, <2>1, <2>2, <1>3, TopAssumption DEF Disjoint
    <3> QED
      BY <3>2, <3>3, <3>4, <3>5
  <2> QED
    BY <2>1, <2>2, <2>3, <2>7
<1>6. PlaceInv'
  BY <1>1, <1>3, <1>5, LayoutKept DEF PlaceInv, declVars
<1>7. ScanInv'
  BY <1>1 DEF ScanInv
<1> QED
  BY <1>1, <1>4, <1>6, <1>7, LayoutKept DEF AllocInv

\* The scan goes on below m: everything visited starts at m or above.
LEMMA ScanSkipStep ==
    ASSUME AllocInv, NEW m \in Region, ScanSkip(m)
    PROVE  AllocInv'
<1>1. /\ phase = "scan" /\ Visit(m) /\ RegionEnd(m) <= prev
      /\ prev' = paddr[m] /\ rest' = rest \ {m}
      /\ UNCHANGED <<declVars, paddr, outcome, phase, mr, next>>
  BY DEF ScanSkip
<1>2. TypeOK /\ ScanInv
  BY DEF AllocInv
<1>3. /\ m \in Assigned /\ paddr[m] \in Nat /\ size[m] \in Nat
      /\ rest \subseteq UsedRange /\ prev \in Nat /\ prev <= PaddrTop
  BY <1>1, <1>2 DEF ScanInv, TypeOK, Visit, UsedRange, Assigned
<1>4. TypeOK'
  BY <1>1, <1>2, <1>3 DEF TypeOK, declVars
<1>5. prev' <= PaddrTop
  BY <1>1, <1>3, TopAssumption DEF RegionEnd
<1>6. ASSUME sound
      PROVE  Aligned(prev') /\ \A q \in UsedRange \ rest' : prev' <= paddr[q]
  <2>1. Aligned(prev')
    BY <1>1, <1>3, <1>6 DEF AllocInv, AllAligned
  <2>2. ASSUME NEW q \in UsedRange \ rest' PROVE prev' <= paddr[q]
    <3>1. paddr[q] \in Nat
      BY <1>2 DEF UsedRange, TypeOK
    <3>2. CASE q = m
      BY <3>1, <3>2, <1>1
    <3>3. CASE q # m
      <4>1. prev <= paddr[q]
        BY <1>1, <1>2, <1>6, <3>3 DEF ScanInv
      <4> QED
        BY <4>1, <3>1, <1>1, <1>3 DEF RegionEnd
    <3> QED
      BY <3>2, <3>3
  <2> QED
    BY <2>1, <2>2
<1>7. ScanInv'
  BY <1>1, <1>2, <1>3, <1>5, <1>6, LayoutKept DEF ScanInv, declVars
<1>8. PlaceInv'
  BY <1>1 DEF PlaceInv
<1> QED
  BY <1>1, <1>4, <1>7, <1>8, LayoutKept DEF AllocInv

\* Everything has been visited: the block below prev is under every region.
LEMMA ScanEndStep ==
    ASSUME AllocInv, ScanEnd
    PROVE  AllocInv'
<1> DEFINE n == prev - size[mr]
<1>1. /\ phase = "scan" /\ rest = {}
      /\ next' = IF Aligned(n) THEN n ELSE n + RoundDown(n)
      /\ phase' = "place"
      /\ UNCHANGED <<declVars, paddr, outcome, mr, rest, prev>>
  BY DEF ScanEnd
<1>2. TypeOK /\ ScanInv
  BY DEF AllocInv
<1>3. mr \in Pending /\ mr \in Region /\ mr \in mrs /\ size[mr] \in Nat
      /\ Aligned(size[mr]) /\ prev \in Nat
  BY <1>1, <1>2 DEF TypeOK, ScanInv, Pending
<1>4. n \in Int /\ n % Page \in Int
  BY <1>3, PageAssumption
<1>5. TypeOK'
  <2>1. next' \in Int
    BY <1>1, <1>4 DEF RoundDown
  <2> QED
    BY <1>1, <1>2, <2>1 DEF TypeOK, declVars
<1>6. ASSUME sound
      PROVE  /\ next' + size[mr] <= PaddrTop
             /\ Aligned(next')
             /\ Aligned(next' + size[mr])
             /\ \A q \in Assigned : Disjoint(next', size[mr], paddr[q], size[q])
  <2>1. prev <= PaddrTop /\ Aligned(prev) /\ (\A q \in UsedRange : prev <= paddr[q])
    BY <1>1, <1>2, <1>6 DEF ScanInv
  <2>2. Aligned(n)
    BY <1>3, <2>1, AlignedSum, PageAssumption DEF Aligned
  <2>3. next' + size[mr] = prev /\ Aligned(next')
    BY <1>1, <1>3, <2>2
  <2>4. ASSUME NEW q \in Assigned
        PROVE  Disjoint(next', size[mr], paddr[q], size[q])
    <3>1. paddr[q] \in Nat /\ size[q] \in Nat
      BY <1>2 DEF TypeOK, Assigned
    <3>2. prev <= paddr[q]
      <4>1. CASE q \in UsedRange
        BY <4>1, <2>1
      <4>2. CASE q \notin UsedRange
        BY <4>2, <3>1, <1>2, <1>3, <2>1, TopAssumption, NotUsed
      <4> QED
        BY <4>1, <4>2
    <3> QED
      BY <3>1, <3>2, <2>3 DEF Disjoint
  <2> QED
    BY <2>1, <2>3, <2>4
<1>7. PlaceInv'
  BY <1>1, <1>3, <1>6, LayoutKept DEF PlaceInv, declVars
<1>8. ScanInv'
  BY <1>1 DEF ScanInv
<1> QED
  BY <1>1, <1>5, <1>7, <1>8, LayoutKept DEF AllocInv

\* Assigning the block PlaceInv says is free.
LEMMA PlaceStep ==
    ASSUME AllocInv, Place
    PROVE  AllocInv'
<1>1. /\ phase = "place" /\ Aligned(next) /\ next >= 0
      /\ paddr' = [paddr EXCEPT ![mr] = next] /\ phase' = "pick"
      /\ UNCHANGED <<mrs, size, physical, sound, outcome, mr, rest, prev, next>>
  BY DEF Place, declVars, scanVars
<1>2. TypeOK /\ PlaceInv
  BY DEF AllocInv
<1>3. mr \in physical /\ mr \in mrs /\ mr \in Region /\ next \in Nat
  <2>1. mr \in Pending /\ next \in Int
    BY <1>1, <1>2 DEF TypeOK, PlaceInv
  <2>2. mr \in physical /\ physical \subseteq mrs /\ mrs \subseteq Region
    BY <1>2, <2>1 DEF TypeOK, Pending
  <2> QED
    BY <1>1, <2>1, <2>2
<1>4. TypeOK'
  BY <1>1, <1>2, <1>3 DEF TypeOK
<1>5. /\ mr \in Assigned' /\ paddr'[mr] = next /\ size' = size /\ sound' = sound
      /\ \A q \in Assigned' : q # mr => q \in Assigned /\ paddr'[q] = paddr[q]
  <2>1. paddr'[mr] = next /\ \A q \in Region : q # mr => paddr'[q] = paddr[q]
    BY <1>1, <1>2, <1>3 DEF TypeOK
  <2>2. next # Unassigned
    BY <1>3 DEF Unassigned
  <2> QED
    BY <1>1, <1>2, <1>3, <2>1, <2>2 DEF TypeOK, Assigned
<1>6. NoOverlap'
  <2> SUFFICES ASSUME sound, NEW q \in Assigned', NEW r \in Assigned', q # r
               PROVE  Disjoint(paddr'[q], size[q], paddr'[r], size[r])
    BY <1>5 DEF NoOverlap, DisjointLayout
  <2>1. \A t \in Assigned : Disjoint(next, size[mr], paddr[t], size[t])
    BY <1>1, <1>2 DEF PlaceInv
  <2>2. CASE q = mr
    BY <2>1, <2>2, <1>5
  <2>3. CASE r = mr
    BY <2>1, <2>3, <1>5 DEF Disjoint
  <2>4. CASE q # mr /\ r # mr
    BY <2>4, <1>5 DEF AllocInv, NoOverlap, DisjointLayout
  <2> QED
    BY <2>2, <2>3, <2>4
<1>7. AllAligned'
  BY <1>1, <1>2, <1>5 DEF AllocInv, AllAligned, PlaceInv
<1>8. ScanInv' /\ PlaceInv'
  BY <1>1 DEF ScanInv, PlaceInv
<1> QED
  BY <1>4, <1>6, <1>7, <1>8 DEF AllocInv

-----------------------------------------------------------------------------
(* The theorems.                                                           *)

\* The strengthened invariant holds in every state of every instance.
THEOREM AllocInvariant == Spec => []AllocInv
<1>1. Init => AllocInv
  <2> SUFFICES ASSUME Init PROVE AllocInv
    OBVIOUS
  <2>1. TypeOK
    <3>1. /\ mrs = {} /\ physical = {} /\ rest = {} /\ prev = 0 /\ next = 0
          /\ outcome = "" /\ sound = TRUE /\ phase = "idle" /\ mr \in Region
      BY DEF Init
    <3>2. size \in [Region -> Nat] /\ paddr \in [Region -> Nat \cup {Unassigned}]
      BY DEF Init
    <3>3. \A r \in Region : paddr[r] = Unassigned
      BY DEF Init
    <3>4. /\ \A r \in mrs : size[r] > 0 /\ Aligned(size[r])
          /\ mrs \subseteq Region /\ physical \subseteq mrs /\ rest \subseteq Region
      BY <3>1, Zenon
    <3>6. prev \in Nat /\ next \in Int
      <4>1. prev = 0 /\ next = 0
        BY <3>1
      <4> QED
        BY <4>1
    <3>5. /\ outcome \in {"", "final", "no_memory", "assertion"}
          /\ sound \in BOOLEAN /\ phase \in {"idle", "pick", "scan", "place"}
          /\ mr \in Region
      BY <3>1
    <3> QED
      BY <3>2, <3>3, <3>4, <3>5, <3>6 DEF TypeOK
  <2>2. Assigned = {}
    BY DEF Init, Assigned
  <2> QED
    BY <2>1, <2>2 DEF Init, AllocInv, NoOverlap, DisjointLayout, AllAligned, ScanInv, PlaceInv
<1>2. AllocInv /\ [Next]_vars => AllocInv'
  <2> SUFFICES ASSUME AllocInv, [Next]_vars PROVE AllocInv'
    OBVIOUS
  <2>1. ASSUME NEW r \in Region, NEW s \in Size, NEW a \in Addr \cup {Unassigned},
               NEW p \in BOOLEAN, MemoryRegion(r, s, a, p)
        PROVE  AllocInv'
    BY <2>1, MemoryRegionStep
  <2>2. ASSUME NEW r \in Region, Pick(r) PROVE AllocInv'
    BY <2>2, PickStep
  <2>3. ASSUME NEW m \in Region, ScanFits(m) PROVE AllocInv'
    BY <2>3, ScanFitsStep
  <2>4. ASSUME NEW m \in Region, ScanSkip(m) PROVE AllocInv'
    BY <2>4, ScanSkipStep
  <2>5. CASE ScanEnd
    BY <2>5, ScanEndStep
  <2>6. CASE Place
    BY <2>6, PlaceStep
  <2>7. ASSUME \/ Assemble \/ PlaceAssert \/ PlaceNoMemory \/ Finish
               \/ \E m \in Region : ScanAssert(m)
        PROVE  AllocInv'
    <3>1. /\ UNCHANGED <<declVars, paddr, scanVars>>
          /\ phase' \in {"idle", "pick"}
          /\ outcome' \in {"", "final", "no_memory", "assertion"}
      BY <2>7 DEF Assemble, PlaceAssert, PlaceNoMemory, Finish, ScanAssert
    <3>2. TypeOK'
      BY <3>1 DEF AllocInv, TypeOK, declVars, scanVars
    <3>3. ScanInv' /\ PlaceInv'
      BY <3>1 DEF ScanInv, PlaceInv
    <3> QED
      BY <3>1, <3>2, <3>3, LayoutKept DEF AllocInv
  <2>8. CASE UNCHANGED vars
    <3>1. UNCHANGED <<declVars, paddr, scanVars, outcome, phase>>
      BY <2>8 DEF vars, declVars, scanVars
    <3>2. TypeOK' /\ ScanInv' /\ PlaceInv'
      BY <3>1, LayoutKept DEF AllocInv, TypeOK, ScanInv, PlaceInv, declVars, scanVars
    <3> QED
      BY <3>1, <3>2, LayoutKept DEF AllocInv
  <2> QED
    BY <2>1, <2>2, <2>3, <2>4, <2>5, <2>6, <2>7, <2>8 DEF Next, AutoAllocate
<1> QED
  BY <1>1, <1>2, PTL DEF Spec

\* No two regions of a sound layout ever share a byte: what auto_allocate
\* places never lands on another region (system.py:150-234).
THEOREM RegionsNeverOverlap == Spec => []NoOverlap
<1>1. AllocInv => NoOverlap
  BY DEF AllocInv
<1> QED
  BY <1>1, AllocInvariant, PTL

-----------------------------------------------------------------------------
(* PaddrAlloc implements RegionAlloc.  What is safe is not enough for that: *)
(* the block found has to be the highest one, and an assertion may fail    *)
(* only where RegionAlloc allows it.                                       *)

\* Every block that ends above e and not above paddr_top meets an assigned region.
NoRoomAbove(e) ==
  \A b \in 0 .. PaddrTop :
    b + size[mr] > e /\ b + size[mr] <= PaddrTop => ~Promise!Free(b, size[mr])

\* Nothing above prev was passed over, and only a region that lies across
\* paddr_top can end above prev.
SearchInv ==
  /\ phase # "idle" => outcome = ""
  /\ phase = "scan" /\ sound =>
       /\ prev = PaddrTop \/ \A m \in rest : RegionEnd(m) <= prev
       /\ NoRoomAbove(prev)
  /\ phase = "place" =>
       /\ Aligned(next) => next + size[mr] <= PaddrTop
       /\ sound => NoRoomAbove(next + size[mr])


LEMMA SameSets ==
  /\ Promise!Assigned = Assigned /\ Promise!Pending = Pending
  /\ Promise!Unassigned = Unassigned
  /\ \A a, s, b, t : Promise!Disjoint(a, s, b, t) <=> Disjoint(a, s, b, t)
  /\ \A a, s : Promise!Free(a, s) <=>
       Aligned(a) /\ \A r \in Assigned : Disjoint(a, s, paddr[r], size[r])
  BY DEF Promise!Assigned, Promise!Pending, Promise!Disjoint, Promise!Free,
         Promise!Unassigned, Assigned, Pending, Disjoint, Aligned, Unassigned

\* While nothing is assigned, what was searched stays searched.
LEMMA SearchedKept ==
  ASSUME UNCHANGED <<mrs, size, paddr, mr>>, NEW e
  PROVE  NoRoomAbove(e)' <=> NoRoomAbove(e')
  BY DEF NoRoomAbove, Promise!Free, Promise!Assigned, Promise!Disjoint

LEMMA PickSearch ==
  ASSUME AllocInv, SearchInv, NEW r \in Region, Pick(r)
  PROVE  SearchInv'
<1>1. phase = "pick" /\ phase' = "scan" /\ prev' = PaddrTop /\ outcome' = outcome
  BY DEF Pick
<1>2. outcome = ""
  BY <1>1 DEF SearchInv
<1>3. NoRoomAbove(prev)'
  <2> SUFFICES ASSUME NEW b \in 0 .. PaddrTop,
                      b + size'[mr'] > prev', b + size'[mr'] <= PaddrTop
               PROVE  FALSE
    BY DEF NoRoomAbove
  <2>1. r \in Region /\ mr' = r /\ size' = size /\ size[r] \in Nat
    BY DEF Pick, declVars, AllocInv, TypeOK
  <2> QED
    BY <1>1, <2>1, TopAssumption
<1> QED
  BY <1>1, <1>2, <1>3 DEF SearchInv

\* Going on below m, the scan has passed over nothing: a block in the gap is too
\* large for it, and a lower one that ends above m meets m.
LEMMA ScanSkipSearch ==
  ASSUME AllocInv, SearchInv, NEW m \in Region, ScanSkip(m)
  PROVE  SearchInv'
<1>1. /\ phase = "scan" /\ phase' = "scan" /\ Visit(m) /\ RegionEnd(m) <= prev /\ ~Fits(m)
      /\ prev' = paddr[m] /\ rest' = rest \ {m}
      /\ UNCHANGED <<mrs, size, physical, sound, paddr, outcome, mr, next>>
  BY DEF ScanSkip, declVars
<1>2. TypeOK /\ ScanInv /\ m \in rest
  BY <1>1 DEF AllocInv, Visit
<1>3. /\ m \in Assigned /\ paddr[m] \in Nat /\ size[m] \in Nat
      /\ prev \in Nat /\ mr \in Region /\ size[mr] \in Nat
  BY <1>1, <1>2 DEF ScanInv, TypeOK, UsedRange, Assigned
<1>4. ASSUME sound
      PROVE  (\A q \in rest' : RegionEnd(q)' <= prev') /\ NoRoomAbove(prev)'
  <2>1. \A q \in rest' : RegionEnd(q)' <= prev'
    BY <1>1, <1>4, VisitHighest DEF RegionEnd
  <2>2. NoRoomAbove(prev)
    BY <1>1, <1>4 DEF SearchInv
  <2>3. RoundDown(RegionEnd(m)) = RegionEnd(m)
    <3>1. Aligned(RegionEnd(m))
      BY <1>3, <1>4 DEF AllocInv, AllAligned, RegionEnd
    <3> QED
      BY <3>1, <1>3 DEF RoundDown, Aligned, RegionEnd
  <2>4. prev < paddr[m] + size[m] + size[mr]
    BY <1>1, <1>3, <2>3 DEF Fits, RegionEnd
  <2>5. ASSUME NEW b \in 0 .. PaddrTop, b + size[mr] > paddr[m], b + size[mr] <= PaddrTop,
               Promise!Free(b, size[mr])
        PROVE  FALSE
    <3>1. b + size[mr] <= prev
      BY <2>2, <2>5, <1>3, TopAssumption DEF NoRoomAbove
    <3>2. Disjoint(b, size[mr], paddr[m], size[m])
      BY <2>5, <1>3, SameSets
    <3> QED
      BY <2>4, <2>5, <3>1, <3>2, <1>3, TopAssumption DEF Disjoint
  <2>6. NoRoomAbove(paddr[m])
    BY <2>5 DEF NoRoomAbove
  <2>7. NoRoomAbove(prev)'
    BY <1>1, <2>6, SearchedKept
  <2> QED
    BY <2>1, <2>7
<1> QED
  BY <1>1, <1>4 DEF SearchInv

LEMMA ScanFitsSearch ==
  ASSUME AllocInv, SearchInv, NEW m \in Region, ScanFits(m)
  PROVE  SearchInv'
<1>1. /\ phase = "scan" /\ phase' = "place" /\ next' = prev - size[mr]
      /\ UNCHANGED <<mrs, size, physical, sound, paddr, outcome, mr, prev>>
  BY DEF ScanFits, declVars
<1>2. prev \in Nat /\ prev <= PaddrTop /\ mr \in Region /\ size[mr] \in Nat
  BY <1>1 DEF AllocInv, TypeOK, ScanInv
<1>3. next' + size'[mr'] = prev
  BY <1>1, <1>2
<1>4. sound => NoRoomAbove(next + size[mr])'
  BY <1>1, <1>3, SearchedKept DEF SearchInv
<1> QED
  BY <1>1, <1>2, <1>3, <1>4 DEF SearchInv

LEMMA ScanEndSearch ==
  ASSUME AllocInv, SearchInv, ScanEnd
  PROVE  SearchInv'
<1> DEFINE n == prev - size[mr]
<1>1. /\ phase = "scan" /\ phase' = "place"
      /\ next' = IF Aligned(n) THEN n ELSE n + RoundDown(n)
      /\ UNCHANGED <<mrs, size, physical, sound, paddr, outcome, mr, prev>>
  BY DEF ScanEnd, declVars
<1>2. prev \in Nat /\ prev <= PaddrTop /\ mr \in Region /\ size[mr] \in Nat /\ n \in Int
      /\ mr \in mrs /\ Aligned(size[mr])
  <2>1. prev \in Nat /\ prev <= PaddrTop /\ mr \in Region /\ mr \in mrs
    BY <1>1 DEF AllocInv, TypeOK, ScanInv, Pending
  <2>2. size[mr] \in Nat /\ Aligned(size[mr])
    BY <2>1 DEF AllocInv, TypeOK
  <2> QED
    BY <2>1, <2>2
\* The correction of an unaligned address leaves it unaligned.
<1>3. Aligned(n + RoundDown(n)) => Aligned(n)
  <2>1. RoundDown(n) \in Int /\ RoundDown(n) % Page = 0
    BY <1>2, PageAssumption, RoundedDown DEF RoundDown
  <2> DEFINE r == RoundDown(n)
  <2> HIDE DEF r, n
  <2>2. ASSUME (n + r) % Page = 0, r \in Int, r % Page = 0
        PROVE  n % Page = 0
    <3>1. n + r \in Int
      BY <2>2, <1>2
    <3>2. ((n + r) - r) % Page = 0
      BY <2>2, <3>1, PageAssumption, AlignedSum, Zenon
    <3>3. (n + r) - r = n
      BY <2>2, <1>2
    <3> QED
      BY <3>2, <3>3
  <2> QED
    BY <2>1, <2>2 DEF Aligned, r
<1>4. Aligned(next)' => next' = n
  BY <1>1, <1>3 DEF Aligned
<1>5. sound => Aligned(n)
  <2>1. sound => Aligned(prev)
    BY <1>1 DEF AllocInv, ScanInv
  <2> QED
    BY <2>1, <1>2, AlignedSum, PageAssumption DEF Aligned
<1>6. n + size[mr] = prev
  BY <1>2
<1>7. sound => NoRoomAbove(next + size[mr])'
  <2> SUFFICES ASSUME sound PROVE NoRoomAbove(next + size[mr])'
    OBVIOUS
  <2>1. next' = n
    BY <1>1, <1>5
  <2>2. NoRoomAbove(prev)
    BY <1>1 DEF SearchInv
  <2>3. (next + size[mr])' = prev
    BY <2>1, <1>1, <1>6
  <2> QED
    BY <2>2, <2>3, <1>1, SearchedKept
<1>8. Aligned(next)' => next' + size'[mr'] <= PaddrTop
  BY <1>1, <1>2, <1>4, <1>6
<1> HIDE DEF n
<1> QED
  BY <1>1, <1>7, <1>8 DEF SearchInv, Aligned

LEMMA SearchStep ==
  ASSUME AllocInv, SearchInv, [Next]_vars
  PROVE  SearchInv'
<1>1. ASSUME NEW r \in Region, Pick(r) PROVE SearchInv'
  BY <1>1, PickSearch
<1>2. ASSUME NEW m \in Region, ScanSkip(m) PROVE SearchInv'
  BY <1>2, ScanSkipSearch
<1>3. ASSUME NEW m \in Region, ScanFits(m) PROVE SearchInv'
  BY <1>3, ScanFitsSearch
<1>4. CASE ScanEnd
  BY <1>4, ScanEndSearch
<1>5. ASSUME \/ \E r \in Region, s \in Size, a \in Addr \cup {Unassigned}, p \in BOOLEAN :
                    MemoryRegion(r, s, a, p)
             \/ Assemble \/ PlaceAssert \/ PlaceNoMemory \/ Finish \/ Place
             \/ \E m \in Region : ScanAssert(m)
      PROVE  SearchInv'
  <2>1. phase' = "idle" \/ (phase' = "pick" /\ (outcome' = "" \/ (phase = "place" /\ outcome' = outcome)))
    BY <1>5 DEF MemoryRegion, Assemble, PlaceAssert, PlaceNoMemory, Finish, Place, ScanAssert
  <2>2. phase = "place" => outcome = ""
    BY DEF SearchInv
  <2> QED
    BY <2>1, <2>2 DEF SearchInv
<1>6. CASE UNCHANGED vars
  <2>1. /\ UNCHANGED <<mrs, size, paddr, mr, phase, outcome, sound, rest, prev, next>>
    BY <1>6 DEF vars
  <2>2. NoRoomAbove(prev)' <=> NoRoomAbove(prev)
    BY <2>1, SearchedKept
  <2>3. NoRoomAbove(next + size[mr])' <=> NoRoomAbove(next + size[mr])
    BY <2>1, SearchedKept
  <2> QED
    BY <2>1, <2>2, <2>3 DEF SearchInv, RegionEnd, Aligned
<1> QED
  BY <1>1, <1>2, <1>3, <1>4, <1>5, <1>6 DEF Next, AutoAllocate

-----------------------------------------------------------------------------
(* Each step of the loop is a step of RegionAlloc, or none.                 *)

LEMMA DeclareMaps ==
  ASSUME NEW r \in Region, NEW s \in Size, NEW a \in Addr \cup {Unassigned},
         NEW p \in BOOLEAN, MemoryRegion(r, s, a, p)
  PROVE  Promise!Next
<1> DEFINE sz == RegionSize(s, a)
<1> DEFINE ph == a # Unassigned \/ p
<1>1. /\ phase = "idle" /\ r \notin mrs /\ outcome # "final"
      /\ mrs' = mrs \cup {r}
      /\ size' = [size EXCEPT ![r] = sz]
      /\ physical' = IF ph THEN physical \cup {r} ELSE physical
      /\ paddr' = [paddr EXCEPT ![r] = a]
      /\ sound' = (sound /\ (a # Unassigned =>
                      /\ Aligned(a)
                      /\ Aligned(a + sz)
                      /\ \A q \in Assigned : Disjoint(a, sz, paddr[q], size[q])))
      /\ UNCHANGED outcome
  BY DEF MemoryRegion
<1> HIDE DEF sz, ph
<1>2. sound' = (sound /\ (a # Unassigned => (a + sz) % Page = 0 /\ Promise!Free(a, sz)))
  BY <1>1, SameSets DEF Aligned
<1>3. Promise!Declare(r, sz, a, ph)
  BY <1>1, <1>2, SameSets DEF Promise!Declare
<1>4. sz \in {RegionSize(t, b) : t \in Size, b \in Addr \cup {Unassigned}} /\ ph \in BOOLEAN
  BY DEF sz, ph
<1> QED
  BY <1>3, <1>4, SameSets DEF Promise!Next

LEMMA PlaceMaps ==
  ASSUME AllocInv, SearchInv, Place
  PROVE  Promise!Next
<1>1. /\ phase = "place" /\ Aligned(next) /\ next >= 0
      /\ paddr' = [paddr EXCEPT ![mr] = next]
      /\ UNCHANGED <<mrs, size, physical, sound, outcome>>
  BY DEF Place, declVars
<1>2. outcome = "" /\ mr \in Pending
  BY <1>1 DEF SearchInv, AllocInv, PlaceInv
<1>3. next \in Int /\ size[mr] \in Nat /\ PaddrTop \in Nat
  BY TopAssumption DEF AllocInv, TypeOK
<1>4. mr \in Region
  BY DEF AllocInv, TypeOK
<1>5. next + size[mr] <= PaddrTop /\ next \in 0 .. PaddrTop
  <2>1. next + size[mr] <= PaddrTop
    BY <1>1, Zenon DEF SearchInv
  <2> QED
    BY <2>1, <1>1, <1>3
<1>6. ASSUME sound
      PROVE  /\ Promise!Fits(next, size[mr])
             /\ \A b \in next + 1 .. PaddrTop : ~Promise!Fits(b, size[mr])
  <2>1. Promise!Free(next, size[mr])
    BY <1>1, <1>6, SameSets DEF AllocInv, PlaceInv
  <2>2. NoRoomAbove(next + size[mr])
    BY <1>1, <1>6 DEF SearchInv
  <2>3. ASSUME NEW b \in next + 1 .. PaddrTop, Promise!Fits(b, size[mr])
        PROVE  FALSE
    <3>1. b \in 0 .. PaddrTop /\ b + size[mr] > next + size[mr]
      BY <2>3, <1>1, <1>3
    <3>2. b + size[mr] <= PaddrTop /\ Promise!Free(b, size[mr])
      BY <2>3, Zenon DEF Promise!Fits
    <3> QED
      BY <3>1, <3>2, <2>2 DEF NoRoomAbove
  <2> QED
    BY <2>1, <2>3, <1>1, <1>5 DEF Promise!Fits
<1>7. Promise!Place(mr, next)
  BY <1>1, <1>2, <1>6, SameSets DEF Promise!Place
<1> QED
  BY <1>4, <1>5, <1>7 DEF Promise!Next

LEMMA NoMemoryMaps ==
  ASSUME AllocInv, SearchInv, PlaceNoMemory
  PROVE  Promise!Next
<1>1. /\ phase = "place" /\ Aligned(next) /\ next < 0 /\ outcome' = "no_memory"
      /\ UNCHANGED <<mrs, size, physical, sound, paddr>>
  BY DEF PlaceNoMemory, declVars
<1>2. outcome = "" /\ mr \in Pending
  BY <1>1 DEF SearchInv, AllocInv, PlaceInv
<1>3. next \in Int /\ size[mr] \in Nat /\ PaddrTop \in Nat
  BY TopAssumption DEF AllocInv, TypeOK
<1>4. mr \in Region
  BY DEF AllocInv, TypeOK
<1>5. ASSUME sound, NEW b \in 0 .. PaddrTop, Promise!Fits(b, size[mr])
      PROVE  FALSE
  <2>1. b + size[mr] > next + size[mr]
    BY <1>1, <1>3
  <2>2. b + size[mr] <= PaddrTop /\ Promise!Free(b, size[mr])
    BY <1>5, Zenon DEF Promise!Fits
  <2>3. NoRoomAbove(next + size[mr])
    BY <1>1, <1>5, Zenon DEF SearchInv
  <2> QED
    BY <2>1, <2>2, <2>3 DEF NoRoomAbove
<1>6. Promise!NoMemory(mr)
  BY <1>1, <1>2, <1>5, SameSets DEF Promise!NoMemory
<1> QED
  BY <1>4, <1>6 DEF Promise!Next

LEMMA AssertionMaps ==
  ASSUME AllocInv, SearchInv, PlaceAssert \/ \E m \in Region : ScanAssert(m)
  PROVE  Promise!Next
<1>1. outcome = "" /\ outcome' = "assertion" /\ UNCHANGED <<mrs, size, physical, sound, paddr>>
  BY DEF PlaceAssert, ScanAssert, declVars, SearchInv
<1>2. ASSUME sound
      PROVE  \E r \in physical : /\ 0 <= paddr[r] /\ paddr[r] < PaddrTop
                                 /\ paddr[r] + size[r] > PaddrTop
  <2>1. ~PlaceAssert
    BY <1>2 DEF PlaceAssert, AllocInv, PlaceInv
  <2>2. PICK m \in Region : ScanAssert(m)
    BY <2>1
  <2>3. phase = "scan" /\ m \in rest /\ RegionEnd(m) > prev
    BY <2>2 DEF ScanAssert, Visit
  <2>4. m \in UsedRange /\ paddr[m] \in Nat /\ size[m] \in Nat /\ prev \in Nat
    BY <2>3 DEF AllocInv, TypeOK, ScanInv, UsedRange
  <2>5. prev = PaddrTop
    <3>1. prev = PaddrTop \/ RegionEnd(m) <= prev
      BY <1>2, <2>3, Zenon DEF SearchInv
    <3> QED
      BY <3>1, <2>3, <2>4 DEF RegionEnd
  <2> QED
    BY <2>3, <2>4, <2>5 DEF UsedRange, RegionEnd
<1>3. Promise!AssertionFails
  BY <1>1, <1>2 DEF Promise!AssertionFails
<1> QED
  BY <1>3 DEF Promise!Next

\* auto_allocate gives every region the highest free block there is, reports
\* that memory ran out only if there is none, and fails an assertion only over
\* a region across paddr_top, whatever the metaprogram declares and however
\* often it has to call again (system.py:150-234).
THEOREM ImplementsRegionAlloc == Spec => RefinesRegionAlloc
<1>1. Init => SearchInv /\ Promise!Init
  BY DEF Init, SearchInv, Promise!Init, Unassigned, Promise!Unassigned
<1>2. AllocInv /\ SearchInv /\ [Next]_vars => SearchInv'
  BY SearchStep
<1>3. ASSUME AllocInv, SearchInv, [Next]_vars
      PROVE  [Promise!Next]_(Promise!vars)
  <2>1. ASSUME NEW r \in Region, NEW s \in Size, NEW a \in Addr \cup {Unassigned},
               NEW p \in BOOLEAN, MemoryRegion(r, s, a, p)
        PROVE  Promise!Next
    BY <2>1, DeclareMaps
  <2>2. CASE Place
    BY <2>2, <1>3, PlaceMaps
  <2>3. CASE PlaceNoMemory
    BY <2>3, <1>3, NoMemoryMaps
  <2>4. CASE PlaceAssert \/ \E m \in Region : ScanAssert(m)
    BY <2>4, <1>3, AssertionMaps
  <2>5. CASE Finish
    <3>1. phase = "pick" /\ Pending = {} /\ outcome' = "final"
          /\ UNCHANGED <<mrs, size, physical, sound, paddr>>
      BY <2>5 DEF Finish, declVars
    <3> QED
      <4>1. outcome = ""
        BY <3>1, <1>3 DEF SearchInv
      <4>2. Promise!Finish
        BY <3>1, <4>1, SameSets DEF Promise!Finish
      <4> QED
        BY <4>2 DEF Promise!Next
  <2>6. CASE Assemble
    <3>1. phase = "idle" /\ outcome # "final" /\ outcome' = ""
          /\ UNCHANGED <<mrs, size, physical, sound, paddr>>
      BY <2>6 DEF Assemble, declVars
    <3>2. outcome \in {"", "no_memory", "assertion"}
      BY <3>1, <1>3 DEF AllocInv, TypeOK
    <3>3. CASE outcome = ""
      BY <3>1, <3>3 DEF Promise!vars
    <3>4. CASE outcome \in {"no_memory", "assertion"}
      <4>1. Promise!Restart
        BY <3>1, <3>4 DEF Promise!Restart
      <4> QED
        BY <4>1 DEF Promise!Next
    <3> QED
      BY <3>2, <3>3, <3>4
  <2>7. ASSUME \/ \E r \in Region : Pick(r)
               \/ \E m \in Region : ScanFits(m) \/ ScanSkip(m)
               \/ ScanEnd \/ UNCHANGED vars
        PROVE  UNCHANGED Promise!vars
    BY <2>7 DEF Pick, ScanFits, ScanSkip, ScanEnd, vars, declVars, Promise!vars
  <2> QED
    BY <1>3, <2>1, <2>2, <2>3, <2>4, <2>5, <2>6, <2>7 DEF Next, AutoAllocate
<1> QED
  BY <1>1, <1>2, <1>3, AllocInvariant, PTL DEF Spec, RefinesRegionAlloc, Promise!Spec
=============================================================================
