------------------------------ MODULE PaddrAlloc ------------------------------
(***************************************************************************)
(* System.auto_allocate: how a terminal action gives a physical address to *)
(* every physical memory region that was declared without one, together    *)
(* with the MemoryRegion constructor that feeds it.                        *)
(*                                                                         *)
(* The loop is modelled step by step: one action for popping a region from *)
(* to_alloc, one for each way an iteration of the scan over used_range can *)
(* end, and one for each way the placement can end.  A failed terminal     *)
(* action leaves the System unfinished with the regions it had placed so   *)
(* far, and the caller may declare more regions and try again.             *)
(*                                                                         *)
(* Names of regions are naturals: all the code does with a name is sort.   *)
(* Addresses are in units of which Page make a page; addresses that are    *)
(* not page aligned are there because no constructor rejects them.         *)
(***************************************************************************)
EXTENDS Integers, FiniteSets

CONSTANTS
    Region,     \* names of the memory regions a metaprogram may declare
    Page,       \* Arch.default_page_size_bytes()
    LargePage,  \* arch.LargePage
    PaddrTop,   \* System.paddr_top
    Size,       \* sizes given to MemoryRegion()
    Addr        \* physical addresses given to MemoryRegion()

ASSUME RegionAssumption == Region \subseteq Nat
ASSUME PageAssumption == Page \in Nat \ {0} /\ LargePage \in Nat \ {0}
ASSUME LargePageAssumption == LargePage % Page = 0
ASSUME TopAssumption == PaddrTop \in Nat /\ PaddrTop % Page = 0
\* memory.py:50-53 rejects every other size.
ASSUME SizeAssumption == Size \subseteq {s \in Nat \ {0} : s % Page = 0}
ASSUME AddrAssumption == Addr \subseteq Nat

Unassigned == -1    \* paddr is None

VARIABLES
    mrs,        \* System.mrs, the declared regions
    size,       \* MemoryRegion.size, 0 before it is declared
    physical,   \* the regions with MemoryRegion.physical
    paddr,      \* MemoryRegion.paddr, or Unassigned
    outcome,    \* how the last terminal action ended: "final" is state FINAL
    sound,      \* history: every address the metaprogram gave was page
                \* aligned and clear of the addresses assigned before
    phase,      \* where auto_allocate is; "idle" when it is not running
    mr,         \* the region being placed
    rest,       \* the part of used_range the scan has not visited
    prev,       \* prev_page_start
    next        \* next_paddr

declVars == <<mrs, size, physical, sound>>
scanVars == <<mr, rest, prev, next>>
vars == <<mrs, size, physical, sound, paddr, outcome, phase, mr, rest, prev, next>>

-----------------------------------------------------------------------------
(* Arithmetic of page sizes (arch.py).                                     *)

Aligned(n) == n % Page = 0
RoundDown(n) == n - (n % Page)
RoundUpLarge(n) == ((n + LargePage - 1) \div LargePage) * LargePage

\* MemoryRegion.__init__: regions of a large page or more are rounded up to
\* large pages unless their address rules a large page mapping out.
RegionSize(s, a) ==
    IF s >= LargePage /\ (a = Unassigned \/ a % LargePage = 0)
    THEN RoundUpLarge(s)
    ELSE s

\* A region may only be put where no assigned region has a byte.
Disjoint(a, s, b, t) == a + s <= b \/ b + t <= a

Assigned == {r \in mrs : paddr[r] # Unassigned}
DisjointLayout ==
    \A q, r \in Assigned : q # r => Disjoint(paddr[q], size[q], paddr[r], size[r])
Pending == {r \in physical : paddr[r] = Unassigned}

\* physical_mrs with an address.  The list is made once per call, but no
\* region is declared while auto_allocate runs.
UsedRange == {r \in physical : paddr[r] # Unassigned /\ paddr[r] < PaddrTop}

-----------------------------------------------------------------------------
Init ==
    /\ mrs = {}
    /\ size = [r \in Region |-> 0]
    /\ physical = {}
    /\ paddr = [r \in Region |-> Unassigned]
    /\ outcome = ""
    /\ sound = TRUE
    /\ phase = "idle"
    /\ mr \in Region
    /\ rest = {}
    /\ prev = 0
    /\ next = 0

\* MemoryRegion(sdf, r, s, a, physical = p); refused once the System is FINAL.
\* The address is neither aligned nor compared with other regions.
MemoryRegion(r, s, a, p) ==
    /\ phase = "idle"
    /\ outcome # "final"
    /\ r \notin mrs
    /\ LET sz == RegionSize(s, a) IN
       /\ mrs' = mrs \cup {r}
       /\ size' = [size EXCEPT ![r] = sz]
       /\ physical' = IF a # Unassigned \/ p THEN physical \cup {r} ELSE physical
       /\ paddr' = [paddr EXCEPT ![r] = a]
       /\ sound' = (sound /\ (a # Unassigned =>
                        /\ Aligned(a)
                        /\ Aligned(a + sz)
                        /\ \A q \in Assigned : Disjoint(a, sz, paddr[q], size[q])))
    /\ UNCHANGED <<outcome, phase, scanVars>>

\* A terminal action on a System that is not FINAL reaches auto_allocate.
Assemble ==
    /\ phase = "idle"
    /\ outcome # "final"
    /\ phase' = "pick"
    /\ outcome' = ""
    /\ UNCHANGED <<declVars, paddr, scanVars>>

\* to_alloc.pop(): the pending region whose name sorts first.  used_range is
\* sorted again, and the scan starts at paddr_top.
Pick(r) ==
    /\ phase = "pick"
    /\ r \in Pending
    /\ \A q \in Pending : r <= q
    /\ mr' = r
    /\ rest' = UsedRange
    /\ prev' = PaddrTop
    /\ phase' = "scan"
    /\ UNCHANGED <<declVars, paddr, outcome, next>>

\* Wrong on purpose: used_range sorted without reverse=True.
VisitAscending(m) == m \in rest /\ \A q \in rest : paddr[q] >= paddr[m]

\* The scan visits used_range from the highest address down; the order of two
\* regions at one address is the iteration order of a Python set.
Visit(m) == m \in rest /\ \A q \in rest : paddr[q] <= paddr[m]

RegionEnd(m) == paddr[m] + size[m]

\* assert this_page_end <= prev_page_start
ScanAssert(m) ==
    /\ phase = "scan"
    /\ Visit(m)
    /\ RegionEnd(m) > prev
    /\ phase' = "idle"
    /\ outcome' = "assertion"
    /\ UNCHANGED <<declVars, paddr, scanVars>>

\* Wrong on purpose: the gap is compared off by one page.
FitsOffByOne(m) == prev >= RoundDown(RegionEnd(m)) + size[mr] - Page

\* The block below prev_page_start is large enough: leave the loop.
Fits(m) == prev >= RoundDown(RegionEnd(m)) + size[mr]

ScanFits(m) ==
    /\ phase = "scan"
    /\ Visit(m)
    /\ RegionEnd(m) <= prev
    /\ Fits(m)
    /\ next' = prev - size[mr]
    /\ phase' = "place"
    /\ UNCHANGED <<declVars, paddr, outcome, mr, rest, prev>>

\* Wrong on purpose: the scan does not move past a region that leaves no room.
ScanSkipStays(m) ==
    /\ phase = "scan"
    /\ Visit(m)
    /\ RegionEnd(m) <= prev
    /\ ~Fits(m)
    /\ UNCHANGED vars

\* The block is too small: go on below this region.
ScanSkip(m) ==
    /\ phase = "scan"
    /\ Visit(m)
    /\ RegionEnd(m) <= prev
    /\ ~Fits(m)
    /\ prev' = paddr[m]
    /\ rest' = rest \ {m}
    /\ UNCHANGED <<declVars, paddr, outcome, phase, mr, next>>

\* Wrong on purpose: falls back to the top instead of the last region's start.
ScanEndFromTop ==
    /\ phase = "scan"
    /\ rest = {}
    /\ next' = PaddrTop - size[mr]
    /\ phase' = "place"
    /\ UNCHANGED <<declVars, paddr, outcome, mr, rest, prev>>

\* No gap, or no used region at all: go below the last region visited.  An
\* unaligned address gets the code's correction, which leaves it unaligned.
ScanEnd ==
    /\ phase = "scan"
    /\ rest = {}
    /\ LET n == prev - size[mr] IN
       next' = IF Aligned(n) THEN n ELSE n + RoundDown(n)
    /\ phase' = "place"
    /\ UNCHANGED <<declVars, paddr, outcome, mr, rest, prev>>

\* assert next_paddr & ~(page_size - 1) == next_paddr
PlaceAssert ==
    /\ phase = "place"
    /\ ~Aligned(next)
    /\ phase' = "idle"
    /\ outcome' = "assertion"
    /\ UNCHANGED <<declVars, paddr, scanVars>>

\* RuntimeError: the System has run out of physical memory.
PlaceNoMemory ==
    /\ phase = "place"
    /\ Aligned(next)
    /\ next < 0
    /\ phase' = "idle"
    /\ outcome' = "no_memory"
    /\ UNCHANGED <<declVars, paddr, scanVars>>

\* mr._set_paddr(next_paddr), and back to the head of the loop.
Place ==
    /\ phase = "place"
    /\ Aligned(next)
    /\ next >= 0
    /\ paddr' = [paddr EXCEPT ![mr] = next]
    /\ phase' = "pick"
    /\ UNCHANGED <<declVars, outcome, scanVars>>

\* to_alloc is empty: assemble() sets the state to FINAL.
Finish ==
    /\ phase = "pick"
    /\ Pending = {}
    /\ phase' = "idle"
    /\ outcome' = "final"
    /\ UNCHANGED <<declVars, paddr, scanVars>>

AutoAllocate ==
    \/ \E r \in Region : Pick(r)
    \/ \E m \in Region : ScanAssert(m) \/ ScanFits(m) \/ ScanSkip(m)
    \/ ScanEnd
    \/ PlaceAssert
    \/ PlaceNoMemory
    \/ Place
    \/ Finish

Next ==
    \/ \E r \in Region, s \in Size, a \in Addr \cup {Unassigned}, p \in BOOLEAN :
           MemoryRegion(r, s, a, p)
    \/ Assemble
    \/ AutoAllocate

Spec == Init /\ [][Next]_vars

\* auto_allocate is a synchronous call: once entered it keeps running.
FairSpec == Spec /\ WF_vars(AutoAllocate)

-----------------------------------------------------------------------------
(* Invariants.                                                             *)

TypeOK ==
    /\ mrs \subseteq Region
    /\ physical \subseteq mrs
    /\ size \in [Region -> Nat]
    /\ \A r \in mrs : size[r] > 0 /\ Aligned(size[r])
    /\ paddr \in [Region -> Nat \cup {Unassigned}]
    /\ \A r \in Region \ physical : paddr[r] = Unassigned
    /\ outcome \in {"", "final", "no_memory", "assertion"}
    /\ sound \in BOOLEAN
    /\ phase \in {"idle", "pick", "scan", "place"}
    /\ mr \in Region
    /\ rest \subseteq Region
    /\ prev \in Nat
    /\ next \in Int

\* No two regions share a byte of physical memory, whichever of them the
\* metaprogram placed and whichever auto_allocate did, over any number of
\* failed terminal actions and new declarations (system.py:150-234).
NoOverlap == sound => DisjointLayout

\* Regions on page boundaries, which NoOverlap needs.
AllAligned ==
    sound => \A r \in Assigned : Aligned(paddr[r]) /\ Aligned(paddr[r] + size[r])

\* What holds between two iterations of the scan: every visited region starts
\* at prev or above, and every region still to visit starts below them.
ScanInv ==
    phase = "scan" =>
        /\ mr \in Pending
        /\ prev <= PaddrTop
        /\ rest \subseteq UsedRange
        /\ sound => /\ Aligned(prev)
                    /\ \A q \in UsedRange \ rest : prev <= paddr[q]

\* The address about to be assigned is a free block under paddr_top.
PlaceInv ==
    phase = "place" =>
        /\ mr \in Pending
        /\ sound => /\ next + size[mr] <= PaddrTop
                    /\ Aligned(next)
                    /\ Aligned(next + size[mr])
                    /\ \A q \in Assigned :
                           Disjoint(next, size[mr], paddr[q], size[q])

AllocInv == TypeOK /\ NoOverlap /\ AllAligned /\ ScanInv /\ PlaceInv

-----------------------------------------------------------------------------
(* Properties of steps and behaviours.                                     *)

\* auto_allocate keeps what RegionAlloc promises: the highest free block for
\* each region, "no memory" only when there is none, and an assertion only for
\* a region that lies across paddr_top.
Promise ==
    INSTANCE RegionAlloc
        WITH Size <- {RegionSize(s, a) : s \in Size, a \in Addr \cup {Unassigned}}

RefinesRegionAlloc == Promise!Spec

\* A terminal action that enters auto_allocate leaves it (system.py:176-234).
AllocationEnds == (phase = "pick") ~> (phase = "idle")
=============================================================================
