----------------------------- MODULE RegionAlloc -----------------------------
(***************************************************************************)
(* What physical address allocation promises, without saying how.          *)
(*                                                                         *)
(* A metaprogram declares memory regions, some at a physical address of    *)
(* its own choice.  A terminal action then gives every physical region     *)
(* that has none the highest free page-aligned block under paddr_top, one  *)
(* region at a time, or reports that memory ran out when there is no such  *)
(* block.  Nothing is promised once the metaprogram itself has put regions *)
(* on top of each other or off a page boundary: sound is FALSE from then   *)
(* on.  PaddrAlloc is the loop of System.auto_allocate that implements     *)
(* this promise.                                                           *)
(***************************************************************************)
EXTENDS Integers, FiniteSets

CONSTANTS
    Region,     \* names of the memory regions
    Page,       \* Arch.default_page_size_bytes()
    PaddrTop,   \* System.paddr_top
    Size,       \* sizes a region can have
    Addr        \* addresses a metaprogram can give

Unassigned == -1    \* paddr is None

VARIABLES
    mrs,        \* System.mrs, the declared regions
    size,       \* size of each region, 0 before it is declared
    physical,   \* the declared regions that are physical
    paddr,      \* their physical addresses, or Unassigned
    outcome,    \* how the last terminal action ended, "" before and during it
    sound       \* every address the metaprogram gave was usable

vars == <<mrs, size, physical, paddr, outcome, sound>>

Assigned == {r \in mrs : paddr[r] # Unassigned}

\* The blocks [a, a + s) and [b, b + t) have no byte in common.
Disjoint(a, s, b, t) == a + s <= b \/ b + t <= a

\* The block [a, a + s) is page aligned and disjoint from every assigned region.
Free(a, s) ==
    /\ a % Page = 0
    /\ \A r \in Assigned : Disjoint(a, s, paddr[r], size[r])

Fits(a, s) == a >= 0 /\ a + s <= PaddrTop /\ Free(a, s)

\* The regions a terminal action has still to place.
Pending == {r \in physical : paddr[r] = Unassigned}

Init ==
    /\ mrs = {}
    /\ size = [r \in Region |-> 0]
    /\ physical = {}
    /\ paddr = [r \in Region |-> Unassigned]
    /\ outcome = ""
    /\ sound = TRUE

\* A region enters the system, at the address a or at none.
Declare(r, s, a, p) ==
    /\ r \notin mrs
    /\ outcome # "final"
    /\ mrs' = mrs \cup {r}
    /\ size' = [size EXCEPT ![r] = s]
    /\ physical' = IF p THEN physical \cup {r} ELSE physical
    /\ paddr' = [paddr EXCEPT ![r] = a]
    /\ sound' = (sound /\ (a # Unassigned => (a + s) % Page = 0 /\ Free(a, s)))
    /\ UNCHANGED outcome

\* The caller starts over after a terminal action that failed.
Restart ==
    /\ outcome \in {"no_memory", "assertion"}
    /\ outcome' = ""
    /\ UNCHANGED <<mrs, size, physical, paddr, sound>>

\* A pending region gets the highest block it fits in.
Place(r, a) ==
    /\ outcome = ""
    /\ r \in Pending
    /\ sound => /\ Fits(a, size[r])
                /\ \A b \in a+1 .. PaddrTop : ~Fits(b, size[r])
    /\ paddr' = [paddr EXCEPT ![r] = a]
    /\ UNCHANGED <<mrs, size, physical, outcome, sound>>

\* A pending region fits nowhere.
NoMemory(r) ==
    /\ outcome = ""
    /\ r \in Pending
    /\ sound => \A b \in 0 .. PaddrTop : ~Fits(b, size[r])
    /\ outcome' = "no_memory"
    /\ UNCHANGED <<mrs, size, physical, paddr, sound>>

\* An assertion may fail only on a layout the metaprogram broke, or on one
\* with a region that lies across paddr_top.
AssertionFails ==
    /\ outcome = ""
    /\ sound => \E r \in physical :
                    /\ 0 <= paddr[r]
                    /\ paddr[r] < PaddrTop
                    /\ paddr[r] + size[r] > PaddrTop
    /\ outcome' = "assertion"
    /\ UNCHANGED <<mrs, size, physical, paddr, sound>>

\* Every physical region has an address: the system is final.
Finish ==
    /\ outcome = ""
    /\ Pending = {}
    /\ outcome' = "final"
    /\ UNCHANGED <<mrs, size, physical, paddr, sound>>

Next ==
    \/ \E r \in Region, s \in Size, a \in Addr \cup {Unassigned}, p \in BOOLEAN :
           Declare(r, s, a, p)
    \/ Restart
    \/ \E r \in Region, a \in 0 .. PaddrTop : Place(r, a)
    \/ \E r \in Region : NoMemory(r)
    \/ AssertionFails
    \/ Finish

Spec == Init /\ [][Next]_vars
=============================================================================
