-------------------------------- MODULE VSpace --------------------------------
(***************************************************************************)
(* The virtual address space of an Entity (a PD or a VM): maps put at an   *)
(* address by the metaprogram with add_map, and maps that create_automap   *)
(* finds an address for.                                                   *)
(*                                                                         *)
(* Addresses and sizes are in small pages: Map() rejects every address     *)
(* that is not a multiple of a small page, MemoryRegion() every such size. *)
(* No two maps of an entity start at one address (add_map refuses it), so  *)
(* that sorting them by address is a total order and the list is a set.    *)
(***************************************************************************)
EXTENDS Integers, FiniteSets

CONSTANTS
    LargePage,  \* arch.LargePage, in small pages
    Start,      \* Entity.map_start_vaddr
    Size,       \* sizes of memory regions
    Vaddr,      \* addresses the metaprogram gives to Map()
    MaxMaps     \* bound: maps of the entity

ASSUME LargePageAssumption == LargePage \in Nat \ {0}
ASSUME StartAssumption == Start \in Nat /\ Start % LargePage = 0
ASSUME SizeAssumption == Size \subseteq Nat \ {0}
ASSUME VaddrAssumption == Vaddr \subseteq Nat

VARIABLES
    maps,       \* Entity.maps
    last,       \* the last call: its map, whether it was an automap, and
                \* whether it was accepted
    onlyAuto    \* history: every map was put there by create_automap

vars == <<maps, last, onlyAuto>>

\* Map(mr, v, ...), with its mr.size.
Map(v, s) == [vaddr |-> v, size |-> s]

\* Wrong on purpose: the end of the first page.
EndOfPage(m) == m.vaddr + 1

\* end_vaddr and vaddr_in_map.
End(m) == m.vaddr + m.size
InMap(m, v) == v >= m.vaddr /\ v < End(m)

\* find_best_page_size, and PageSize.roundup_to_page.
PageOf(s) == IF s >= LargePage THEN LargePage ELSE 1
RoundUp(v, page) == ((v + page - 1) \div page) * page

\* Wrong on purpose: only the first address of the new map is checked.
AcceptsFirst(m) == \A n \in maps : ~InMap(n, m.vaddr)

\* What add_map checks of a new map against the present ones.
Accepts(m) == \A n \in maps : ~InMap(n, m.vaddr) /\ ~InMap(n, End(m))

Below(m) == {n \in maps : n.vaddr < m.vaddr}
Highest(ms) == CHOOSE m \in ms : \A n \in ms : n.vaddr <= m.vaddr
Lowest(ms) == CHOOSE m \in ms : \A n \in ms : m.vaddr <= n.vaddr

\* prev_guard_page_end when the loop of create_automap gets to map m, and the
\* maps at which it stops because the gap in front of them is wide enough.
GuardEnd(m, page) ==
    IF Below(m) = {} THEN Start ELSE End(Highest(Below(m))) + page

\* Wrong on purpose: leaves no room for the guard page after the new map.
StopsTight(s, page) == {m \in maps : GuardEnd(m, page) + s <= m.vaddr}

Stops(s, page) == {m \in maps : GuardEnd(m, page) + s + page < m.vaddr}

Gap(s, page) ==
    IF Stops(s, page) = {}
    THEN End(Highest(maps)) + page
    ELSE GuardEnd(Lowest(Stops(s, page)), page)

\* Wrong on purpose: never skips a page after the map below.
AutoVaddrTight(s) ==
    LET page == PageOf(s) IN
    IF maps = {} THEN Start ELSE RoundUp(Gap(s, page) - page, page)

\* Wrong on purpose: the end of the map below is not rounded to a page.
AutoVaddrUnrounded(s) ==
    LET page == PageOf(s) IN
    IF maps = {} \/ Gap(s, page) = Start THEN Start ELSE Gap(s, page) + page

\* The address create_automap picks for a region of size s.
AutoVaddr(s) ==
    LET page == PageOf(s)
        gap  == RoundUp(Gap(s, page), page)
    IN  IF maps = {} \/ gap = Start THEN Start ELSE RoundUp(gap + page, page)

-----------------------------------------------------------------------------
Init ==
    /\ maps = {}
    /\ last = [map |-> Map(Start, 0), auto |-> FALSE, ok |-> TRUE]
    /\ onlyAuto = TRUE

\* add_map: the map goes in, or the call raises and nothing changes.
Try(m, auto) ==
    /\ Cardinality(maps) < MaxMaps
    /\ maps' = IF Accepts(m) THEN maps \cup {m} ELSE maps
    /\ last' = [map |-> m, auto |-> auto, ok |-> Accepts(m)]
    /\ onlyAuto' = (onlyAuto /\ (auto \/ ~Accepts(m)))

AddMap(v, s) == Try(Map(v, s), FALSE)

\* create_automap
CreateAutomap(s) == Try(Map(AutoVaddr(s), s), TRUE)

Next ==
    \/ \E v \in Vaddr, s \in Size : AddMap(v, s)
    \/ \E s \in Size : CreateAutomap(s)

Spec == Init /\ [][Next]_vars

-----------------------------------------------------------------------------
(* Properties.                                                             *)

\* What maps are, apart from how the code computes it.
Pages(m) == m.vaddr .. m.vaddr + m.size - 1
Overlap(m, n) == m.vaddr < n.vaddr + n.size /\ n.vaddr < m.vaddr + m.size

Disjoint(ms) == \A m, n \in ms : m # n => ~Overlap(m, n)

\* Where create_automap keeps what it is written for: all maps are automatic,
\* or the new one is of small pages, which rounding does not move.  An automap of
\* a large region beside manual maps is outside: the gap is measured before the
\* address is rounded (pd.py:129-139), so that the map may reach around another
\* one, an automap too, or be refused.
Regular == onlyAuto \/ PageOf(last.map.size) = 1

\* Two maps overlap only if one lies inside the other: add_map catches every
\* overlap at an end, in whatever order the maps come (pd.py:84-94).
NoPartialOverlap ==
    \A m, n \in maps :
        m # n /\ Overlap(m, n) =>
            Pages(m) \subseteq Pages(n) \/ Pages(n) \subseteq Pages(m)

\* While all maps are automatic none overlaps another, for all mixtures of page
\* sizes; and an automap of small pages overlaps nothing that is there, wherever
\* the metaprogram has put its own maps, below the start address and around
\* each other too (pd.py:117-139).  Nothing is said of an automap of a large
\* region beside manual maps, which may overlap another map, although pd.py:102-103
\* promises "a vaddr that doesn't overlap with any existing maps".
AutomapsDisjoint ==
    /\ onlyAuto => Disjoint(maps)
    /\ last.auto /\ last.ok /\ PageOf(last.map.size) = 1 =>
         \A n \in maps \ {last.map} : ~Overlap(n, last.map)

\* A map that create_automap adds to disjoint maps has a free small page on
\* either side (pd.py:119-121), if all maps are automatic or the new one is of
\* small pages.
GuardPages ==
    LET others == maps \ {last.map} IN
    Regular /\ last.auto /\ last.ok /\ Disjoint(others) =>
        \A n \in others : n.vaddr > End(last.map) \/ End(n) < last.map.vaddr

\* create_automap puts a map on a boundary of the largest page that fits in it,
\* so that the map can use such pages (pd.py:103-104).
AutomapAligned ==
    last.auto => last.map.vaddr % PageOf(last.map.size) = 0

\* Among disjoint maps create_automap never raises, if all are automatic or the
\* region is of small pages.  An automap of a large region beside manual maps may
\* be refused, so that this is less than "automatic allocation always succeeds"
\* (system.py:38-39).
AutomapSucceeds == Regular /\ Disjoint(maps) /\ last.auto => last.ok

\* No map overlaps another.  pd.py:124, "INVARIANT: no maps overlap. This is
\* enforced in Entity.add_map."
NoOverlap == Disjoint(maps)
=============================================================================
