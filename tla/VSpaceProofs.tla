----------------------------- MODULE VSpaceProofs -----------------------------
(***************************************************************************)
(* Proofs about VSpace for every size of a large page, any sizes of        *)
(* regions and any number of maps: what add_map excludes, where automaps   *)
(* are put, and that they are never refused where the address space is     *)
(* theirs.                                                                 *)
(***************************************************************************)
EXTENDS VSpace, Arithmetic, TLAPS

\* The maps are records of numbers, below some address.
IsMap(m) == m = Map(m.vaddr, m.size) /\ m.vaddr \in Nat /\ m.size \in Size

SpaceInv ==
    /\ last.auto \in BOOLEAN /\ last.ok \in BOOLEAN /\ onlyAuto \in BOOLEAN
    /\ \A m \in maps : IsMap(m)
    /\ \E b \in Nat : \A m \in maps : m.vaddr <= b

LEMMA SizesPositive == \A s \in Size : s \in Nat /\ s >= 1
BY SizeAssumption

LEMMA PageIsPositive == \A s \in Size : PageOf(s) \in Nat \ {0} /\ PageOf(s) <= LargePage
BY LargePageAssumption DEF PageOf

LEMMA StartOnPage == ASSUME NEW s \in Size PROVE Start \in Nat /\ Start % PageOf(s) = 0
<1>1. CASE s >= LargePage
  BY <1>1, StartAssumption DEF PageOf
<1>2. CASE ~(s >= LargePage)
  BY <1>2, StartAssumption DEF PageOf
<1> QED BY <1>1, <1>2

\* PageSize.roundup_to_page: the next multiple of the page.
LEMMA RoundUpIs ==
    ASSUME NEW v \in Nat, NEW page \in Nat \ {0}
    PROVE  /\ RoundUp(v, page) \in Nat /\ RoundUp(v, page) % page = 0
           /\ v <= RoundUp(v, page) /\ RoundUp(v, page) < v + page
           /\ page = 1 => RoundUp(v, page) = v
<1> DEFINE y == ((v + page - 1) \div page) * page
<1>1. RoundUp(v, page) = y
  BY DEF RoundUp
<1>2. y \in Int /\ y % page = 0 /\ v <= y /\ y < v + page
  BY RoundedUp, v \in Int
<1> HIDE DEF y
<1> QED BY <1>1, <1>2

\* A multiple of the page stays where it is.
LEMMA RoundUpSame ==
    ASSUME NEW v \in Nat, NEW page \in Nat \ {0}, v % page = 0
    PROVE  RoundUp(v, page) = v
<1>1. /\ RoundUp(v, page) \in Nat /\ RoundUp(v, page) % page = 0
      /\ v <= RoundUp(v, page) /\ RoundUp(v, page) < v + page
  BY RoundUpIs
<1>2. v < RoundUp(v, page) => v + page <= RoundUp(v, page)
  BY <1>1, MultiplesApart
<1> QED BY <1>1, <1>2

-----------------------------------------------------------------------------
\* The first and the last of some maps.
LEMMA HighestIs ==
    ASSUME SpaceInv, NEW ms, ms \subseteq maps, ms # {}
    PROVE  Highest(ms) \in ms /\ \A n \in ms : n.vaddr <= Highest(ms).vaddr
<1> DEFINE S == {m.vaddr : m \in ms}
<1>1. PICK b \in Nat : \A m \in maps : m.vaddr <= b
  BY DEF SpaceInv
<1>2. S \subseteq Nat /\ S # {} /\ \A x \in S : x <= b
  BY <1>1 DEF SpaceInv, IsMap
<1>3. PICK x \in S : \A y \in S : y <= x
  BY <1>2, GreatestNat
<1>4. \E m \in ms : \A n \in ms : n.vaddr <= m.vaddr
  BY <1>3
<1> QED BY <1>4 DEF Highest

LEMMA LowestIs ==
    ASSUME SpaceInv, NEW ms, ms \subseteq maps, ms # {}
    PROVE  Lowest(ms) \in ms /\ \A n \in ms : Lowest(ms).vaddr <= n.vaddr
<1> DEFINE S == {m.vaddr : m \in ms}
<1>1. S \subseteq Nat /\ S # {}
  BY DEF SpaceInv, IsMap
<1>2. PICK x \in S : \A y \in S : x <= y
  BY <1>1, LeastNat
<1>3. \E m \in ms : \A n \in ms : m.vaddr <= n.vaddr
  BY <1>2
<1> QED BY <1>3 DEF Lowest

\* The highest of disjoint maps ends last.
LEMMA HighestEndsLast ==
    ASSUME SpaceInv, Disjoint(maps), NEW ms, ms \subseteq maps, ms # {}
    PROVE  /\ Highest(ms) \in maps
           /\ End(Highest(ms)) \in Nat
           /\ \A n \in ms : End(n) <= End(Highest(ms))
<1> DEFINE h == Highest(ms)
<1>1. h \in ms /\ \A n \in ms : n.vaddr <= h.vaddr
  BY HighestIs
<1>2. \A n \in ms : n.vaddr \in Nat /\ n.size \in Nat /\ n.size >= 1
  BY SizesPositive DEF SpaceInv, IsMap
<1> HIDE DEF h
<1>3. ASSUME NEW n \in ms PROVE End(n) <= End(h)
  <2>1. n = h \/ ~Overlap(n, h)
    BY <1>1 DEF Disjoint
  <2> QED BY <1>1, <1>2, <2>1 DEF Overlap, End
<1>4. h \in maps /\ End(h) \in Nat
  BY <1>1, <1>2 DEF End
<1> QED BY <1>3, <1>4 DEF h

\* Where the gap ends that is free for the map before m.
LEMMA GuardEndIs ==
    ASSUME SpaceInv, Disjoint(maps), NEW m \in maps, NEW page \in Nat \ {0}
    PROVE  /\ GuardEnd(m, page) \in Nat
           /\ Below(m) = {} => GuardEnd(m, page) = Start
           /\ \A n \in maps : n.vaddr < m.vaddr => End(n) + page <= GuardEnd(m, page)
<1>1. CASE Below(m) = {}
  BY <1>1, StartAssumption DEF GuardEnd, Below
<1>2. CASE Below(m) # {}
  <2> DEFINE e == End(Highest(Below(m)))
  <2>1. Below(m) \subseteq maps
    BY DEF Below
  <2>2. e \in Nat /\ \A n \in Below(m) : End(n) <= e
    BY <1>2, <2>1, HighestEndsLast
  <2>3. GuardEnd(m, page) = e + page
    BY <1>2 DEF GuardEnd
  <2>4. \A n \in maps : End(n) \in Nat
    BY SizesPositive DEF SpaceInv, IsMap, End
  <2> HIDE DEF e
  <2> QED BY <1>2, <2>2, <2>3, <2>4 DEF Below
<1> QED BY <1>1, <1>2

-----------------------------------------------------------------------------
\* The gap that create_automap takes is a number.
LEMMA GapIsNat ==
    ASSUME SpaceInv, maps # {}, NEW s \in Size
    PROVE  Gap(s, PageOf(s)) \in Nat
<1> DEFINE page == PageOf(s)
<1>1. page \in Nat
  BY PageIsPositive
<1>2. \A n \in maps : End(n) \in Nat
  BY SizesPositive DEF SpaceInv, IsMap, End
<1>3. ASSUME NEW m \in maps PROVE GuardEnd(m, page) \in Nat
  <2>1. Below(m) # {} => Highest(Below(m)) \in maps
    BY HighestIs, Below(m) \subseteq maps DEF Below
  <2> HIDE DEF page
  <2> QED BY <1>1, <1>2, <2>1, StartAssumption DEF GuardEnd
<1>4. Highest(maps) \in maps
  BY HighestIs
<1>5. Stops(s, page) # {} => Lowest(Stops(s, page)) \in maps
  BY LowestIs, Stops(s, page) \subseteq maps DEF Stops
<1> HIDE DEF page
<1>6. Gap(s, page) \in Nat
  BY <1>1, <1>2, <1>3, <1>4, <1>5 DEF Gap
<1> QED BY <1>6 DEF page

\* Where create_automap puts a region: on the page boundary at the gap, or one
\* page behind it.
LEMMA AutoVaddrIs ==
    ASSUME SpaceInv, NEW s \in Size
    PROVE  /\ AutoVaddr(s) \in Nat /\ AutoVaddr(s) % PageOf(s) = 0
           /\ maps = {} => AutoVaddr(s) = Start
           /\ maps # {} =>
                LET gap == RoundUp(Gap(s, PageOf(s)), PageOf(s))
                IN  AutoVaddr(s) = IF gap = Start THEN Start ELSE gap + PageOf(s)
<1> DEFINE page == PageOf(s)
           gap == RoundUp(Gap(s, page), page)
<1>1. page \in Nat \ {0} /\ Start \in Nat /\ Start % page = 0
  BY PageIsPositive, StartOnPage
<1>2. CASE maps = {}
  BY <1>1, <1>2 DEF AutoVaddr
<1>3. CASE maps # {}
  <2>1. AutoVaddr(s) = IF gap = Start THEN Start ELSE RoundUp(gap + page, page)
    BY <1>3 DEF AutoVaddr
  <2>2. Gap(s, page) \in Nat
    BY <1>3, GapIsNat
  <2>3. gap \in Nat /\ gap % page = 0
    BY <1>1, <2>2, RoundUpIs
  <2>4. AutoVaddr(s) = IF gap = Start THEN Start ELSE gap + page
    <3> HIDE DEF gap, page
    <3>1. page \in Int /\ gap \in Int /\ page = page * 1
      BY <1>1, <2>3
    <3>2. page % page = 0
      BY <1>1, <3>1, MultipleAligned
    <3>3. (gap + page) % page = 0
      BY <1>1, <2>3, <3>1, <3>2, AlignedSum
    <3>4. gap + page \in Nat
      BY <1>1, <2>3
    <3>5. RoundUp(gap + page, page) = gap + page /\ (gap + page) % page = 0
      BY <1>1, <3>3, <3>4, RoundUpSame
    <3> QED BY <2>1, <3>5
  <2>5. AutoVaddr(s) \in Nat /\ AutoVaddr(s) % page = 0
    <3> HIDE DEF gap, page
    <3>1. page \in Int /\ gap \in Int /\ page = page * 1
      BY <1>1, <2>3
    <3>2. page % page = 0
      BY <1>1, <3>1, MultipleAligned
    <3>3. (gap + page) % page = 0
      BY <1>1, <2>3, <3>1, <3>2, AlignedSum
    <3> QED BY <1>1, <2>3, <2>4, <3>3
  <2> QED BY <1>3, <2>4, <2>5
<1> QED BY <1>2, <1>3

\* A map of small pages, or one that goes behind all others, has a free page on
\* either side.
LEMMA FreeGap ==
    ASSUME SpaceInv, Disjoint(maps), NEW s \in Size,
           PageOf(s) = 1 \/ Stops(s, PageOf(s)) = {}
    PROVE  \A n \in maps : n.vaddr > AutoVaddr(s) + s \/ End(n) < AutoVaddr(s)
<1> SUFFICES ASSUME maps # {}
             PROVE  \A n \in maps : n.vaddr > AutoVaddr(s) + s \/ End(n) < AutoVaddr(s)
  OBVIOUS
<1> DEFINE page == PageOf(s)
           g == Gap(s, page)
           gap == RoundUp(g, page)
           v == AutoVaddr(s)
<1>1. page \in Nat \ {0} /\ s \in Nat
  BY PageIsPositive, SizesPositive
<1>2. g \in Nat
  BY GapIsNat
<1>3. gap \in Nat /\ g <= gap /\ (page = 1 => gap = g)
  BY <1>1, <1>2, RoundUpIs
<1>4. v \in Nat /\ v = IF gap = Start THEN Start ELSE gap + page
  BY AutoVaddrIs
<1>5. \A n \in maps : End(n) \in Nat /\ n.vaddr \in Nat
  BY SizesPositive DEF SpaceInv, IsMap, End
<1>6. CASE Stops(s, page) = {}
  <2>1. g = End(Highest(maps)) + page
    BY <1>6 DEF Gap
  <2>2. End(Highest(maps)) \in Nat /\ \A n \in maps : End(n) <= End(Highest(maps))
    BY HighestEndsLast
  <2> HIDE DEF page, g, gap, v
  <2>3. \A n \in maps : End(n) < v
    BY <1>1, <1>2, <1>3, <1>4, <1>5, <2>1, <2>2
  <2> QED BY <2>3 DEF v
<1>7. CASE Stops(s, page) # {} /\ page = 1
  <2> DEFINE m == Lowest(Stops(s, page))
  <2>1. m \in Stops(s, page)
    BY <1>7, LowestIs, Stops(s, page) \subseteq maps DEF Stops
  <2>2. m \in maps /\ g = GuardEnd(m, page) /\ g + s + page < m.vaddr
    BY <1>7, <2>1 DEF Stops, Gap
  <2>3. \A n \in maps : n.vaddr < m.vaddr => End(n) + page <= g
    BY <1>1, <2>2, GuardEndIs
  <2> HIDE DEF page, g, gap, v, m
  <2>4. \A n \in maps : n.vaddr > v + s \/ End(n) < v
    BY <1>1, <1>2, <1>3, <1>4, <1>5, <1>7, <2>2, <2>3
  <2> QED BY <2>4 DEF v
<1> QED BY <1>6, <1>7

-----------------------------------------------------------------------------
\* Automaps alone lie above the start address, disjoint, and so close together
\* that a region of large pages fits between no two of them.
Packed ==
    \A m \in maps :
        /\ m.vaddr >= Start
        /\ m.vaddr > Start =>
             \E n \in maps : n.vaddr < m.vaddr /\ m.vaddr < End(n) + 3 * LargePage

SpaceIsAuto == onlyAuto => Disjoint(maps) /\ Packed

VSpaceInv == SpaceInv /\ SpaceIsAuto

\* No gap between automaps is wide enough for a region of large pages.
LEMMA NoWideGap ==
    ASSUME SpaceInv, Disjoint(maps), Packed, NEW s \in Size, PageOf(s) # 1
    PROVE  Stops(s, PageOf(s)) = {}
<1> DEFINE page == PageOf(s)
<1>1. page = LargePage /\ s >= LargePage /\ s \in Nat /\ page \in Nat \ {0}
  BY PageIsPositive, SizesPositive DEF PageOf
<1> HIDE DEF page
<1>2. ASSUME NEW m \in maps, GuardEnd(m, page) + s + page < m.vaddr
      PROVE  FALSE
  <2>1. /\ GuardEnd(m, page) \in Nat
        /\ Below(m) = {} => GuardEnd(m, page) = Start
        /\ \A n \in maps : n.vaddr < m.vaddr => End(n) + page <= GuardEnd(m, page)
    BY <1>1, GuardEndIs
  <2>2. m.vaddr \in Nat /\ \A n \in maps : End(n) \in Nat
    BY SizesPositive DEF SpaceInv, IsMap, End
  <2>3. CASE m.vaddr > Start
    <3>1. PICK n \in maps : n.vaddr < m.vaddr /\ m.vaddr < End(n) + 3 * LargePage
      BY <2>3 DEF Packed
    <3>2. End(n) + page <= GuardEnd(m, page) /\ End(n) \in Nat
      BY <2>1, <2>2, <3>1
    <3> QED BY <1>1, <1>2, <2>1, <2>2, <3>1, <3>2
  <2>4. CASE ~(m.vaddr > Start)
    <3>1. Below(m) = {}
      BY <2>2, <2>4, StartAssumption DEF Packed, Below, SpaceInv, IsMap
    <3> QED BY <1>1, <1>2, <2>1, <2>2, <2>4, <3>1, StartAssumption
  <2> QED BY <2>3, <2>4
<1> QED BY <1>2 DEF Stops, page

\* A region has a free page on either side wherever automaps rule.
LEMMA AutomapFits ==
    ASSUME VSpaceInv, Disjoint(maps), NEW s \in Size, onlyAuto \/ PageOf(s) = 1
    PROVE  \A n \in maps : n.vaddr > AutoVaddr(s) + s \/ End(n) < AutoVaddr(s)
<1>1. PageOf(s) = 1 \/ Stops(s, PageOf(s)) = {}
  BY NoWideGap DEF VSpaceInv, SpaceIsAuto
<1> QED BY <1>1, FreeGap DEF VSpaceInv

\* Automaps stay close together.
LEMMA AutoVaddrPacked ==
    ASSUME SpaceInv, Disjoint(maps), Packed, NEW s \in Size
    PROVE  /\ AutoVaddr(s) >= Start
           /\ AutoVaddr(s) > Start =>
                \E n \in maps : /\ n.vaddr < AutoVaddr(s)
                                /\ AutoVaddr(s) < End(n) + 3 * LargePage
<1>1. CASE maps = {}
  BY <1>1, AutoVaddrIs, StartAssumption
<1>2. CASE maps # {}
  <2> DEFINE page == PageOf(s)
             g == Gap(s, page)
             gap == RoundUp(g, page)
             v == AutoVaddr(s)
  <2>1. page \in Nat \ {0} /\ page <= LargePage /\ LargePage \in Nat /\ Start \in Nat
    BY PageIsPositive, LargePageAssumption, StartAssumption
  <2>2. g \in Nat
    BY <1>2, GapIsNat
  <2>3. gap \in Nat /\ g <= gap /\ gap < g + page
    BY <2>1, <2>2, RoundUpIs
  <2>4. v \in Nat /\ v = IF gap = Start THEN Start ELSE gap + page
    BY <1>2, AutoVaddrIs
  <2>5. \A n \in maps : /\ n.vaddr \in Nat /\ End(n) \in Nat /\ n.vaddr < End(n)
                        /\ n.vaddr >= Start
    BY SizesPositive DEF SpaceInv, IsMap, End, Packed
  \* The map below the gap.
  <2>6. \/ g = Start
        \/ \E n \in maps : g = End(n) + page
    <3>1. CASE Stops(s, page) = {}
      BY <1>2, <3>1, HighestIs DEF Gap
    <3>2. CASE Stops(s, page) # {}
      <4> DEFINE m == Lowest(Stops(s, page))
      <4>1. m \in maps
        BY <3>2, LowestIs, Stops(s, page) \subseteq maps DEF Stops
      <4>2. g = GuardEnd(m, page)
        BY <3>2 DEF Gap
      <4>3. Below(m) # {} => Highest(Below(m)) \in maps
        BY HighestIs, Below(m) \subseteq maps DEF Below
      <4> HIDE DEF m, g, page
      <4> QED BY <4>2, <4>3 DEF GuardEnd
    <3> QED BY <3>1, <3>2
  <2>7. gap = Start \/ g # Start
    BY <2>1, StartOnPage, RoundUpSame
  <2> HIDE DEF page, g, gap, v
  <2>8. CASE gap = Start
    BY <2>1, <2>4, <2>8 DEF v
  <2>9. CASE gap # Start
    <3>1. PICK n \in maps : g = End(n) + page
      BY <2>6, <2>7, <2>9
    <3>2. n.vaddr < v /\ v < End(n) + 3 * LargePage /\ v >= Start
      BY <2>1, <2>2, <2>3, <2>4, <2>5, <2>9, <3>1
    <3> QED BY <3>2 DEF v
  <2> QED BY <2>8, <2>9
<1> QED BY <1>1, <1>2

-----------------------------------------------------------------------------
\* One call.
LEMMA InitSpace == Init => VSpaceInv
BY DEF Init, VSpaceInv, SpaceInv, SpaceIsAuto, Disjoint, Packed

\* Every call is Try, of a map that the metaprogram or the code chose.
Chosen(m, auto) ==
    /\ IsMap(m)
    /\ auto => m = Map(AutoVaddr(m.size), m.size) /\ m.vaddr % PageOf(m.size) = 0

LEMMA Calls ==
    ASSUME SpaceInv, Next
    PROVE  \E m, auto : Try(m, auto) /\ auto \in BOOLEAN /\ Chosen(m, auto)
<1>1. ASSUME NEW v \in Vaddr, NEW s \in Size, AddMap(v, s)
      PROVE  Try(Map(v, s), FALSE) /\ Chosen(Map(v, s), FALSE)
  BY <1>1, VaddrAssumption DEF AddMap, Chosen, IsMap, Map
<1>2. ASSUME NEW s \in Size, CreateAutomap(s)
      PROVE  Try(Map(AutoVaddr(s), s), TRUE) /\ Chosen(Map(AutoVaddr(s), s), TRUE)
  <2>1. AutoVaddr(s) \in Nat /\ AutoVaddr(s) % PageOf(s) = 0
    BY AutoVaddrIs
  <2> QED BY <1>2, <2>1 DEF CreateAutomap, Chosen, IsMap, Map
<1> QED BY <1>1, <1>2 DEF Next

LEMMA TryKeepsSpace ==
    ASSUME SpaceInv, NEW m, NEW auto \in BOOLEAN, Try(m, auto), Chosen(m, auto)
    PROVE  SpaceInv'
<1>0. Accepts(m) \in BOOLEAN
  BY DEF Accepts
<1>1. maps' \subseteq maps \cup {m} /\ last'.auto \in BOOLEAN /\ last'.ok \in BOOLEAN
  BY <1>0 DEF Try
<1>2. onlyAuto' \in BOOLEAN
  BY DEF Try, SpaceInv
<1>3. \A n \in maps' : IsMap(n)
  BY <1>1 DEF Chosen, SpaceInv
<1>4. PICK b \in Nat : \A n \in maps : n.vaddr <= b
  BY DEF SpaceInv
<1>5. m.vaddr \in Nat
  BY DEF Chosen, IsMap
<1>6. \E c \in Nat : \A n \in maps' : n.vaddr <= c
  <2>1. b + m.vaddr \in Nat /\ \A n \in maps : n.vaddr \in Nat
    BY <1>5 DEF SpaceInv, IsMap
  <2>2. \A n \in maps' : n.vaddr <= b + m.vaddr
    BY <1>1, <1>4, <1>5, <2>1
  <2> QED BY <2>1, <2>2
<1>7. (\A n \in maps : IsMap(n))'
  BY <1>3 DEF IsMap, Map
<1> QED BY <1>1, <1>2, <1>6, <1>7 DEF SpaceInv

LEMMA TryKeepsAuto ==
    ASSUME VSpaceInv, NEW m, NEW auto \in BOOLEAN, Try(m, auto), Chosen(m, auto)
    PROVE  SpaceIsAuto'
<1>1. CASE ~Accepts(m)
  <2>1. maps' = maps /\ onlyAuto' = onlyAuto
    BY <1>1 DEF Try, VSpaceInv, SpaceInv
  <2> QED BY <2>1 DEF VSpaceInv, SpaceIsAuto, Disjoint, Packed, Overlap, End
<1>2. CASE Accepts(m) /\ onlyAuto'
  <2>1. maps' = maps \cup {m} /\ onlyAuto /\ auto
    BY <1>2 DEF Try
  <2>2. Disjoint(maps) /\ Packed /\ SpaceInv
    BY <2>1 DEF VSpaceInv, SpaceIsAuto
  <2>3. m.size \in Size /\ m.vaddr = AutoVaddr(m.size) /\ m.vaddr \in Nat /\ m.size \in Nat
    BY <2>1, SizesPositive DEF Chosen, IsMap, Map
  <2>4. \A n \in maps : n.vaddr > m.vaddr + m.size \/ End(n) < m.vaddr
    BY <2>1, <2>2, <2>3, AutomapFits
  <2>5. \A n \in maps : n.vaddr \in Nat /\ n.size \in Nat
    BY <2>2, SizesPositive DEF SpaceInv, IsMap
  <2>6. \A n \in maps : ~Overlap(m, n) /\ ~Overlap(n, m)
    BY <2>3, <2>4, <2>5 DEF Overlap, End
  <2>7. Disjoint(maps \cup {m})
    BY <2>2, <2>6 DEF Disjoint
  <2>8. m.vaddr >= Start
    BY <2>2, <2>3, AutoVaddrPacked
  <2>9. m.vaddr > Start => \E n \in maps : n.vaddr < m.vaddr /\ m.vaddr < End(n) + 3 * LargePage
    BY <2>2, <2>3, AutoVaddrPacked
  <2>10. Packed'
    BY <2>1, <2>2, <2>8, <2>9 DEF Packed, End
  <2>11. Disjoint(maps)'
    BY <2>1, <2>7 DEF Disjoint, Overlap
  <2> QED BY <2>10, <2>11 DEF SpaceIsAuto
<1>3. CASE ~onlyAuto'
  BY <1>3 DEF SpaceIsAuto
<1> QED BY <1>1, <1>2, <1>3

LEMMA StutterKeeps == VSpaceInv /\ UNCHANGED vars => VSpaceInv'
<1> SUFFICES ASSUME VSpaceInv, UNCHANGED vars PROVE VSpaceInv'
  OBVIOUS
<1>1. maps' = maps /\ last' = last /\ onlyAuto' = onlyAuto
  BY DEF vars
<1>2. SpaceInv'
  BY <1>1 DEF VSpaceInv, SpaceInv, IsMap, Map
<1>3. SpaceIsAuto'
  BY <1>1 DEF VSpaceInv, SpaceIsAuto, Disjoint, Overlap, Packed, End
<1> QED BY <1>2, <1>3 DEF VSpaceInv

LEMMA NextKeeps == VSpaceInv /\ [Next]_vars => VSpaceInv'
<1>1. ASSUME VSpaceInv, Next PROVE VSpaceInv'
  <2>1. PICK m, auto : Try(m, auto) /\ auto \in BOOLEAN /\ Chosen(m, auto)
    BY <1>1, Calls DEF VSpaceInv
  <2>2. SpaceInv'
    BY <1>1, <2>1, TryKeepsSpace DEF VSpaceInv
  <2>3. SpaceIsAuto'
    BY <1>1, <2>1, TryKeepsAuto
  <2> QED BY <2>2, <2>3 DEF VSpaceInv
<1> QED BY <1>1, StutterKeeps

\* The inductive invariant of an address space.
THEOREM SpaceInvariant == Spec => []VSpaceInv
<1>1. Init => VSpaceInv
  BY InitSpace
<1>2. VSpaceInv /\ [Next]_vars => VSpaceInv'
  BY NextKeeps
<1> QED BY <1>1, <1>2, PTL DEF Spec

-----------------------------------------------------------------------------
\* A map that add_map accepts reaches around the maps that it overlaps.
LEMMA AcceptedReachesAround ==
    ASSUME SpaceInv, NEW m, IsMap(m), Accepts(m), NEW n \in maps,
           Overlap(m, n) \/ Overlap(n, m)
    PROVE  Pages(n) \subseteq Pages(m)
<1>1. /\ m.vaddr \in Nat /\ m.size \in Nat /\ m.size >= 1
      /\ n.vaddr \in Nat /\ n.size \in Nat /\ n.size >= 1
  BY SizesPositive DEF IsMap, SpaceInv
<1>2. ~InMap(n, m.vaddr) /\ ~InMap(n, End(m))
  BY DEF Accepts
<1>3. m.vaddr < n.vaddr /\ n.vaddr + n.size <= m.vaddr + m.size
  BY <1>1, <1>2 DEF InMap, End, Overlap
<1> QED BY <1>1, <1>3 DEF Pages

LEMMA TryKeepsPartial ==
    ASSUME SpaceInv, NoPartialOverlap, NEW m, NEW auto, Try(m, auto), IsMap(m)
    PROVE  NoPartialOverlap'
<1>1. CASE ~Accepts(m)
  <2>1. maps' = maps
    BY <1>1 DEF Try
  <2> QED BY <2>1 DEF NoPartialOverlap, Overlap, Pages
<1>2. CASE Accepts(m)
  <2>1. maps' = maps \cup {m}
    BY <1>2 DEF Try
  <2> SUFFICES ASSUME NEW a \in maps', NEW c \in maps', a # c, Overlap(a, c)
               PROVE  Pages(a) \subseteq Pages(c) \/ Pages(c) \subseteq Pages(a)
    BY DEF NoPartialOverlap, Overlap, Pages
  <2>2. CASE a \in maps /\ c \in maps
    BY <2>2 DEF NoPartialOverlap
  <2>3. CASE a = m /\ c \in maps
    BY <1>2, <2>3, AcceptedReachesAround
  <2>4. CASE c = m /\ a \in maps
    BY <1>2, <2>4, AcceptedReachesAround
  <2> QED BY <2>1, <2>2, <2>3, <2>4
<1> QED BY <1>1, <1>2

\* add_map (pd.py:84-94) catches every overlap at an end: of any two maps that
\* overlap, one lies inside the other.
THEOREM OnlyEnclosed == Spec => []NoPartialOverlap
<1>1. Init => NoPartialOverlap
  BY DEF Init, NoPartialOverlap
<1>2. VSpaceInv /\ NoPartialOverlap /\ [Next]_vars => NoPartialOverlap'
  <2> SUFFICES ASSUME VSpaceInv, NoPartialOverlap, [Next]_vars
               PROVE  NoPartialOverlap'
    OBVIOUS
  <2>1. CASE Next
    <3>1. PICK m, auto : Try(m, auto) /\ Chosen(m, auto)
      BY <2>1, Calls DEF VSpaceInv
    <3> QED BY <3>1, TryKeepsPartial DEF VSpaceInv, Chosen
  <2>2. CASE UNCHANGED vars
    BY <2>2 DEF vars, NoPartialOverlap, Overlap, Pages
  <2> QED BY <2>1, <2>2
<1> QED BY <1>1, <1>2, SpaceInvariant, PTL DEF Spec

\* create_automap puts every map on a boundary of the largest page that fits in
\* it (pd.py:103-104), whatever the metaprogram has put into the space.
THEOREM AutomapsAligned == Spec => []AutomapAligned
<1>1. Init => AutomapAligned
  BY DEF Init, AutomapAligned
<1>2. VSpaceInv /\ AutomapAligned /\ [Next]_vars => AutomapAligned'
  <2> SUFFICES ASSUME VSpaceInv, AutomapAligned, [Next]_vars
               PROVE  AutomapAligned'
    OBVIOUS
  <2>1. CASE Next
    <3>1. PICK m, auto : Try(m, auto) /\ Chosen(m, auto)
      BY <2>1, Calls DEF VSpaceInv
    <3>2. last'.auto = auto /\ last'.map = m
      BY <3>1 DEF Try
    <3> QED BY <3>1, <3>2 DEF Chosen, AutomapAligned, PageOf
  <2>2. CASE UNCHANGED vars
    BY <2>2 DEF vars, AutomapAligned, PageOf
  <2> QED BY <2>1, <2>2
<1> QED BY <1>1, <1>2, SpaceInvariant, PTL DEF Spec

-----------------------------------------------------------------------------
\* A region of small pages goes between the maps that begin before it and those
\* that begin after its end, however the maps lie among each other.
LEMMA SmallBetween ==
    ASSUME SpaceInv, NEW s \in Size, PageOf(s) = 1, NEW n \in maps
    PROVE  n.vaddr < AutoVaddr(s) \/ AutoVaddr(s) + s < n.vaddr
<1> DEFINE g == Gap(s, 1)
           v == AutoVaddr(s)
<1>1. s \in Nat /\ n.vaddr \in Nat /\ maps # {}
  BY SizesPositive DEF SpaceInv, IsMap
<1>2. g \in Nat
  BY <1>1, GapIsNat
<1>3. RoundUp(g, 1) = g
  BY <1>2, RoundUpIs
<1>4. v \in Nat /\ v = IF g = Start THEN Start ELSE g + 1
  BY <1>1, <1>3, AutoVaddrIs
<1>5. \A k \in maps : k.vaddr \in Nat /\ End(k) \in Nat /\ k.vaddr < End(k)
  BY SizesPositive DEF SpaceInv, IsMap, End
<1>6. CASE Stops(s, 1) = {}
  <2> DEFINE h == Highest(maps)
  <2>1. h \in maps /\ n.vaddr <= h.vaddr
    BY <1>1, HighestIs
  <2>2. g = End(h) + 1
    BY <1>6 DEF Gap
  <2> HIDE DEF g, v, h
  <2>3. n.vaddr < v
    BY <1>1, <1>2, <1>4, <1>5, <2>1, <2>2
  <2> QED BY <2>3 DEF v
<1>7. CASE Stops(s, 1) # {}
  <2> DEFINE m == Lowest(Stops(s, 1))
             h == Highest(Below(m))
  <2>1. m \in Stops(s, 1)
    BY <1>7, LowestIs, Stops(s, 1) \subseteq maps DEF Stops
  <2>2. m \in maps /\ g = GuardEnd(m, 1) /\ g + s + 1 < m.vaddr
    BY <1>7, <2>1 DEF Stops, Gap
  <2>3. ASSUME n.vaddr < m.vaddr
        PROVE  h \in maps /\ n.vaddr <= h.vaddr /\ g = End(h) + 1
    <3>1. Below(m) \subseteq maps /\ n \in Below(m)
      BY <2>3 DEF Below
    <3>2. h \in Below(m) /\ n.vaddr <= h.vaddr
      BY <3>1, HighestIs
    <3>3. GuardEnd(m, 1) = End(h) + 1
      BY <3>1 DEF GuardEnd
    <3> QED BY <2>2, <3>1, <3>2, <3>3
  <2> HIDE DEF g, v, m, h
  <2>4. n.vaddr < m.vaddr => n.vaddr < v
    BY <1>1, <1>2, <1>4, <1>5, <2>3
  <2>5. ~(n.vaddr < m.vaddr) => v + s < n.vaddr
    BY <1>1, <1>2, <1>4, <1>5, <2>2
  <2> QED BY <2>4, <2>5 DEF v
<1> QED BY <1>6, <1>7

\* While all maps are automatic none overlaps another, and an automap of small
\* pages overlaps nothing, whatever the metaprogram has put in: create_automap
\* (pd.py:99-142) for every size of a large page and any regions, in whatever
\* order they come.
THEOREM AutomapsNeverOverlap == Spec => []AutomapsDisjoint
<1> DEFINE SmallFits ==
               last.auto /\ last.ok /\ PageOf(last.map.size) = 1 =>
                   \A n \in maps \ {last.map} : ~Overlap(n, last.map)
<1>1. Init => SmallFits
  BY DEF Init
<1>2. VSpaceInv /\ SmallFits /\ [Next]_vars => SmallFits'
  <2> SUFFICES ASSUME VSpaceInv, SmallFits, [Next]_vars
               PROVE  SmallFits'
    OBVIOUS
  <2>1. CASE Next
    <3>1. PICK m, auto : Try(m, auto) /\ auto \in BOOLEAN /\ Chosen(m, auto)
      BY <2>1, Calls DEF VSpaceInv
    <3>2. last' = [map |-> m, auto |-> auto, ok |-> Accepts(m)]
      BY <3>1 DEF Try
    <3> SUFFICES ASSUME auto, Accepts(m), PageOf(m.size) = 1, NEW n \in maps' \ {m}
                 PROVE  ~Overlap(n, m)
      BY <3>2 DEF Overlap, PageOf
    <3>3. n \in maps
      BY <3>1 DEF Try
    <3>4. /\ m.size \in Size /\ m.vaddr = AutoVaddr(m.size)
          /\ m.vaddr \in Nat /\ m.size \in Nat
          /\ n.vaddr \in Nat /\ n.size \in Nat
      BY <3>1, <3>3, SizesPositive DEF Chosen, IsMap, Map, VSpaceInv, SpaceInv
    <3>5. n.vaddr < m.vaddr \/ m.vaddr + m.size < n.vaddr
      BY <3>3, <3>4, SmallBetween DEF VSpaceInv
    <3>6. ~InMap(n, m.vaddr)
      BY <3>3 DEF Accepts
    <3> QED BY <3>4, <3>5, <3>6 DEF InMap, End, Overlap
  <2>2. CASE UNCHANGED vars
    BY <2>2 DEF vars, Overlap, PageOf
  <2> QED BY <2>1, <2>2
<1>3. VSpaceInv /\ SmallFits => AutomapsDisjoint
  BY DEF VSpaceInv, SpaceIsAuto, AutomapsDisjoint
<1> QED BY <1>1, <1>2, <1>3, SpaceInvariant, PTL DEF Spec

-----------------------------------------------------------------------------
\* A regular automap, chosen among disjoint maps, has a free page on either side
\* and is accepted.
LEMMA RegularAutomap ==
    ASSUME VSpaceInv, Disjoint(maps), NEW m, IsMap(m), m = Map(AutoVaddr(m.size), m.size),
           onlyAuto \/ PageOf(m.size) = 1
    PROVE  /\ \A n \in maps : n.vaddr > End(m) \/ End(n) < m.vaddr
           /\ Accepts(m) /\ m \notin maps
<1>1. m.size \in Size /\ m.vaddr = AutoVaddr(m.size) /\ m.vaddr \in Nat
  BY DEF IsMap, Map
<1>2. m.size \in Nat /\ m.size >= 1
  BY <1>1, SizesPositive
<1>3. \A n \in maps : n.vaddr > End(m) \/ End(n) < m.vaddr
  <2>1. \A n \in maps : n.vaddr > AutoVaddr(m.size) + m.size \/ End(n) < AutoVaddr(m.size)
    BY <1>1, AutomapFits
  <2> QED BY <1>1, <2>1 DEF End
<1>4. \A n \in maps : n.vaddr \in Nat /\ n.size \in Nat
  BY SizesPositive DEF VSpaceInv, SpaceInv, IsMap
<1>5. Accepts(m)
  BY <1>1, <1>2, <1>3, <1>4 DEF Accepts, InMap, End
<1>6. m \notin maps
  BY <1>1, <1>2, <1>3, <1>4 DEF End
<1> QED BY <1>3, <1>5, <1>6

\* Among disjoint maps create_automap never raises, if all maps are automatic or
\* the region is of small pages, wherever the other maps are.
THEOREM AutomapsSucceed == Spec => []AutomapSucceeds
<1>1. Init => AutomapSucceeds
  BY DEF Init, AutomapSucceeds
<1>2. VSpaceInv /\ AutomapSucceeds /\ [Next]_vars => AutomapSucceeds'
  <2> SUFFICES ASSUME VSpaceInv, AutomapSucceeds, [Next]_vars
               PROVE  AutomapSucceeds'
    OBVIOUS
  <2>1. CASE Next
    <3>1. PICK m, auto : Try(m, auto) /\ Chosen(m, auto) /\ auto \in BOOLEAN
      BY <2>1, Calls DEF VSpaceInv
    <3>2. last'.auto = auto /\ last'.map = m /\ last'.ok = Accepts(m)
      BY <3>1 DEF Try
    <3> SUFFICES ASSUME Regular', Disjoint(maps)', auto, ~Accepts(m)
                 PROVE  FALSE
      BY <3>2 DEF AutomapSucceeds
    <3>3. maps' = maps /\ onlyAuto' = onlyAuto
      BY <3>1 DEF Try, VSpaceInv, SpaceInv
    <3>4. Disjoint(maps)
      BY <3>3 DEF Disjoint, Overlap
    <3>5. onlyAuto \/ PageOf(m.size) = 1
      BY <3>2, <3>3 DEF Regular, PageOf
    <3> QED BY <3>1, <3>4, <3>5, RegularAutomap DEF Chosen
  <2>2. CASE UNCHANGED vars
    BY <2>2 DEF vars, AutomapSucceeds, Regular, Disjoint, Overlap, PageOf
  <2> QED BY <2>1, <2>2
<1> QED BY <1>1, <1>2, SpaceInvariant, PTL DEF Spec

\* A map that create_automap adds to disjoint maps has a free small page on
\* either side (pd.py:119-121), under the same condition.
THEOREM PagesGuarded == Spec => []GuardPages
<1>1. Init => GuardPages
  BY DEF Init, GuardPages
<1>2. VSpaceInv /\ GuardPages /\ [Next]_vars => GuardPages'
  <2> SUFFICES ASSUME VSpaceInv, GuardPages, [Next]_vars
               PROVE  GuardPages'
    OBVIOUS
  <2>1. CASE Next
    <3>1. PICK m, auto : Try(m, auto) /\ Chosen(m, auto) /\ auto \in BOOLEAN
      BY <2>1, Calls DEF VSpaceInv
    <3>2. /\ last'.auto = auto /\ last'.map = m /\ last'.ok = Accepts(m)
          /\ onlyAuto' => onlyAuto \/ ~Accepts(m)
      BY <3>1 DEF Try
    <3> SUFFICES ASSUME Regular', auto, Accepts(m), Disjoint(maps' \ {m})
                 PROVE  \A n \in maps' \ {m} : n.vaddr > End(m) \/ End(n) < m.vaddr
      BY <3>2 DEF GuardPages, Disjoint, Overlap, End
    <3>3. maps' = maps \cup {m}
      BY <3>1 DEF Try
    <3>4. m \notin maps
      <4>1. m.vaddr \in Nat /\ m.size \in Nat /\ m.size >= 1
        BY <3>1, SizesPositive DEF Chosen, IsMap
      <4> QED BY <4>1 DEF Accepts, InMap, End
    <3>5. maps' \ {m} = maps
      BY <3>3, <3>4
    <3>6. onlyAuto \/ PageOf(m.size) = 1
      BY <3>2, <3>3 DEF Regular, PageOf
    <3> QED BY <3>1, <3>5, <3>6, RegularAutomap DEF Chosen
  <2>2. CASE UNCHANGED vars
    BY <2>2 DEF vars, GuardPages, Regular, Disjoint, Overlap, PageOf, End
  <2> QED BY <2>1, <2>2
<1> QED BY <1>1, <1>2, SpaceInvariant, PTL DEF Spec
=============================================================================
