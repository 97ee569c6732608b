----------------------------- MODULE MCDeviceTree -----------------------------
(* Cells of four values, pages of two.  A device below up to two buses.       *)
EXTENDS DeviceTree, TLC

Plain == [parent |-> None, addrCells |-> None, sizeCells |-> None, props |-> {},
          reg |-> <<>>, ranges |-> <<>>, interrupts |-> <<>>, compatible |-> {}, stray |-> 0]
Below(p) == [Plain EXCEPT !.parent = p]
Bus(p, a, s, ws, x) ==
  [Below(p) EXCEPT !.addrCells = a, !.sizeCells = s, !.props = {"ranges"},
                   !.ranges = ws, !.stray = x]
Device(p, rs, x) == [Below(p) EXCEPT !.props = {"reg"}, !.reg = rs, !.stray = x]

Number(S) == S \cup {None}
R(a, s) == [addr |-> a, size |-> s]
W(c, p, l) == [child |-> c, parent |-> p, length |-> l]

\* Windows on and off page boundaries, touching, one inside another, empty.
WindowLists ==
  {<<>>, <<W(0, 4, 2)>>, <<W(2, 8, 1)>>, <<W(1, 6, 2)>>, <<W(2, 5, 2)>>,
   <<W(0, 10, 2), W(2, 4, 2)>>, <<W(0, 4, 3), W(2, 12, 2)>>}

FewLists == {<<>>, <<W(1, 6, 2)>>, <<W(2, 0, 2)>>, <<W(0, 10, 2), W(2, 4, 2)>>}

\* Registers read under every pair of cells.
RegTrees ==
  {(0 :> [Plain EXCEPT !.addrCells = a, !.sizeCells = s]) @@ (1 :> Device(0, rs, x)) :
     a \in Number(0..2), s \in Number(0..2), x \in {0, 2, 4},
     rs \in {<<>>, <<R(3, 2)>>, <<R(2, 0), R(7, 3)>>, <<R(0, 0), R(0, 0)>>}}

\* One bus, with every pair of cells around it, and with a stray cell.
BusTree(c0, a, s, ws, x) ==
  (0 :> [Plain EXCEPT !.addrCells = c0[1], !.sizeCells = c0[2]]) @@ (1 :> Bus(0, a, s, ws, x))
    @@ (2 :> Device(1, <<R(3, 1)>>, 0))
BusTrees ==
  {BusTree(c0, a, s, ws, 0) :
     c0 \in {<<None, None>>, <<1, None>>, <<None, 1>>, <<1, 1>>},
     a \in Number(0..2), s \in Number({0, 1}), ws \in WindowLists}
  \cup {BusTree(<<2, 2>>, a, s, ws, x) : a \in 0..2, s \in 1..2, ws \in FewLists, x \in {2, 4}}

\* Two buses between a device and the root, with or without "ranges".
NestedTrees ==
  {(0 :> [Plain EXCEPT !.addrCells = a[1], !.sizeCells = 1, !.props = rootRanges])
     @@ (1 :> Bus(0, a[2], 1, ws1, 0)) @@ (2 :> [Bus(1, 2, 2, ws2, 0) EXCEPT !.props = p])
     @@ (3 :> Device(2, <<R(3, 1)>>, 0)) :
     a \in {<<1, 2>>, <<2, 1>>}, rootRanges \in {{}, {"ranges"}}, p \in {{}, {"ranges"}},
     ws1 \in FewLists, ws2 \in FewLists}

\* An interrupt controller of either version with up to five registers, a
\* second one behind it, on a bus.
GicTrees ==
  {(0 :> [Plain EXCEPT !.addrCells = 1, !.sizeCells = 1]) @@ (1 :> Bus(0, 1, 1, ws, 0))
     @@ (2 :> [Device(1, [i \in 1..k |-> R((i * i) % 4, i % 4)], 0) EXCEPT !.compatible = v])
     @@ (3 :> [Device(0, <<R(1, 1), R(2, 1)>>, 0) EXCEPT !.compatible = {"v3"}]) :
     ws \in {<<>>, <<W(0, 10, 2), W(2, 4, 2)>>}, k \in 1..5, v \in {{"v2"}, {"v3"}, {"v2", "v3"}, {"other"}}}

\* Interrupts: types 0 to 2, numbers on both sides of 16, triggers with a mask.
IrqNode(es, x) == [Below(0) EXCEPT !.props = {"interrupts"}, !.interrupts = es, !.stray = x]
Irq == {<<t, n, g>> : t \in 0..2, n \in {0, 3, 15, 16}, g \in {1, 4, 260, 3}}
IrqTrees ==
  {(0 :> Plain) @@ (1 :> IrqNode(<<i>>, x)) @@ (2 :> IrqNode(<<j, <<0, 5, 8>>>>, 0)) :
     i \in Irq, j \in {<<0, 0, 4>>, <<0, 3, 1>>, <<1, 15, 260>>, <<1, 16, 2>>}, x \in {0, 2, 4}}
OneCellTrees ==
  {(0 :> Plain) @@ (1 :> Below(0)) @@ (2 :> IrqNode(is, x)) :
     is \in {<<>>, <<<<7>>, <<9>>>>}, x \in {0, 2, 4}}

Trees == [a \in ArchID |-> CASE a = "aarch64" -> RegTrees \cup BusTrees \cup NestedTrees
                                                  \cup GicTrees \cup IrqTrees
                            [] a = "riscv64" -> OneCellTrees \cup RegTrees
                            [] a = "x86_64" -> OneCellTrees]
=============================================================================
