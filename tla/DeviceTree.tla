----------------------------- MODULE DeviceTree -----------------------------
(***************************************************************************)
(* DeviceTreeBlob: what a driver learns from a flattened device tree.      *)
(*                                                                         *)
(* `source` is the tree as its author wrote it.  The blob holds only lists *)
(* of 32-bit cells (Raw...), as a device tree compiler makes them: an      *)
(* address or a length takes as many cells as a property of *another* node *)
(* says.  The code reads them back (SizeCells, Regs, Windows, Irqs) and    *)
(* translates the address of a register, bus by bus, to one the CPU can    *)
(* map; the walk is a step per bus.  Arm_GIC.create calls it twice.        *)
(*                                                                         *)
(* Nodes are numbered in the order of their offsets, 0 the root.  A cell   *)
(* of an address has Word values instead of 2^32.                          *)
(***************************************************************************)
EXTENDS Integers, FiniteSets, SequencesExt

CONSTANTS
  Word,    \* values of a cell
  Page,    \* Arch.default_page_size_bytes()
  ArchID,  \* architectures
  Source   \* the trees under consideration, for each

None == -1      \* a property that the node does not have, no parent
NoAddr == -1    \* a None among the attributes of Arm_GIC

ASSUME WordAssumption == Word \in Nat \ {0}
ASSUME PageAssumption == Page \in Nat \ {0}
ASSUME ArchAssumption == ArchID \subseteq {"aarch64", "riscv64", "x86_64"}

\* A node has its parent, the two numbers of cells or None, and "compatible";
\* the lists "reg", "ranges" and "interrupts" as far as `props` names them; and
\* `stray` is a number of bytes too many at the end of each list.

ASSUME SourceAssumption ==
  \A a \in ArchID : \A t \in Source[a] :
    /\ 0 \in DOMAIN t /\ DOMAIN t \subseteq Nat
    /\ \A n \in DOMAIN t :
         /\ IF n = 0 THEN t[n].parent = None
            ELSE t[n].parent \in DOMAIN t /\ t[n].parent < n
         /\ t[n].addrCells \in Nat \cup {None} /\ t[n].sizeCells \in Nat \cup {None}
         /\ t[n].reg \in Seq([addr : Nat, size : Nat])
         /\ t[n].ranges \in Seq([child : Nat, parent : Nat, length : Nat])
         /\ t[n].interrupts \in Seq(Seq(Nat)) /\ t[n].stray \in Nat

VARIABLES
  source,  \* the tree
  arch,    \* the architecture of the system
  phase,   \* "idle", "walk" in get_reg_paddr, "done", "raised"
  goal,    \* who called it: "paddr" a driver, "cpu" or "vcpu" Arm_GIC.create
  node,    \* its argument
  curr,    \* curr_node
  addr,    \* device_paddr
  exact,   \* history: where the register is, on the bus that curr hangs from
  gic      \* the Arm_GIC that create makes

vars == <<source, arch, phase, goal, node, curr, addr, exact, gic>>

Node == DOMAIN source
Parent(n) == source[n].parent
HasProp(n, name) == name \in source[n].props

-----------------------------------------------------------------------------
(* The blob.  The DeviceTree specification gives the defaults of the cells, *)
(* each on its own.                                                        *)

TrueAddrCells(n) == IF n = None \/ source[n].addrCells = None THEN 2 ELSE source[n].addrCells
TrueSizeCells(n) == IF source[n].sizeCells = None THEN 1 ELSE source[n].sizeCells

\* Word^k
Power(k) ==
  LET product[i \in 0..k] == IF i = 0 THEN 1 ELSE Word * product[i - 1]
  IN  product[k]
Digits(v, k) == [i \in 1..k |-> (v \div Power(k - i)) % Word]
Stray(n) == source[n].stray \div 4
Misaligned(n) == source[n].stray % 4 # 0

Cells(n, entries) == FlattenSeq(entries) \o [i \in 1..Stray(n) |-> 1]

RawReg(n) ==
  LET a == TrueAddrCells(Parent(n))  s == TrueSizeCells(Parent(n))
  IN  Cells(n, [i \in DOMAIN source[n].reg |->
                  Digits(source[n].reg[i].addr, a) \o Digits(source[n].reg[i].size, s)])
RawRanges(n) ==
  LET a == TrueAddrCells(n)  u == TrueAddrCells(Parent(n))  s == TrueSizeCells(n)
  IN  Cells(n, [i \in DOMAIN source[n].ranges |->
                  LET w == source[n].ranges[i]
                  IN  Digits(w.child, a) \o Digits(w.parent, u) \o Digits(w.length, s)])
RawIrqs(n) == Cells(n, source[n].interrupts)

-----------------------------------------------------------------------------
(* Reading it.                                                             *)

\* get_size_and_addr_cells looks for "#size-cells" before it reads either; it
\* raises if a node has that one alone.
CellsRead(n) == source[n].sizeCells # None => source[n].addrCells # None
SizeCells(n) == IF source[n].sizeCells = None THEN 1 ELSE source[n].sizeCells
\* Wrong on purpose: the default of the two numbers is the same.
AddrCellsDefaultOne(n) == IF source[n].sizeCells = None THEN 1 ELSE source[n].addrCells
AddrCells(n) == IF source[n].sizeCells = None THEN 2 ELSE source[n].addrCells

\* Wrong on purpose: the least significant cell comes first.
MergeLittleEndian(ws) ==
  LET sum[i \in 0..Len(ws)] == IF i = 0 THEN 0 ELSE sum[i - 1] + ws[i] * Power(i - 1)
  IN  sum[Len(ws)]
\* merge_u32s: the most significant cell comes first; no cells make a 0.
Merge(ws) ==
  LET sum[i \in 0..Len(ws)] == IF i = 0 THEN 0 ELSE sum[i - 1] * Word + ws[i]
  IN  sum[Len(ws)]

\* Python's s[from:to], which may reach over the end.
Slice(s, from, to) == SubSeq(s, from + 1, IF to < Len(s) THEN to ELSE Len(s))

\* get_node_regs.  A list that does not divide gives a last entry of what is
\* left; a step of no cells raises.
RegsRead(n) ==
  /\ Parent(n) # None
  /\ CellsRead(Parent(n))
  /\ HasProp(n, "reg") /\ ~Misaligned(n)
  /\ SizeCells(Parent(n)) + AddrCells(Parent(n)) > 0
Regs(n) ==
  LET a == AddrCells(Parent(n))
      k == a + SizeCells(Parent(n))
      vals == RawReg(n)
  IN  [i \in 1..(Len(vals) + k - 1) \div k |->
         [addr |-> Merge(Slice(vals, (i - 1) * k, (i - 1) * k + a)),
          size |-> Merge(Slice(vals, (i - 1) * k + a, i * k))]]

\* The cells of an address on the bus above p: 2 above the root.
UpperCells(p) == IF Parent(p) = None THEN 2 ELSE AddrCells(Parent(p))
EntryCells(p) == AddrCells(p) + UpperCells(p) + SizeCells(p)
\* What can raise before entries are parsed: an entry of no cells divides by 0.
WindowsRead(p) ==
  /\ CellsRead(p)
  /\ Parent(p) # None => CellsRead(Parent(p))
  /\ EntryCells(p) > 0
Malformed(p) == Misaligned(p) \/ Len(RawRanges(p)) % EntryCells(p) # 0
\* Wrong on purpose: addresses on both sides of the bus have as many cells.
WindowsOneWidth(p) ==
  LET a == AddrCells(p)  k == EntryCells(p)  vals == RawRanges(p)
  IN  IF Malformed(p) THEN <<>>
      ELSE [i \in 1..Len(vals) \div k |->
             [child  |-> Merge(Slice(vals, (i - 1) * k, (i - 1) * k + a)),
              parent |-> Merge(Slice(vals, (i - 1) * k + a, (i - 1) * k + 2 * a)),
              length |-> Merge(Slice(vals, (i - 1) * k + 2 * a, i * k))]]
\* The entries of "ranges": none if it is malformed.
Windows(p) ==
  LET a == AddrCells(p)  u == UpperCells(p)  k == EntryCells(p)  vals == RawRanges(p)
  IN  IF Malformed(p) THEN <<>>
      ELSE [i \in 1..Len(vals) \div k |->
             [child  |-> Merge(Slice(vals, (i - 1) * k, (i - 1) * k + a)),
              parent |-> Merge(Slice(vals, (i - 1) * k + a, (i - 1) * k + a + u)),
              length |-> Merge(Slice(vals, (i - 1) * k + a + u, i * k))]]

\* get_parsed_irqs.
CellsPerIrq == CASE arch = "aarch64" -> 3 [] arch = "riscv64" -> 1 [] arch = "x86_64" -> 0
IrqEntries(n) ==
  LET vals == RawIrqs(n)
  IN  [i \in 1..Len(vals) \div CellsPerIrq |->
         Slice(vals, (i - 1) * CellsPerIrq, i * CellsPerIrq)]
\* Wrong on purpose: the CPU mask above bit 3 is taken for a part of the trigger.
TriggerWholeCell(t) ==
  CASE t \in {1, 2} -> "edge" [] t \in {4, 8} -> "level" [] OTHER -> "raises"
\* _arm_gic_trigger: the lowest four bits.
Trigger(t) ==
  CASE t % 16 \in {1, 2} -> "edge" [] t % 16 \in {4, 8} -> "level" [] OTHER -> "raises"
\* _arm_gic_irq_type and _arm_gic_irq_number: 0 is shared, 1 is private.
NumberBase(type) == CASE type = 0 -> 32 [] type = 1 -> 16
\* Either of "interrupts" and "interrupt" would do; without both, the length of
\* None raises.
IrqsRead(n) ==
  /\ HasProp(n, "interrupts") /\ ~Misaligned(n) /\ CellsPerIrq > 0
  /\ arch = "aarch64" => \A i \in DOMAIN IrqEntries(n) :
                       IrqEntries(n)[i][1] \in {0, 1} /\ Trigger(IrqEntries(n)[i][3]) # "raises"
Irqs(n) ==
  [i \in DOMAIN IrqEntries(n) |->
     LET cells == IrqEntries(n)[i]
     IN  IF arch = "aarch64"
         THEN [number |-> cells[2] + NumberBase(cells[1]), trigger |-> Trigger(cells[3])]
         ELSE [number |-> cells[1], trigger |-> "level"]]

-----------------------------------------------------------------------------
(* get_reg_paddr and its callers.                                          *)

RoundDown(a) == a - (a % Page)

NoGic == [version |-> None, cpu |-> NoAddr, vcpu |-> NoAddr, vcpuSize |-> NoAddr]

Init ==
  /\ arch \in ArchID /\ source \in Source[arch]
  /\ phase = "idle" /\ goal = "none"
  /\ node = 0 /\ curr = 0 /\ addr = 0 /\ exact = 0
  /\ gic = NoGic

\* Where the author put the register: for a list that does not divide, where
\* the code reads it.
Written(n, i) == IF i <= Len(source[n].reg) THEN source[n].reg[i].addr ELSE Regs(n)[i].addr

\* The address of register i is aligned before the walk begins.
Begin(caller, n, i) ==
  /\ phase' = "walk" /\ goal' = caller
  /\ node' = n /\ curr' = n
  /\ addr' = RoundDown(Regs(n)[i].addr)
  /\ exact' = Written(n, i)

\* A driver asks for the page of a register that get_node_regs gave it.
GetRegPaddr(n, i) ==
  /\ phase = "idle"
  /\ RegsRead(n) /\ i \in DOMAIN Regs(n)
  /\ Begin("paddr", n, i)
  /\ UNCHANGED <<source, arch, gic>>

\* Arm_GIC.create takes the first node that is compatible; version 2 first.
GicNodes == {n \in Node : source[n].compatible \cap {"v2", "v3"} # {}}
GicNode == CHOOSE n \in GicNodes : \A k \in GicNodes : n <= k
GicVersion == IF "v2" \in source[GicNode].compatible THEN 2 ELSE 3
CpuReg(version) == IF version = 2 THEN 2 ELSE 3
\* Wrong on purpose: the hypervisor interface of version 2 is one before.
VcpuRegOff(version) == IF version = 2 THEN 3 ELSE 5
VcpuReg(version) == IF version = 2 THEN 4 ELSE 5

\* After the CPU interface comes the virtual one, if there are so many registers.
VcpuNext(version) ==
  IF VcpuReg(version) \in DOMAIN Regs(GicNode)
  THEN Begin("vcpu", GicNode, VcpuReg(version))
  ELSE phase' = "done" /\ UNCHANGED <<goal, node, curr, addr, exact>>

CreateGic ==
  /\ phase = "idle" /\ GicNodes # {} /\ RegsRead(GicNode)
  /\ gic' = [gic EXCEPT !.version = GicVersion]
  /\ IF CpuReg(GicVersion) \in DOMAIN Regs(GicNode)
     THEN Begin("cpu", GicNode, CpuReg(GicVersion))
     ELSE VcpuNext(GicVersion)
  /\ UNCHANGED <<source, arch>>

\* get_node_regs raises in it, or there is no controller.
CreateGicFails ==
  /\ phase = "idle"
  /\ IF GicNodes = {} THEN phase' = "done"
     ELSE ~RegsRead(GicNode) /\ phase' = "raised"
  /\ UNCHANGED <<source, arch, goal, node, curr, addr, exact, gic>>

\* Where an address is on the bus above p.
Moved(p, a) ==
  LET hits == {i \in DOMAIN source[p].ranges :
                 LET w == source[p].ranges[i] IN w.child <= a /\ a < w.child + w.length}
  IN  IF ~HasProp(p, "ranges") \/ hits = {} THEN a
      ELSE LET w == source[p].ranges[CHOOSE i \in hits : TRUE]
           IN  w.parent + (a - w.child)

\* No "ranges", or an empty one: the addresses are the same on both sides.
Identity(p) == HasProp(p, "ranges") => RawRanges(p) = <<>> /\ ~Misaligned(p)

\* Wrong on purpose: stays at the same node.
PassOnStays(p) ==
  /\ Identity(p)
  /\ exact' = Moved(p, exact)
  /\ UNCHANGED <<phase, addr, gic, curr>>

PassOn(p) ==
  /\ Identity(p)
  /\ curr' = p /\ exact' = Moved(p, exact)
  /\ UNCHANGED <<phase, addr, gic>>

\* Wrong on purpose: a window includes its end.
HitsClosed(p) ==
  {i \in DOMAIN Windows(p) :
     Windows(p)[i].child <= addr /\ addr <= Windows(p)[i].child + Windows(p)[i].length}

Hits(p) == {i \in DOMAIN Windows(p) :
              Windows(p)[i].child <= addr /\ addr < Windows(p)[i].child + Windows(p)[i].length}

\* The first entry that holds the address translates it; if none does, or the
\* list is malformed, it stays.
Translate(p) ==
  /\ ~Identity(p)
  /\ WindowsRead(p)
  /\ addr' = IF Hits(p) = {} THEN addr
             ELSE LET w == Windows(p)[CHOOSE i \in Hits(p) : \A j \in Hits(p) : i <= j]
                  IN  w.parent + (addr - w.child)
  /\ curr' = p /\ exact' = Moved(p, exact)
  /\ UNCHANGED <<phase, gic>>

WalkRaises(p) ==
  /\ ~Identity(p)
  /\ ~WindowsRead(p)
  /\ phase' = "raised"
  /\ UNCHANGED <<curr, addr, exact, gic>>

Climb ==
  /\ phase = "walk" /\ Parent(curr) # None
  /\ LET p == Parent(curr) IN PassOn(p) \/ Translate(p) \/ WalkRaises(p)
  /\ UNCHANGED <<source, arch, goal, node>>

\* The root has no parent: get_reg_paddr returns.
Return ==
  /\ phase = "walk" /\ Parent(curr) = None
  /\ \/ /\ goal = "paddr"
        /\ phase' = "done" /\ UNCHANGED <<goal, node, curr, addr, exact, gic>>
     \/ /\ goal = "cpu"
        /\ gic' = [gic EXCEPT !.cpu = addr]
        /\ VcpuNext(gic.version)
     \/ /\ goal = "vcpu"
        /\ gic' = [gic EXCEPT !.vcpu = addr, !.vcpuSize = Regs(node)[VcpuReg(gic.version)].size]
        /\ phase' = "done" /\ UNCHANGED <<goal, node, curr, addr, exact>>
  /\ UNCHANGED <<source, arch>>

Next ==
  \/ \E n \in Node : \E i \in 1..Len(source[n].reg) + 1 : GetRegPaddr(n, i)
  \/ CreateGic \/ CreateGicFails
  \/ Climb \/ Return

Spec == Init /\ [][Next]_vars
\* A call that has begun is executed to its end.
FairSpec == Spec /\ WF_vars(Climb \/ Return)

-----------------------------------------------------------------------------
(* Trees as the DeviceTree specification asks for them, and what the code   *)
(* needs on top: both cell properties or none.                             *)

Stated(n) == n # None => (source[n].addrCells = None <=> source[n].sizeCells = None)
Fits(v, k) == v < Power(k)

SoundRegs(n) ==
  LET p == Parent(n)
  IN  /\ p # None /\ Stated(p) /\ HasProp(n, "reg") /\ source[n].stray = 0
      /\ TrueAddrCells(p) + TrueSizeCells(p) > 0
      /\ \A i \in DOMAIN source[n].reg :
           /\ Fits(source[n].reg[i].addr, TrueAddrCells(p))
           /\ Fits(source[n].reg[i].size, TrueSizeCells(p))

SoundRanges(p) ==
  /\ Stated(p) /\ Stated(Parent(p)) /\ HasProp(p, "ranges") /\ source[p].stray = 0
  /\ TrueAddrCells(p) + TrueAddrCells(Parent(p)) + TrueSizeCells(p) > 0
  /\ \A i \in DOMAIN source[p].ranges :
       /\ Fits(source[p].ranges[i].child, TrueAddrCells(p))
       /\ Fits(source[p].ranges[i].parent, TrueAddrCells(Parent(p)))
       /\ Fits(source[p].ranges[i].length, TrueSizeCells(p))

Readable ==
  \A n \in Node :
    /\ SoundRegs(n) => RegsRead(n) /\ Regs(n) = source[n].reg
    /\ SoundRanges(n) => WindowsRead(n) /\ Windows(n) = source[n].ranges

\* The lists read from the blob are the ones its author wrote, however many
\* cells an address and a length take on either side of a bus (dtb.py:240-294,
\* dtb.py:385-421).
ReadsRight == phase = "idle" => Readable

\* A bus that moves whole pages, each to one place.
PageWise(p) ==
  \A i, j \in DOMAIN source[p].ranges :
    LET v == source[p].ranges[i]  w == source[p].ranges[j]
    IN  /\ v.child % Page = 0 /\ v.parent % Page = 0 /\ v.length % Page = 0
        /\ i # j => v.child + v.length <= w.child \/ w.child + w.length <= v.child

SoundTree ==
  \A n \in Node :
    /\ HasProp(n, "reg") => SoundRegs(n)
    /\ HasProp(n, "ranges") => SoundRanges(n) /\ PageWise(n)

\* Translating the page of a register gives the page of the translated
\* register, over any number of buses, although the address is aligned before
\* it is compared with their windows (dtb.py:358, dtb.py:421-424).
PageOfRegister == SoundTree /\ goal # "none" => phase # "raised" /\ addr = RoundDown(exact)

\* Every call comes to an end (dtb.py:362-427): no way through the loop leaves
\* out the step to the parent.
WalkEnds == phase = "walk" ~> phase \in {"done", "raised"}

\* Where a is for the CPU, from the bus above n.
CpuAddress[n \in Node] ==
  [a \in Nat |-> IF n = 0 THEN a ELSE CpuAddress[Parent(n)][Moved(Parent(n), a)]]

\* The interrupt controller's interfaces are the pages of the registers that the
\* bindings of its version name (dtb.py:92-110), and neither is made up.
InterfaceRight(page, i) ==
  IF i \in DOMAIN source[GicNode].reg
  THEN page = RoundDown(CpuAddress[GicNode][source[GicNode].reg[i].addr])
  ELSE page = NoAddr
GicRight ==
  SoundTree /\ phase = "done" /\ gic.version # None =>
    /\ InterfaceRight(gic.cpu, IF gic.version = 2 THEN 2 ELSE 3)
    /\ InterfaceRight(gic.vcpu, IF gic.version = 2 THEN 4 ELSE 5)
    /\ (gic.vcpu = NoAddr) = (gic.vcpuSize = NoAddr)

\* Whole entries of a supported kind, and less than another one after them.
SoundIrqs(n) ==
  /\ HasProp(n, "interrupts") /\ CellsPerIrq > 0
  /\ source[n].stray \in {s \in 0..4 * CellsPerIrq - 1 : s % 4 = 0}
  /\ \A i \in DOMAIN source[n].interrupts :
       LET c == source[n].interrupts[i]
       IN  /\ Len(c) = CellsPerIrq
           /\ arch = "aarch64" => /\ c[1] \in {0, 1}
                                  /\ c[1] = 1 => c[2] < 16
                                  /\ c[3] % 16 \in {1, 2, 4, 8}

\* Supported interrupts are read, all of them and no more; those that differ in
\* the tree have different numbers, private ones below 16 provided
\* (dtb.py:125-127), and the trigger depends on four bits of its cell alone.
IrqsRight ==
  phase = "idle" => \A m, n \in Node :
    SoundIrqs(m) /\ SoundIrqs(n) =>
      /\ IrqsRead(m) /\ Len(Irqs(m)) = Len(source[m].interrupts)
      /\ \A i \in DOMAIN Irqs(m), j \in DOMAIN Irqs(n) :
           LET c == source[m].interrupts[i]  d == source[n].interrupts[j]
           IN  /\ Irqs(m)[i].number = Irqs(n)[j].number =>
                    IF arch = "aarch64" THEN <<c[1], c[2]>> = <<d[1], d[2]>> ELSE c = d
               /\ arch = "aarch64" /\ c[3] % 16 = d[3] % 16 =>
                    Irqs(m)[i].trigger = Irqs(n)[j].trigger
=============================================================================
