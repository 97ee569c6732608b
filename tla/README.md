# Acacia in TLA+

Acacia (`src/acacia/`) is a Python library with which a *metaprogram* describes a Microkit
system: protection domains (PDs), memory regions, maps, channels, interrupts, and *subsystems*
that bundle them. A *terminal action* (`write_xml_file`, `render`, `make_config_structs`)
assembles the description, allocates what was left open, and emits Microkit XML and binary
config structs. This directory models the parts of Acacia that decide something — addresses,
identifiers, order, layout — checks them with TLC on small instances, and proves the central
invariants with TLAPS for all instances.

Everything runs in one Python thread. What makes the library hard to test is not concurrency but
*order* and *partial failure*: user code (metaprogram, subsystem constructors, build hooks) may
call the operations in any order, several constructors write into their arguments before they
check them, a terminal action may raise half way and be called again, and stages of assembly are
only partly enforced.

## Inventory

| component | state | operations | interacts with | correct when |
|---|---|---|---|---|
| System (`system.py`) | `state`, `stage`, lists of PDs, regions, channels, subsystems | `_add_subsystem`, `assemble`, `resolve_subsystems`, `auto_allocate`, terminal actions | everything registers with it; it calls `build()` of subsystems | a final system is completely built and allocated, once; terminal actions come back |
| Memory regions (`memory.py`, `arch.py`) | `paddr`, `size`, `physical` | constructor, `_set_paddr` | `auto_allocate` | no two regions share physical memory |
| Identifier pools (`pd.py`, `channel.py`, `irq.py`, `x86.py`) | none: recomputed from registered holders | `allocate_id`, `add_irq`, `add_ioport`, `Channel()` | holders exist, and carry identifiers, before they are registered | holders of one PD differ (but for the ends of one channel inside it) and keep their identifiers; calls are acyclic |
| Address spaces (`Entity` in `pd.py`, `Map` in `memory.py`) | `maps`, sorted | `add_map`, `create_automap` | manual and automatic maps mix | maps overlap by enclosure at most; automaps are aligned, and disjoint and guarded among themselves or for small pages |
| PD tree (`pd.py`) | `System.pds`, `children`, `child_id` | `ProtectionDomain()`, `add_child_pd`, `render` | terminal actions walk it | one place per PD, rendering ends, nothing gets lost |
| What else is declared (`memory.py`, `pd.py`, `cspace.py`, `channel.py`) | `mrs`, `io_spaces`, `channels`, `maps`, `iomaps`, `vm`, `vcpus`, `slot_to_cap_map` | constructors, `add_map`, `add_io_map`, `add_vm`, `add_cap_map`, `render` | objects name each other; terminal actions render them | what is named is in the XML; what one terminal action said of what the next one writes is said again |
| Subsystems (`subsystem.py`) | `built`, `clients`, `build_hooks` | `add_client`, `build` | hooks are user code and may call anything | every hook runs, clients are connected |
| Build hooks (`subsystem.py`) | class attributes | `__init_subclass__`, `build_hook` | Python's MRO | the right methods run in the documented order |
| Config structs (`configstruct.py`) | collected structs, type tables, files in the build directory | `add_struct`, `resolve_and_create_all`, `_flatten_and_write`, `find_type_by_name` | subsystems return structs; `llvm-dwarfdump` | a program reads from the file what the metaprogram put in |
| DWARF parsing (`configstruct.py`, `dwarf_dump_grammar.py`) | type collector | text to tree (Lark), tree to `CType` table, sanity check | `llvm-dwarfdump` | a program comes out whole or is refused |
| Device tree (`dtb.py`) | the blob | `get_node_regs`, `get_reg_paddr`, `get_parsed_irqs`, `Arm_GIC.create` | `libfdt`; drivers and subsystems | lists are read as they were written; addresses are the CPU's |
| Payload of interrupts and ports, names and formatting of XML | | stored and rendered as they are | | not modelled |

The hazards, each at its line, are the `hazards` of `PROJECT.json`, with the properties that cover them.

## Modules

Definitions keep the names of the code where TLA+ allows it. A definition whose comment begins
*Wrong on purpose* is a variant of the definition after it with a plausible bug; nothing uses it,
it exists to show that a property would notice (`mutants` in `PROJECT.json`).

**RegionAlloc** states what physical allocation promises: each pending region gets the *highest
free page-aligned block* under `paddr_top`, or "no memory" is reported exactly when there is none;
an assertion can fail only for a region that lies across `paddr_top`. **PaddrAlloc** is
`System.auto_allocate` step by step — one action for taking the next region, one for every way an
iteration of the scan over `used_range` can end, one for every way the placement can end — and the
`MemoryRegion` constructor between the calls. `RefinesRegionAlloc` says that it implements
RegionAlloc. A call that fails leaves the regions placed so far, and the metaprogram may declare
more and call again. `sound` remembers whether the addresses the metaprogram gave were aligned and
disjoint; nothing is promised otherwise, since the constructor checks neither.
Abstractions: names are natural numbers (the code only sorts by them), `paddr_top` is a multiple
of a page.

**IdPool** models `allocate_id`, which keeps no table: an identifier is taken from the moment its
holder is *registered*. Channel ends, interrupts and ports exist before that, may come with an
identifier of the user's choice, may be handed in twice, and keep what a constructor that failed
wrote into them (`NewChannelFails`). The priority check of protected procedure calls, made once
when the channel is made, is part of `ChannelAllowed`.

**VSpace** models `Entity.add_map` and `create_automap`, whole, in small pages; `last` is the last
call, so that an invariant can speak about its outcome, and `onlyAuto` remembers whether every map
is an automap. `Gap`/`GuardEnd`/`Stops` are the loop over
the sorted maps. The list is a set because `add_map` refuses two maps at one address.

**Assembly** models the life of a system. A program counter stands for Python's call stack: the
metaprogram, the loop of `resolve_subsystems` (`idx`), the loop of `Subsystem.build` (`hook`),
allocation, emission. Hooks may declare PDs, clients and subsystems (`HookDoes`) and may raise;
the error goes up to the metaprogram, which may carry on. `state` is what the guards read and
`stage` what `assemble` writes: two attributes, as in the code. In a hook the nested call of
another terminal action or of another `build()` is left out.

**PdTree** models the forest of PDs. What `render` writes is the least set that holds the top level
and is closed under children (`Reached`): the recursion of the code, said without recursion.

**SystemXml** extends PdTree by everything else that ends up in the XML and composes it with the
states of a system. Regions, maps, I/O maps, address spaces and channels cannot be made in a final
system; all the rest can still be changed between two terminal actions, and that is what its
properties are about: a PD of the top level may become a child, and one that is put below itself
leaves the XML, so `SaidKept` compares what is written both times. `Said...` is what an element says. Regions,
addresses and channel identifiers are those of PaddrAlloc, VSpace and IdPool and enter here as
objects only; `Accepts` is the test of `add_map` again, since a map may be given to several entities.

**DeviceTree** models `dtb.py`. `source` is the tree as its author wrote it; the `Raw...` operators
make of it the cells a device tree compiler writes, and the operators of the code read them back. The
walk of `get_reg_paddr` is one step per bus, called by a driver or twice by `Arm_GIC.create`.
`exact` follows the register itself, not rounded to a page, by the DeviceTree specification's own
rules. Wrong trees (one of the two cell properties, lists that do not divide, bytes too many) are in,
and the premises `SoundTree`, `SoundRegs`, `SoundIrqs` say where something is promised.
Abstractions: a cell of an address has `Word` values; nodes are numbered by offset.

**DwarfTable** is what the constructor of `CType` makes of the tree that Lark returns, and what it
refuses; the grammar itself is left out. **Arithmetic** holds the lemmas about multiples of a page,
least and greatest numbers, blocks of equal length and finite recursion that the proofs share.

**BuildHooks** models a sequence of class statements. A class without a base is a plain one, such as
a mixin; `__init_subclass__` runs for the classes with Subsystem (`Root`) in their MRO, and `hooks[c]`
is what it computes from the bases and the body, empty for a plain class, as `getattr` takes it;
the linearization (`Merge`, a step of `Linear`) is Python's
and external. The loops are recursive functions over the positions of a list (`Inherited`, `Own`,
`Only`), so that they can be proved about.

**CTypes** holds the pure algorithms of `configstruct.py`: base types, dimensions, equality of
types, search by name, and the serialiser `Flatten`. Sizes are the real ones, but a byte has
`Byte = 4` values so that the boundaries of 1, 2 and 8 byte integers are small numbers. Python
values are tagged records. `Fail` stands for any exception. Floating point types are left out.
What the code does by recursion over types (`Flatten`, `Same`, `base_type`) is a recursive function
over the number of levels that it may still go down: one level is an operator (`FlatBy`, `SameBy`) that
is given what the levels below it yield, and beyond `MaxNesting` levels it fails, as Python does at its
recursion limit. So it can be proved about, and `Value` says which values there are. A circle of typedefs
fails too, where the loop of `base_type` (`configstruct.py:452`) would not return; C has none.
An `Entry` has every attribute that `Attributes.__eq__` compares, the place of the declaration included.
**ConfigCalls** is `make_config_structs`: collect, dump, write one file after the other, raise
anywhere, and call again on the same build directory, whatever the serialiser (`Serialise`) and the
programs that can be dumped are. **ConfigEmit** extends it and says what they are
(`SerialiserAssumption`): the tables of DwarfTable and `Flatten` of CTypes. The bytes are judged by
separate operators that follow C and not the code: `Means` (what C reads), `StringsEnd`,
`OneDefinition` (two definitions say the same, their members matched in any order) and
`Representable` (the value fits the type, and the type is one that the serialiser is made for, which
`Supported` lists: no array of pointers, no bit field, no aligned or overlapping member).

Allocation is a nondeterministic result in Assembly; what hooks do to identifiers and maps is
covered by IdPool and VSpace allowing every order of calls. An Assembly in which hooks act on real
channels and maps multiplies the two state spaces without a new interaction, since neither reads what
the other decides, and was left out for that reason.

## Runs

`MC*.tla` give the finite instances. `CHECK_DEADLOCK FALSE` is set everywhere because a
metaprogram may stop at any point. Symmetry is used only in runs without liveness.

| run | states | what it shows | bounds, and why they are enough |
|---|---|---|---|
| `paddr` | 48,541 | `AllocInv` (inductive), `NoOverlap`, `RefinesRegionAlloc`, `AllocationEnds` | three regions of one or three pages (the larger rounded up to a large page or not), six addresses: at 0, inside, inside a page, across and above `paddr_top`. A scan that passes one region, stops at another and places a third needs three |
| `ids` | 64,152 | `UniqueIds`, `IdsKept` | `UniqueIds` excepts the two ends of a channel inside one PD, which this run reaches with equal identifiers. Two PDs, two interrupts, three ends, a pool of two: pools run full, identifiers 0 (in the pool) and 3 (outside) are requested, priorities change |
| `ids_ppc` | 92,376 | `PpcAcyclic`; `NoIdLost`: no holes without requests, also after channels that failed in the middle; `PortIdsUnique` | three PDs with two ends each, the shortest circles having two and three PDs; one interrupt, two ports, a pool of two; PDs are exchanged together with their ends. Priorities stay: changed later, they promise nothing |
| `vspace` | 388,389 | what `add_map` promises of any maps (`NoPartialOverlap`), and what `create_automap` adds: `AutomapAligned` of any maps; `AutomapsDisjoint`, `GuardPages` and `AutomapSucceeds` if all maps are automatic, or of an automap of small pages beside any manual maps (the last two beside disjoint ones) | up to four maps of 1, 3, 4 and 6 pages with a large page of 4, so below, at and above a large page; manual addresses 0, 3 and 8 below the start at 16 and 14 to 20 around it, so that automaps go below the start as well |
| `assembly` | 97,312 | `AssemblyInv`, `FinalMeansBuilt`, `ClientsConnected`, `NoRepeatedBuild`, and `TerminalEnds` under fairness | three subsystems (one without clients), any of which may be declared by a hook; two hooks, the second connects; two errors, so that a retry can fail as well; one PD |
| `system_xml` | 694,752 | `TreeInv`, `RenderEnds`, `ChildKept` of the PDs; `NothingMissing`; `SaidKept` | three PDs, two pool identifiers of which 1 may be asked for, one region with a map that several entities may share and a write-only one that is refused, an I/O map and one without rights, capability maps for slots 0 and 1, a machine that several PDs may share, four lists of vCPU identifiers around the limit, one channel; five objects and attachments beside the PDs, and calls before and after a terminal action |
| `config_layout` | 1,117 | `BlobsRight`, `StringsTerminated`, `RepresentableAccepted`; `TypesHeld` | one struct, about 150 values at and beyond the limits of every kind, against eight programs: padding, unordered members, typedefs, arrays of structs, repeated definitions (alike in another order, at another line, or of one bit-field member), nested groups, bit fields, declarations, strings in two rows, entries that lack an attribute. `MaxNesting` is 7, more than the levels of any of these types; `Value` is every value given and every part of one |
| `config_emit` | 3,556 | `BlobsRight`, `OkMeansWritten` | two calls of two structs out of eight, right, wrong and incomplete, two programs and one that cannot be dumped, two structs that share a file |
| `device_tree` | 6,208 | `ReadsRight`, `PageOfRegister`, `GicRight`, `IrqsRight`, and `WalkEnds` under fairness | cells of four values and pages of two; registers under every pair of 0 to 2 cells or none stated; one bus with every pair of cells and seven lists of windows (on and off page boundaries, touching, nested, empty); two buses with and without `ranges`; controllers of both versions with one to five registers; interrupts of three types with numbers around 16 and a CPU mask; stray bytes and cells; three architectures |
| `hooks` | 162,441 | `HooksResolve`, `OwnLast` | four classes beside Subsystem (a diamond) with up to two bases, any of them plain, two methods and four bodies that mark one or both and unmark one |

Two runs each end in a counterexample: there the code does not do what its documentation or
comments say. The text is with the finding in `PROJECT.json`.

| run | violated | counterexample |
|---|---|---|
| `vspace_enclose` | `NoOverlap`, "INVARIANT: no maps overlap" (`pd.py:124`) | a map of one page, then a longer one around it: `add_map` tests two addresses only |
| `assembly_manual` | `ManualDisabled` (`system.py:122-123`, `docs/subsystems.md:392`) | a build hook runs while `state` is still SPECIFICATION: `assemble` writes `stage`, which nothing reads |

**Fairness.** `FairSpec` of PaddrAlloc, Assembly and DeviceTree is weak fairness of the steps of a call that
has begun: Python executes it to its end, and the documentation asks hooks to return. Declarations
and the decision to call a terminal action are the metaprogram's and have no fairness.

## Where the code departs from its documentation

The models keep what the code does in these places too; the properties above are stated so that
they hold around them (their premises name the condition), and no run states the broken promise.

* *Physical addresses.* A hand-placed region that lies across `paddr_top` passes the filter on start
  addresses and makes an assertion fail (`system.py:199`). The end of a used region is rounded down
  (`system.py:198`), so one that ends inside a page is overlapped by the region placed above it.
* *Identifiers.* Both ends of a channel are served before it is registered, so two ends of one PD get
  equal identifiers (`channel.py:95`). A requested interrupt or port identifier is not compared with
  `MAX_IDS` (`pd.py:349`). An end keeps what a channel that failed wrote into it, and asks for that
  identifier the next time. A priority may be changed after the channel was made (`channel.py:79`).
* *Address spaces.* A map that ends where another begins is refused (`pd.py:90`). With a manual map
  below the start address, automaps go there too (`pd.py:132`). Next to manual maps an automap of a
  large region may enclose another map, an automap too, or be refused, because the gap is measured
  before the address is rounded (`pd.py:129-139`, against `pd.py:102-103` and `system.py:38-39`): with
  the start at 16 and large pages of 4, an automap of one page at 16 and a manual map at 0, an automap
  of six pages goes to 12 and reaches to 18.
* *Assembly.* A build hook may declare a subsystem (`system.py:109`) for the same reason that manual
  allocation stays allowed. After an error the earlier hooks of the failed subsystem run again
  (`subsystem.py:205`). A PD can be made in a final system (`pd.py:291`).
* *Terminal actions* "prevent any additional elements from being added to the system"
  (`system.py:253`), but PDs can still be made and given to parents, and maps, I/O maps, virtual
  machines and capability maps that exist can be attached (`pd.py:84`, `pd.py:416`, `memory.py:314`,
  `cspace.py:61`), so that the XML may say more than the config structs knew. A PD of the top level may
  become a child then, and be written inside its parent (`pd.py:411`).
* *Virtual machines.* One may be given to two PDs and is rendered in both (`pd.py:431`). A vCPU
  identifier may be `MAX_IDS` (`pd.py:191`), and on x86 a machine with several vCPUs is accepted
  (`pd.py:430`, against `pd.py:422-423`).
* *PD tree.* A PD made a child of itself or of a descendant is reachable from nowhere and missing
  from the XML (`pd.py:411`).
* *Config structs.* Two structs whose target and section join to one name share a file
  (`configstruct.py:1010`). Pointer entries that state their size are refused (`:833`). Equal
  definitions with an enumeration member (`:535`), another `sibling` or another file, line or column of
  their declaration (`:240`) count as different.
  Of several string rows only the last must be terminated (`:931`), so a string may begin in one row
  and end in the next, but never behind the array. An array of pointers is refused,
  because an array wants the size of its entries (`:898`) and a pointer must not have one. One
  anonymous member, empty structure, typedef of `void` or typedef of a structure that is only declared
  refuses the whole program (`:409`, `:190`, `:556`).
* *Device tree.* A node with one of the two cell properties is misread or raises (`dtb.py:251`). A
  node without interrupts raises `TypeError` instead of the error written for it (`dtb.py:311`).
  Private interrupts above 15 would be taken for shared ones (`dtb.py:127`). Where the windows of a
  bus are not whole pages, a register's page may be looked up at an address outside its window
  (`dtb.py:358`). A list that does not divide gets a last entry of what is left (`dtb.py:288`).
* *Build hooks.* Below a diamond an overriding hook may run before a hook of the common base
  (`subsystem.py:249`, against `docs/subsystems.md:319`). A method marked in a mixin that is no
  Subsystem is not a hook, unless a Subsystem base lists its name (`subsystem.py:250`, against
  `docs/subsystems.md:315`).

## Proofs

| theorem | statement | argument |
|---|---|---|
| `AllocInvariant`, `RegionsNeverOverlap` (PaddrAllocProofs) | `Spec => []AllocInv`, `Spec => []NoOverlap` | `NoOverlap` alone is not inductive. `PlaceInv`: the address about to be assigned is a free block. It follows from `ScanInv`: visited regions start at `prev` or above, the others do not reach over those, because the list is visited from the top. `AllAligned` makes the rounding of region ends harmless. The arithmetic of multiples of the page size is in lemmas of its own |
| `ImplementsRegionAlloc` (PaddrAllocProofs) | `Spec => RefinesRegionAlloc` | every step of the scan is a stutter of RegionAlloc but the last. `SearchInv`: every block that ends above the gap the scan has come to meets a region, so the first gap that is wide enough has the highest free block, and where the scan runs out or an assertion fails RegionAlloc may fail as well |
| `NothingLost` (IdPoolProofs) | `[]NoIdLost` | `DenseInv`: below every identifier an end or an interrupt holds all are in use, also where a channel failed and its end kept one; what is in use stays so (`UsedGrows`) |
| `HoldersDiffer`, `PortsDiffer`, `HoldersKeepIds` (IdPoolProofs) | `UniqueIds`, `PortIdsUnique` always, `IdsKept` on every step | `PoolInv`: what is registered has an identifier, none twice within a PD. The ends of one channel are excepted. A granted identifier is outside `Used`; a holder that is already registered fails on its own identifier |
| `AssemblyInvariant`, `FinalIsBuilt` (SubsystemProofs) | `[]AssemblyInv`, `[]FinalMeansBuilt` | `LoopInv`: the loops have built or run what they have passed, and subsystems are only appended, so when `idx` passes the end of the list all are built |
| `BuildsOnce` (SubsystemProofs) | `NoRepeatedBuild` | with `DoneInv`: a subsystem whose last hook returned is built, or next |
| `ClientsAllConnected` (SubsystemProofs) | `ConnectHook = Hooks => (Spec => []ClientsConnected)` | with `ClientInv`; the premise is the advice of `subsystem.py:105-107`, and it is needed: clients added by a later hook would be missed |
| `HooksAreResolved` (SubsystemProofs) | `[]HooksResolve` | `HookInv`: the hooks of every class are marked methods that lookup finds, each once, with all that come from a Subsystem class (`HookList`), in `__mro__`s that go from a class to older ones. A hook that lookup finds in an older class is in the linearization of some base (`BaseHas`); what stands before it there stands before it in the new one as well (`KeepsOrder`, kept by every step of the merge), so that base found it first too and lists it (`HookOfBase`). A class above which a Subsystem class stands is one itself (`SubsystemUp`), so a plain class misses none |
| `OwnHooksLast` (SubsystemProofs) | `[]OwnLast` | `OwnOrder`: whatever follows a member of the class in the list is a later member; removing and appending keep it, and so does the final filter |
| `PoolTypes`, `NoCallCircle` (IdPoolProofs) | `[]TypeOK`; `~PriorityMoves` gives `Spec => []PpcAcyclic` | calls ascend in priority, and below some bound, as there are finitely many; so every set of PDs has a member of the greatest priority. The premise is needed: a priority changed later is compared with nothing |
| `OnlyEnclosed`, `AutomapsAligned` (VSpaceProofs) | `[]NoPartialOverlap`, `[]AutomapAligned`, whatever the metaprogram maps | an accepted map neither begins nor ends inside another, so it reaches around what it overlaps; the address is a sum of multiples |
| `AutomapsNeverOverlap`, `AutomapsSucceed`, `PagesGuarded` (VSpaceProofs) | `[]AutomapsDisjoint`, `[]AutomapSucceeds`, `[]GuardPages` | `Packed`: every automap is at the start address or less than three large pages behind the end of another. So no region of large pages stops at a gap (`NoWideGap`), where rounding could push it into the map behind; it goes last. In a gap only small pages are placed, which rounding does not move: such an automap ends before the map behind the gap and begins behind all others, whatever these are (`SmallBetween`). The premises are needed, see *Address spaces* above |
| `ListsRead` (DeviceTreeProofs) | `[]ReadsRight` | the cells of a list are blocks of one length, and block `i` is where the code slices (`FlattenBlocks`, `EntrySlices`): by induction on the blocks. Merging the digits of a number that fits gives the number (`MergeDigits`): after `i` cells the sum is the number without its last `k - i` digits. The functions behind `FlattenSeq`, `Merge` and `Power` are recursive over `0..n`; `FiniteRecursion` and `SameValues` (Arithmetic) say that they exist and are determined |
| `PagesFound` (DeviceTreeProofs) | `[]PageOfRegister` | windows are whole pages, so a page lies in a window exactly when the register does, and both move by the same multiple of a page; windows are read as they were written by `BlobReadable` |
| `InterfacesFound` (DeviceTreeProofs) | `[]GicRight` | `Tracked`: from every bus of the walk the register is at the same place for the CPU, so at the root it is there (`GicInv` keeps what the first walk found during the second). That the recursion over the buses is well founded is `CpuAddressUp`: parents have smaller numbers |
| `OkIsWritten` (ConfigProofs) | `[]OkMeansWritten` | `CallsInv`: until something is refused the collected structs are those returned, and after `k` of them the files hold the first `k`, of two with one file the last; the next one can only replace what is not the last any more |
| `TypesAreHeld` (ConfigProofs) | `[]TypesHeld` | the collected structs were all dumped, and a table that passed the sanity check has every type that one of its entries names (`TablesRight`); so has the end of every chain of typedefs, by induction along the chain. What is arranged by a key comes out once each and in order (`ArrangedOrder`) |
| `BytesAreRight`, `StringsAreTerminated` (ConfigProofs) | `[]BlobsRight`, `[]StringsTerminated` | `FilesInv`: a file holds the blob of the struct noted with it. That such a blob is read as the value is `FlattenRight`, by induction on the levels: on each, the bytes of a number give the number back (`BaseBytes`), entries of an array follow each other at multiples of their size (`ArrayParts`), members are at their places with zeros around them (`StructParts`), so if the levels below are read right this one is (`StepMeans`, `StepEnds`). `SizeOf` has a level of its own, as an array has no size. And a struct written for the first definition of its type is right for all: what `__eq__` holds equal is serialised alike (`FoundAlike`, from `LevelsAlike`) |
| `RepresentableIsAccepted` (ConfigProofs) | `[]RepresentableAccepted` | two parts. `LevelsAccepted`: if a value is representable, none of the tests of the serialiser refuses it: no number wraps, no member goes over the next (their places ascend and they do not overlap), no terminator is missing. `LevelsFound`: `__eq__` holds definitions equal that say the same. It compares members in the order of their places, position by position; two ascending lists with the same members are the same list (`NotBefore`, `SameAscending`), whatever the order of the dump |
| `InterruptsRead` (DeviceTreeProofs) | `[]IrqsRight` | less than an entry left over changes no quotient (`WholeEntries`); a private number is below 32, where the shared ones start |
| `RenderingEnds` (SystemXmlProofs) | `[]RenderEnds` | what was reached from the top level before a step was not below itself, and the PD that moves comes from the top level; what it becomes reachable from is in the least closed set, by `ReachedLeast` |
| `ImplementsPdTree`, `NothingIsMissing`, `SaidIsKept` (SystemXmlProofs) | `XmlSpec => Spec`, `[]NothingMissing`, `SaidKept` | a step of the whole is a step of the tree or leaves it alone, so the tree's invariants carry over; `RefInvariant`: what is named was registered; in a forest every PD that was made is rendered, so one that is no longer rendered shows a PD below itself; `Grows`: nothing is taken from what entities, slots and address spaces hold |
| `TreeInvariant`, `ChildrenKept` (SystemXmlProofs) | `[]TreeInv`, `ChildKept` | a child is taken from the top level, where it has no parent, and an identifier is outside those of its siblings |

Assumptions are the named `ASSUME`s of the modules: page and large page positive, the latter a
multiple of the former, `paddr_top` on a page, sizes positive multiples of a page
(`memory.py:50-53`); requested identifiers natural numbers; at least one hook; no name twice in a
class body, which is a dictionary; a byte with an even number of values; the parts of a value are values
(`ValueAssumption`), and what a struct holds is one (`StructAssumption`); the numbers in a dump are not
negative and what is inside an entry is in the dump (`DumpsAssumption`); where a compiler states the
size of an array, it is that of its entries (`ArraysAssumption`), on which the serialiser relies for
arrays that a struct contains. Debug information that is wrong in another way is allowed: overlapping
members, typedefs in a circle (which count as a failure), types that contain themselves.
TLC evaluates them for the instances it checks. The constants are otherwise arbitrary — any number
of regions, PDs, holders, subsystems, hooks, classes and bases — and `MaxErrors` only bounds how long behaviours are.

Only model-checked: the liveness properties `AllocationEnds`, `TerminalEnds` and `WalkEnds`, as
liveness and ENABLED are out of the prover's reach. Every other property of a passing run is stated by
a theorem. What `RepresentableAccepted` leaves out is in its premise: definitions that differ in what
`SameAttributes` compares (the `sibling` or the place of the declaration, `:240`), kinds of types that `__eq__` never holds equal (`:535`),
and types that are not `Supported`; there the code may refuse, and does.

## Not modelled

The Lark grammar and the spelling of attributes; `libfdt` and the lookups of nodes by path or name;
names and formatting of XML elements; floating point fields; scheduling properties, and the x86 and
interrupt attributes beside their identifiers, which are stored and rendered as they are. A subclass
constructor that raises after the base constructor has registered the subsystem (`subsystem.py:160`)
leaves a declared subsystem, which Assembly builds like any other. `PROJECT.json` lists each part
with its reason.

## Plan

1. Done: the modules above, with every safety and action property of the passing runs proved.
2. Open: floating point fields, which need a model of rounding, and an Assembly whose hooks act on
   real channels and maps (see the end of *Modules*).
