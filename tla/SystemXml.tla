------------------------------ MODULE SystemXml ------------------------------
(***************************************************************************)
(* What a metaprogram declares beside the PDs - memory regions, maps, I/O  *)
(* address spaces, channels, virtual machines, capability maps - where it  *)
(* is kept, and what the terminal actions say of it.                       *)
(*                                                                         *)
(* Regions, I/O address spaces, channels and maps cannot be made in a      *)
(* final system, and a terminal action may be called again.  Everything    *)
(* else can still be changed then: PDs are made and given to parents, and  *)
(* maps, virtual machines and capability maps that exist are attached.     *)
(* The regions and addresses themselves are in PaddrAlloc and VSpace,      *)
(* channel identifiers in IdPool.                                          *)
(***************************************************************************)
EXTENDS PdTree, Sequences

CONSTANTS
  MR,          \* MemoryRegion objects
  MapArg,      \* maps a caller may make: records with mr, vaddr, size, perms
  IOAS,        \* IOAddressSpace objects
  IOMapArg,    \* I/O maps a caller may make: records with mr and perms
  Chan,        \* Channel objects
  VM,          \* VirtualMachine objects
  VcpuIds,     \* the sequences of vCPU identifiers a caller may give
  Scheduled,   \* the virtual machines with scheduling properties
  X86,         \* sdf.arch.is_x86()
  CapArg,      \* capability maps a caller may make: records with slot and obj
  MaxCalls     \* bound: objects beside the PDs, and their attachments

NoEnds == <<>>
NoVm == "None"

ASSUME ArgAssumption ==
  /\ \A m \in MapArg : m.mr \in MR /\ m.perms \subseteq {"r", "w", "x"}
  /\ \A i \in IOMapArg : i.mr \in MR /\ i.perms \subseteq {"r", "w"}
  /\ \A c \in CapArg : c.obj \in PD
  /\ Scheduled \subseteq VM /\ X86 \in BOOLEAN
  /\ PD \cap VM = {} /\ NoVm \notin VM
  /\ (PD \cup VM) \cap (MapArg \cup IOMapArg) = {}

VARIABLES
  mrs,         \* System.mrs
  ioSpaces,    \* System.io_spaces
  channels,    \* System.channels: the PDs at the ends of each channel
  objects,     \* the Map, IOMap and VirtualMachine objects that exist
  maps,        \* Entity.maps of PDs and virtual machines
  ioMaps,      \* IOAddressSpace.iomaps
  vcpus,       \* VirtualMachine.vcpus: the identifiers
  vm,          \* ProtectionDomain.vm
  slots        \* MicrokitCSpace.slot_to_cap_map of each PD

xmlVars == <<mrs, ioSpaces, channels, objects, maps, ioMaps, vcpus, vm, slots>>
allVars == <<vars, xmlVars>>

Entity == PD \cup VM

XmlInit ==
  /\ Init
  /\ mrs = {} /\ ioSpaces = {} /\ objects = {}
  /\ channels = [c \in Chan |-> NoEnds]
  /\ maps = [e \in Entity |-> {}]
  /\ ioMaps = [s \in IOAS |-> {}]
  /\ vcpus = [v \in VM |-> <<>>]
  /\ vm = [p \in PD |-> NoVm]
  /\ slots = [p \in PD |-> {}]

\* The calls that have been made beside those on PDs.
Calls ==
  Cardinality(mrs) + Cardinality(ioSpaces) + Cardinality(objects)
    + Cardinality({c \in Chan : channels[c] # NoEnds})
    + Cardinality({x \in Entity \X MapArg : x[2] \in maps[x[1]]})
    + Cardinality({x \in IOAS \X IOMapArg : x[2] \in ioMaps[x[1]]})
    + Cardinality({x \in PD \X CapArg : x[2] \in slots[x[1]]})
    + Cardinality({p \in PD : vm[p] # NoVm})

\* System.microkit_alloc_allowed, asked by the constructors of regions, maps,
\* I/O maps, I/O address spaces and channels.
AllocAllowed == ~final

\* MemoryRegion(): registered with the system when nothing can fail any more.
NewRegion(m) ==
  /\ AllocAllowed
  /\ m \notin mrs
  /\ mrs' = mrs \cup {m}
  /\ UNCHANGED <<vars, ioSpaces, channels, objects, maps, ioMaps, vcpus, vm, slots>>

\* Map(mr, vaddr, permissions): nobody keeps it yet.
NewMap(a) ==
  /\ AllocAllowed
  /\ a.mr \in mrs /\ a \notin objects
  /\ a.perms # {"w"}
  /\ objects' = objects \cup {a}
  /\ UNCHANGED <<vars, mrs, ioSpaces, channels, maps, ioMaps, vcpus, vm, slots>>

NewIoMap(a) ==
  /\ AllocAllowed
  /\ a.mr \in mrs /\ a \notin objects
  /\ a.perms # {}
  /\ objects' = objects \cup {a}
  /\ UNCHANGED <<vars, mrs, ioSpaces, channels, maps, ioMaps, vcpus, vm, slots>>

\* IOAddressSpace().
NewIoSpace(s) ==
  /\ AllocAllowed
  /\ s \notin ioSpaces
  /\ ioSpaces' = ioSpaces \cup {s}
  /\ UNCHANGED <<vars, mrs, channels, objects, maps, ioMaps, vcpus, vm, slots>>

\* Channel() between p and q; see IdPool for what its identifiers need.
NewChannel(c, p, q) ==
  /\ AllocAllowed
  /\ channels[c] = NoEnds /\ p \in made /\ q \in made
  /\ channels' = [channels EXCEPT ![c] = <<p, q>>]
  /\ UNCHANGED <<vars, mrs, ioSpaces, objects, maps, ioMaps, vcpus, vm, slots>>

\* VirtualMachine(): every VCPU checks its own identifier, the machine that
\* they differ and are not too many.
NewVm(v, ids) ==
  /\ v \notin objects
  /\ \A i \in DOMAIN ids : ids[i] \in 0..MaxIds
  /\ Cardinality({ids[i] : i \in DOMAIN ids}) = Len(ids) /\ Len(ids) <= MaxIds
  /\ objects' = objects \cup {v} /\ vcpus' = [vcpus EXCEPT ![v] = ids]
  /\ UNCHANGED <<vars, mrs, ioSpaces, channels, maps, ioMaps, vm, slots>>

\* vaddr_in_map, and the test of add_map.
InMap(m, a) == m.vaddr <= a /\ a < m.vaddr + m.size
Accepts(e, a) == \A m \in maps[e] : ~InMap(m, a.vaddr) /\ ~InMap(m, a.vaddr + a.size)

\* Entity.add_map, also of a map that another entity has, and in a final system.
AddMap(e, a) ==
  /\ e \in made \cup objects /\ a \in objects
  /\ Accepts(e, a)
  /\ maps' = [maps EXCEPT ![e] = @ \cup {a}]
  /\ UNCHANGED <<vars, mrs, ioSpaces, channels, objects, ioMaps, vcpus, vm, slots>>

\* IOAddressSpace.add_io_map.
AddIoMap(s, a) ==
  /\ s \in ioSpaces /\ a \in objects \ ioMaps[s]
  /\ ioMaps' = [ioMaps EXCEPT ![s] = @ \cup {a}]
  /\ UNCHANGED <<vars, mrs, ioSpaces, channels, objects, maps, vcpus, vm, slots>>

\* p.add_vm(v): nothing asks whether another PD has it.
AddVm(p, v) ==
  /\ p \in made /\ v \in objects
  /\ vm[p] = NoVm
  /\ X86 => v \notin Scheduled
  /\ vm' = [vm EXCEPT ![p] = v]
  /\ UNCHANGED <<vars, mrs, ioSpaces, channels, objects, maps, ioMaps, vcpus, slots>>

\* Wrong on purpose: a slot that is occupied is written again.
AddCapMapAgain(p, c) ==
  /\ p \in made /\ c.obj \in made
  /\ c.slot >= 1
  /\ slots' = [slots EXCEPT ![p] = {d \in @ : d.slot # c.slot} \cup {c}]
  /\ UNCHANGED <<vars, mrs, ioSpaces, channels, objects, maps, ioMaps, vcpus, vm>>

\* p.add_cap_map(c), with the constructor of c, which no system knows of.
AddCapMap(p, c) ==
  /\ p \in made /\ c.obj \in made
  /\ c.slot >= 1
  /\ \A d \in slots[p] : d.slot # c.slot
  /\ slots' = [slots EXCEPT ![p] = @ \cup {c}]
  /\ UNCHANGED <<vars, mrs, ioSpaces, channels, objects, maps, ioMaps, vcpus, vm>>

Declare ==
  \/ \E m \in MR : NewRegion(m)
  \/ \E a \in MapArg : NewMap(a) \/ \E e \in Entity : AddMap(e, a)
  \/ \E a \in IOMapArg : NewIoMap(a) \/ \E s \in IOAS : AddIoMap(s, a)
  \/ \E s \in IOAS : NewIoSpace(s)
  \/ \E c \in Chan, p, q \in PD : NewChannel(c, p, q)
  \/ \E v \in VM, ids \in VcpuIds : NewVm(v, ids)
  \/ \E p \in PD, v \in VM : AddVm(p, v)
  \/ \E p \in PD, c \in CapArg : AddCapMap(p, c)

XmlNext ==
  \/ Next /\ UNCHANGED xmlVars
  \/ Calls < MaxCalls /\ Declare

XmlSpec == XmlInit /\ [][XmlNext]_allVars

-----------------------------------------------------------------------------
\* The elements System.render writes for the whole system, and those inside the
\* elements of PDs, machines and I/O address spaces, each with where it stands.

TopElements == mrs \cup ioSpaces \cup {c \in Chan : channels[c] # NoEnds}

\* The virtual machines that are written, with the PDs that have them.
Machines == {vm[p] : p \in Rendered} \ {NoVm}

\* What the element of a PD says of its children, of its machine and of its
\* capabilities, that of a PD or a machine of its maps, that of a machine of its
\* vCPUs, that of an I/O address space of its maps, and those of the channels.
SaidChildren(p) == {<<c, childId[c]>> : c \in children[p]}
SaidVms(p) == {vm[p]} \ {NoVm}
SaidCaps(p) == {<<c.slot, c.obj>> : c \in slots[p]}
SaidMaps(e) == {<<a.mr, a.vaddr, a.perms>> : a \in maps[e]}
SaidVcpus(v) == {<<i, vcpus[v][i]>> : i \in DOMAIN vcpus[v]}
SaidIoMaps(s) == {<<i.mr, i.perms>> : i \in ioMaps[s]}
SaidEnds == {<<c, channels[c]>> : c \in {d \in Chan : channels[d] # NoEnds}}

\* No PD is below itself, which add_child_pd does not ask (pd.py:411).
Forest == \A p \in PD : p \notin Descendants(p)

XmlTypeOK ==
  /\ mrs \subseteq MR /\ ioSpaces \subseteq IOAS /\ objects \subseteq MapArg \cup IOMapArg \cup VM
  /\ channels \in [Chan -> {NoEnds} \cup PD \X PD]
  /\ maps \in [Entity -> SUBSET MapArg] /\ ioMaps \in [IOAS -> SUBSET IOMapArg]
  /\ vcpus \in [VM -> {<<>>} \cup VcpuIds] /\ vm \in [PD -> VM \cup {NoVm}]
  /\ slots \in [PD -> SUBSET CapArg]

\* Unless a PD was put below itself, every PD is in the XML, and whatever a map,
\* an I/O map, a capability map or a channel of the XML names is in it as well
\* (pd.py:235, memory.py:43-45, system.py:264-292).
NothingMissing ==
  Forest =>
    /\ made \subseteq Rendered
    /\ \A e \in Rendered \cup Machines : \A a \in maps[e] : a.mr \in mrs
    /\ \A s \in ioSpaces : \A a \in ioMaps[s] : a.mr \in mrs
    /\ \A p \in Rendered : \A c \in slots[p] : c.obj \in Rendered
    /\ \A c \in Chan : channels[c] # NoEnds =>
         channels[c][1] \in Rendered /\ channels[c][2] \in Rendered

\* The XML and the config structs may be written by different terminal actions,
\* with declarations between them: although a final system is said to take no
\* more elements (system.py:252-253), PDs can still be made and given to parents,
\* also PDs of the top level, and what exists can be attached.  What the first
\* action said of a PD, a machine or an I/O address space (its children, maps,
\* machine, vCPUs, capabilities) the second one says as well if it writes it at
\* all; regions, I/O address spaces and channels are the same; and a PD is no
\* longer written only if a PD was put below itself (system.py:236-306,
\* pd.py:398-413).
SaidKept ==
  [][final =>
       /\ Rendered \subseteq Rendered' \/ ~Forest'
       /\ \A p \in Rendered \cap Rendered' :
            /\ SaidChildren(p) \subseteq SaidChildren(p)'
            /\ SaidVms(p) \subseteq SaidVms(p)' /\ SaidCaps(p) \subseteq SaidCaps(p)'
            /\ \A e \in {p} \cup SaidVms(p) : SaidMaps(e) \subseteq SaidMaps(e)'
            /\ \A v \in SaidVms(p) : SaidVcpus(v)' = SaidVcpus(v)
       /\ \A s \in ioSpaces : SaidIoMaps(s) \subseteq SaidIoMaps(s)'
       /\ SaidEnds' = SaidEnds /\ TopElements' = TopElements]_allVars
=============================================================================
