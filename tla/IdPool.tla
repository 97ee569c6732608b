-------------------------------- MODULE IdPool --------------------------------
(***************************************************************************)
(* The identifiers a ProtectionDomain hands out, and the channels and      *)
(* interrupts that hold them.                                              *)
(*                                                                         *)
(* allocate_id serves interrupts and channel ends from one pool per PD; it *)
(* keeps no table but looks through the PD's interrupts and the System's   *)
(* channels every time, so that an identifier is taken from the moment its *)
(* holder is registered, and no earlier.  I/O ports have a pool of their   *)
(* own.  The objects that hold identifiers exist before they are           *)
(* registered, may come with an identifier of the user's choice, may be    *)
(* handed in twice, and keep what a failed constructor wrote into them.    *)
(*                                                                         *)
(* Channel() also checks that a protected procedure call goes to a PD of   *)
(* higher priority, once, when the channel is made.                        *)
(***************************************************************************)
EXTENDS Integers, FiniteSets

CONSTANTS
    PD,             \* protection domains
    End,            \* Channel.End objects
    Irq,            \* IRQ objects
    IoPort,         \* IOPort objects
    EndPd,          \* End.pd, per end
    CanPp,          \* the ends with can_pp
    CanNotify,      \* the ends with can_notify
    MaxIds,         \* MAX_IDS
    ReqId,          \* identifiers a user may ask for
    Priority,       \* priorities a PD may have
    PriorityMoves   \* whether the metaprogram changes a PD's priority later

None == -1          \* an id or a priority that was not given

ASSUME MaxIdsAssumption == MaxIds \in Nat
ASSUME ReqIdAssumption == ReqId \subseteq Nat
ASSUME EndAssumption ==
    EndPd \in [End -> PD] /\ CanPp \subseteq End /\ CanNotify \subseteq End
ASSUME PriorityAssumption == Priority \subseteq Nat /\ PriorityMoves \in BOOLEAN

VARIABLES
    irqs,       \* ProtectionDomain.irqs
    irqId,      \* IRQ.id
    channels,   \* System.channels, as pairs of ends
    endId,      \* End.ch_id
    ports,      \* ProtectionDomain.ioports
    portId,     \* IOPort.id
    prio,       \* ProtectionDomain.priority
    final       \* System.state is FINAL

poolVars == <<irqs, irqId, channels, endId>>
vars == <<irqs, irqId, channels, endId, ports, portId, prio, final>>

PoolId == 0 .. MaxIds - 1
Id == PoolId \cup ReqId

EndsOf(c) == {c[1], c[2]}
Registered == UNION {EndsOf(c) : c \in channels}

\* Wrong on purpose: forgets that interrupts share the pool with channels.
UsedNoIrqs(pd) == {endId[e] : e \in {f \in Registered : EndPd[f] = pd}}

\* assigned_ids in allocate_id.
Used(pd) == {irqId[i] : i \in irqs[pd]}
                \cup {endId[e] : e \in {f \in Registered : EndPd[f] = pd}}

UsedPorts(pd) == {portId[p] : p \in ports[pd]}

\* Wrong on purpose: any free identifier instead of the smallest.
GrantsAny(used, req, id) ==
    IF req # None THEN id = req /\ req \notin used ELSE id \in PoolId \ used

\* id is what a pool with the given identifiers in use answers to a request:
\* the requested one if it is not in use, or the smallest free one.
Grants(used, req, id) ==
    IF req # None
    THEN id = req /\ req \notin used
    ELSE id \in PoolId /\ id \notin used /\ \A j \in 0 .. id - 1 : j \in used

\* The call raises: the request is in use, or the pool is empty.
Refuses(used, req) ==
    IF req # None THEN req \in used ELSE PoolId \subseteq used

-----------------------------------------------------------------------------
Init ==
    /\ irqs = [pd \in PD |-> {}]
    /\ irqId \in [Irq -> ReqId \cup {None}]
    /\ channels = {}
    /\ endId \in [End -> ReqId \cup {None}]
    /\ ports = [pd \in PD |-> {}]
    /\ portId \in [IoPort -> ReqId \cup {None}]
    /\ prio \in [PD -> Priority \cup {None}]
    /\ final = FALSE

\* Wrong on purpose: allocates without looking at the IRQ's own identifier.
AddIrqFresh(pd, i) ==
    /\ ~final
    /\ i \notin irqs[pd]
    /\ \E id \in Id :
          /\ Grants(Used(pd), None, id)
          /\ irqId' = [irqId EXCEPT ![i] = id]
    /\ irqs' = [irqs EXCEPT ![pd] = @ \cup {i}]
    /\ UNCHANGED <<channels, endId, ports, portId, prio, final>>

\* Wrong on purpose: the next identifier is the number of those in use.
AddIrqCounts(pd, i) ==
    /\ ~final
    /\ i \notin irqs[pd]
    /\ LET id == IF irqId[i] # None THEN irqId[i] ELSE Cardinality(Used(pd)) IN
          /\ id \notin Used(pd)
          /\ irqId' = [irqId EXCEPT ![i] = id]
    /\ irqs' = [irqs EXCEPT ![pd] = @ \cup {i}]
    /\ UNCHANGED <<channels, endId, ports, portId, prio, final>>

\* ProtectionDomain.add_irq; allocate_id refuses once the System is FINAL.
\* The same IRQ object may have been added to another PD before.
AddIrq(pd, i) ==
    /\ ~final
    /\ i \notin irqs[pd]
    /\ \E id \in Id :
          /\ Grants(Used(pd), irqId[i], id)
          /\ irqId' = [irqId EXCEPT ![i] = id]
    /\ irqs' = [irqs EXCEPT ![pd] = @ \cup {i}]
    /\ UNCHANGED <<channels, endId, ports, portId, prio, final>>

\* A protected procedure call from a to b goes to a higher priority.  Without
\* a priority on either side the comparison raises.
PpcAllowed(a, b) ==
    a \in CanPp => /\ prio[EndPd[a]] # None
                   /\ prio[EndPd[b]] # None
                   /\ prio[EndPd[a]] < prio[EndPd[b]]

\* Wrong on purpose: only one direction of the channel is checked.
ChannelAllowedOneWay(a, b) ==
    /\ ~final
    /\ PpcAllowed(a, b)
    /\ {a, b} \cap (CanNotify \cup CanPp) # {}

\* The checks of Channel.__init__ before it allocates.
ChannelAllowed(a, b) ==
    /\ ~final
    /\ PpcAllowed(a, b)
    /\ PpcAllowed(b, a)
    /\ {a, b} \cap (CanNotify \cup CanPp) # {}

\* end_b is served after end_a has its identifier, which matters when both
\* are one object; the channel is registered only after that.
RequestB(a, b, idA) == IF b = a THEN idA ELSE endId[b]

\* Channel(sdf, a, b)
NewChannel(a, b) ==
    /\ ChannelAllowed(a, b)
    /\ \E idA, idB \in Id :
          /\ Grants(Used(EndPd[a]), endId[a], idA)
          /\ Grants(Used(EndPd[b]), RequestB(a, b, idA), idB)
          /\ endId' = [endId EXCEPT ![a] = idA, ![b] = idB]
    /\ channels' = channels \cup {<<a, b>>}
    /\ UNCHANGED <<irqs, irqId, ports, portId, prio, final>>

\* Channel(sdf, a, b) raises for end_b: no channel, but end_a keeps its id.
NewChannelFails(a, b) ==
    /\ ChannelAllowed(a, b)
    /\ \E idA \in Id :
          /\ Grants(Used(EndPd[a]), endId[a], idA)
          /\ Refuses(Used(EndPd[b]), RequestB(a, b, idA))
          /\ endId' = [endId EXCEPT ![a] = idA]
    /\ UNCHANGED <<irqs, irqId, channels, ports, portId, prio, final>>

\* Wrong on purpose: numbers the ports of a PD by counting them.
AddIoPortCounts(pd, p) ==
    /\ portId[p] # None => ~final
    /\ \E id \in Id :
          /\ id = IF portId[p] = None THEN Cardinality(ports[pd]) ELSE portId[p]
          /\ portId' = [portId EXCEPT ![p] = id]
    /\ ports' = [ports EXCEPT ![pd] = @ \cup {p}]
    /\ UNCHANGED <<poolVars, prio, final>>

\* ProtectionDomain.add_ioport: only a request is refused in the FINAL state.
AddIoPort(pd, p) ==
    /\ portId[p] # None => ~final
    /\ \E id \in Id :
          /\ Grants(UsedPorts(pd), portId[p], id)
          /\ portId' = [portId EXCEPT ![p] = id]
    /\ ports' = [ports EXCEPT ![pd] = @ \cup {p}]
    /\ UNCHANGED <<poolVars, prio, final>>

\* The metaprogram assigns pd.scheduling after the PD has been created.
SetPriority(pd, p) ==
    /\ PriorityMoves
    /\ prio[pd] # p
    /\ prio' = [prio EXCEPT ![pd] = p]
    /\ UNCHANGED <<poolVars, ports, portId, final>>

\* A terminal action has completed.
Finalise ==
    /\ ~final
    /\ final' = TRUE
    /\ UNCHANGED <<poolVars, ports, portId, prio>>

Next ==
    \/ \E pd \in PD, i \in Irq : AddIrq(pd, i)
    \/ \E a, b \in End : NewChannel(a, b) \/ NewChannelFails(a, b)
    \/ \E pd \in PD, p \in IoPort : AddIoPort(pd, p)
    \/ \E pd \in PD, p \in Priority : SetPriority(pd, p)
    \/ Finalise

Spec == Init /\ [][Next]_vars

-----------------------------------------------------------------------------
(* Invariants.                                                             *)

TypeOK ==
    /\ irqs \in [PD -> SUBSET Irq]
    /\ irqId \in [Irq -> Id \cup {None}]
    /\ channels \subseteq End \X End
    /\ endId \in [End -> Id \cup {None}]
    /\ ports \in [PD -> SUBSET IoPort]
    /\ portId \in [IoPort -> Id \cup {None}]
    /\ prio \in [PD -> Priority \cup {None}]
    /\ final \in BOOLEAN

\* Identifiers in the pool of one PD differ, even if objects are shared between
\* PDs, handed in twice or left over from a failed Channel() (pd.py:326-367,
\* channel.py:94-99), with one exception: the two ends of one channel inside a
\* PD.  Neither is registered when the other is served (channel.py:94-96), so
\* that they get the same identifier unless they ask for different ones.
IrqIdsUnique ==
    \A pd \in PD : \A i, j \in irqs[pd] : i # j => irqId[i] # irqId[j]

IrqAndChannelIdsUnique ==
    \A pd \in PD : \A i \in irqs[pd], e \in Registered :
        EndPd[e] = pd => irqId[i] # endId[e]

ChannelIdsUnique ==
    \A c, d \in channels : \A e \in EndsOf(c), f \in EndsOf(d) :
        EndPd[e] = EndPd[f] /\ endId[e] = endId[f] => c = d

HoldersHaveIds ==
    /\ \A pd \in PD : \A i \in irqs[pd] : irqId[i] # None
    /\ \A e \in Registered : endId[e] # None

UniqueIds ==
    IrqIdsUnique /\ IrqAndChannelIdsUnique /\ ChannelIdsUnique /\ HoldersHaveIds

\* Two I/O ports of one PD never have the same identifier, whether it was
\* requested, counted up or came along from another PD (pd.py:369-388).
PortIdsUnique ==
    \A pd \in PD : \A p, q \in ports[pd] :
        /\ portId[p] # None
        /\ p # q => portId[p] # portId[q]

\* When nobody asks for identifiers and no IRQ object is shared between PDs,
\* identifiers are handed out without a hole: a failed Channel() does not lose
\* the one it gave to its first end (pd.py:355, channel.py:94-99).
NoIdLost ==
    /\ ReqId = {}
    /\ \A pd, qd \in PD : pd # qd => irqs[pd] \cap irqs[qd] = {}
    => \A pd \in PD : \A id \in Used(pd) : \A j \in 0 .. id - 1 : j \in Used(pd)

\* No chain of protected procedure calls comes back to the PD it started
\* from, so that no set of PDs can wait on itself (channel.py:75-83).
Calls == {<<EndPd[c[1]], EndPd[c[2]]>> : c \in {d \in channels : d[1] \in CanPp}}
           \cup {<<EndPd[c[2]], EndPd[c[1]]>> : c \in {d \in channels : d[2] \in CanPp}}
PpcAcyclic ==
    \A S \in (SUBSET PD) \ {{}} :
        \E p \in S : \A q \in S : <<p, q>> \notin Calls

-----------------------------------------------------------------------------
(* Properties of steps.                                                    *)

\* A registered holder never changes its identifier: config structs and XML
\* read it at different times (pd.py:326-388, channel.py:120-134).
IdsKept ==
    [][/\ \A pd \in PD : \A i \in irqs[pd] : irqId'[i] = irqId[i]
       /\ \A e \in Registered : endId'[e] = endId[e]
       /\ \A pd \in PD : \A p \in ports[pd] : portId'[p] = portId[p]]_vars
=============================================================================
