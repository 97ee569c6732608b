---------------------------- MODULE IdPoolProofs ----------------------------
(***************************************************************************)
(* Proofs about IdPool for every set of PDs, ends, interrupts and ports,   *)
(* every MAX_IDS and every set of requested identifiers.                   *)
(*                                                                         *)
(* The invariant is TypeOK with UniqueIds and PortIdsUnique.  What makes   *)
(* it inductive is HoldersHaveIds: an object that is registered somewhere  *)
(* holds an identifier, so handing it in again is a request for that       *)
(* identifier, which either leaves it unchanged or is refused.             *)
(*                                                                         *)
(* NothingLost is about requests that nobody makes.  An end whose channel  *)
(* failed keeps its identifier and takes it again later (DenseInv): until  *)
(* then everything below that one is in use, for ever.                     *)
(***************************************************************************)
EXTENDS IdPool, Arithmetic, TLAPS

PoolInv == TypeOK /\ UniqueIds /\ PortIdsUnique

-----------------------------------------------------------------------------
(* What the pool answers.                                                  *)

\* A granted identifier was not in use, and it is the requested one if there
\* was a request.
LEMMA Granted ==
    ASSUME NEW used, NEW req, NEW id \in Id, Grants(used, req, id)
    PROVE  /\ id \notin used
           /\ req # None => id = req
           /\ id # None
<1>1. id # None
  BY ReqIdAssumption, MaxIdsAssumption DEF Id, PoolId, None
<1> QED
  BY <1>1 DEF Grants

\* An end that Channel() accepts is in no channel yet: if it were, its own
\* identifier would be in use.
LEMMA AcceptedEnd ==
    ASSUME PoolInv, NEW e \in End, NEW id \in Id,
           Grants(Used(EndPd[e]), endId[e], id)
    PROVE  e \notin Registered
<1> SUFFICES ASSUME e \in Registered PROVE FALSE
  OBVIOUS
<1>1. endId[e] # None
  BY DEF PoolInv, UniqueIds, HoldersHaveIds
<1>2. endId[e] \in Used(EndPd[e])
  BY DEF Used
<1> QED
  BY <1>1, <1>2 DEF Grants

-----------------------------------------------------------------------------
(* One lemma per action.                                                   *)

LEMMA AddIrqStep ==
    ASSUME PoolInv, NEW pd \in PD, NEW i \in Irq, AddIrq(pd, i)
    PROVE  /\ PoolInv'
           /\ \A qd \in PD : \A j \in irqs[qd] : irqId'[j] = irqId[j]
<1>1. PICK id \in Id : /\ Grants(Used(pd), irqId[i], id)
                       /\ irqId' = [irqId EXCEPT ![i] = id]
  BY DEF AddIrq
<1>2. /\ i \notin irqs[pd] /\ irqs' = [irqs EXCEPT ![pd] = @ \cup {i}]
      /\ UNCHANGED <<channels, endId, ports, portId, prio, final>>
  BY DEF AddIrq
<1>3. id \notin Used(pd) /\ id # None /\ (irqId[i] # None => id = irqId[i])
  BY <1>1, Granted
<1>4. TypeOK
  BY DEF PoolInv
<1>5. /\ irqId'[i] = id /\ \A j \in Irq : j # i => irqId'[j] = irqId[j]
      /\ irqs'[pd] = irqs[pd] \cup {i} /\ \A qd \in PD : qd # pd => irqs'[qd] = irqs[qd]
      /\ \A qd \in PD : irqs[qd] \subseteq Irq
  BY <1>1, <1>2, <1>4 DEF TypeOK
<1>6. \A qd \in PD : \A j \in irqs[qd] : irqId'[j] = irqId[j]
  <2> SUFFICES ASSUME NEW qd \in PD, NEW j \in irqs[qd] PROVE irqId'[j] = irqId[j]
    OBVIOUS
  <2>1. irqId[j] # None
    BY DEF PoolInv, UniqueIds, HoldersHaveIds
  <2> QED
    BY <2>1, <1>3, <1>5
<1>7. TypeOK'
  BY <1>1, <1>2, <1>4 DEF TypeOK
<1>8. IrqIdsUnique'
  <2> SUFFICES ASSUME NEW qd \in PD, NEW j \in irqs'[qd], NEW k \in irqs'[qd], j # k
               PROVE  irqId'[j] # irqId'[k]
    BY DEF IrqIdsUnique
  <2>1. CASE j \in irqs[qd] /\ k \in irqs[qd]
    BY <2>1, <1>6 DEF PoolInv, UniqueIds, IrqIdsUnique
  <2>2. CASE qd = pd /\ j = i /\ k \in irqs[pd]
    BY <2>2, <1>3, <1>5, <1>6 DEF Used
  <2>3. CASE qd = pd /\ k = i /\ j \in irqs[pd]
    BY <2>3, <1>3, <1>5, <1>6 DEF Used
  <2> QED
    BY <2>1, <2>2, <2>3, <1>5
<1>9. IrqAndChannelIdsUnique'
  <2> SUFFICES ASSUME NEW qd \in PD, NEW j \in irqs'[qd], NEW e \in Registered, EndPd[e] = qd
               PROVE  irqId'[j] # endId[e]
    BY <1>2 DEF IrqAndChannelIdsUnique, Registered
  <2>1. CASE j \in irqs[qd]
    BY <2>1, <1>6 DEF PoolInv, UniqueIds, IrqAndChannelIdsUnique
  <2>2. CASE qd = pd /\ j = i
    BY <2>2, <1>3, <1>5 DEF Used
  <2> QED
    BY <2>1, <2>2, <1>5
<1>10. ChannelIdsUnique' /\ PortIdsUnique'
  BY <1>2 DEF PoolInv, UniqueIds, ChannelIdsUnique, PortIdsUnique
<1>11. HoldersHaveIds'
  <2>1. \A qd \in PD : \A j \in irqs'[qd] : irqId'[j] # None
    BY <1>3, <1>5, <1>6 DEF PoolInv, UniqueIds, HoldersHaveIds
  <2> QED
    BY <2>1, <1>2 DEF PoolInv, UniqueIds, HoldersHaveIds, Registered
<1> QED
  BY <1>6, <1>7, <1>8, <1>9, <1>10, <1>11 DEF PoolInv, UniqueIds

\* Ends in no channel can get any identifier without disturbing the pool.
LEMMA NewChannelFailsStep ==
    ASSUME PoolInv, NEW a \in End, NEW b \in End, NewChannelFails(a, b)
    PROVE  PoolInv' /\ \A e \in Registered : endId'[e] = endId[e]
<1>1. PICK id \in Id : /\ Grants(Used(EndPd[a]), endId[a], id)
                       /\ endId' = [endId EXCEPT ![a] = id]
  BY DEF NewChannelFails
<1>2. UNCHANGED <<irqs, irqId, channels, ports, portId, prio, final>>
  BY DEF NewChannelFails
<1>3. a \notin Registered
  BY <1>1, AcceptedEnd
<1>4. Registered \subseteq End
  BY DEF PoolInv, TypeOK, Registered, EndsOf
<1>5. \A e \in Registered : endId'[e] = endId[e]
  BY <1>1, <1>3, <1>4 DEF PoolInv, TypeOK
<1>6. TypeOK'
  BY <1>1, <1>2 DEF PoolInv, TypeOK
<1>7. Registered' = Registered
  BY <1>2 DEF Registered
<1>8. IrqIdsUnique' /\ PortIdsUnique'
  BY <1>2 DEF PoolInv, UniqueIds, IrqIdsUnique, PortIdsUnique
<1>9. IrqAndChannelIdsUnique' /\ HoldersHaveIds'
  BY <1>2, <1>5, <1>7 DEF PoolInv, UniqueIds, IrqAndChannelIdsUnique, HoldersHaveIds
<1>10. ChannelIdsUnique'
  <2>1. \A c \in channels : EndsOf(c) \subseteq Registered
    BY DEF Registered
  <2> QED
    BY <1>2, <1>5, <2>1 DEF PoolInv, UniqueIds, ChannelIdsUnique
<1> QED
  BY <1>5, <1>6, <1>8, <1>9, <1>10 DEF PoolInv, UniqueIds

LEMMA NewChannelStep ==
    ASSUME PoolInv, NEW a \in End, NEW b \in End, NewChannel(a, b)
    PROVE  PoolInv' /\ \A e \in Registered : endId'[e] = endId[e]
<1>1. PICK idA \in Id, idB \in Id :
          /\ Grants(Used(EndPd[a]), endId[a], idA)
          /\ Grants(Used(EndPd[b]), RequestB(a, b, idA), idB)
          /\ endId' = [endId EXCEPT ![a] = idA, ![b] = idB]
  BY DEF NewChannel
<1>2. /\ channels' = channels \cup {<<a, b>>}
      /\ UNCHANGED <<irqs, irqId, ports, portId, prio, final>>
  BY DEF NewChannel
<1>3. /\ idA \notin Used(EndPd[a]) /\ idA # None
      /\ idB \notin Used(EndPd[b]) /\ idB # None
  BY <1>1, Granted
<1>4. a \notin Registered
  BY <1>1, AcceptedEnd
<1>5. b \notin Registered
  <2>1. CASE b = a
    BY <2>1, <1>4
  <2>2. CASE b # a
    BY <2>2, <1>1, AcceptedEnd DEF RequestB
  <2> QED
    BY <2>1, <2>2
<1>6. TypeOK
  BY DEF PoolInv
<1>7. Registered \subseteq End
  BY <1>6 DEF TypeOK, Registered, EndsOf
<1>8. \A e \in Registered : endId'[e] = endId[e]
  BY <1>1, <1>4, <1>5, <1>6, <1>7 DEF TypeOK
<1>9. \A e \in {a, b} : endId'[e] \notin Used(EndPd[e]) /\ endId'[e] # None
  <2>1. endId'[b] = idB
    BY <1>1, <1>6 DEF TypeOK
  <2>2. b # a => endId'[a] = idA
    BY <1>1, <1>6 DEF TypeOK
  <2> QED
    BY <2>1, <2>2, <1>3
<1>10. Registered' = Registered \cup {a, b}
  <2>1. EndsOf(<<a, b>>) = {a, b}
    BY DEF EndsOf
  <2>2. \A e : e \in Registered <=> \E c \in channels : e \in EndsOf(c)
    BY DEF Registered
  <2>3. \A e : e \in Registered' <=> \E c \in channels' : e \in EndsOf(c)
    BY DEF Registered
  <2>4. \A e : e \in Registered' <=> e \in Registered \/ e \in EndsOf(<<a, b>>)
    BY <1>2, <2>2, <2>3, Zenon
  <2> QED
    BY <2>1, <2>4
<1>11. TypeOK'
  BY <1>1, <1>2, <1>6 DEF TypeOK
<1>12. IrqIdsUnique' /\ PortIdsUnique'
  BY <1>2 DEF PoolInv, UniqueIds, IrqIdsUnique, PortIdsUnique
<1>13. IrqAndChannelIdsUnique'
  <2> SUFFICES ASSUME NEW pd \in PD, NEW i \in irqs[pd], NEW e \in Registered', EndPd[e] = pd
               PROVE  irqId[i] # endId'[e]
    BY <1>2 DEF IrqAndChannelIdsUnique
  <2>1. CASE e \in Registered
    BY <2>1, <1>8 DEF PoolInv, UniqueIds, IrqAndChannelIdsUnique
  <2>2. CASE e \in {a, b}
    BY <2>2, <1>9 DEF Used
  <2> QED
    BY <2>1, <2>2, <1>10
<1>14. ChannelIdsUnique'
  <2> SUFFICES ASSUME NEW c \in channels', NEW d \in channels',
                      NEW e \in EndsOf(c), NEW f \in EndsOf(d),
                      c # d, EndPd[e] = EndPd[f]
               PROVE  e # f /\ endId'[e] # endId'[f]
    BY DEF ChannelIdsUnique
  <2>1. \A g \in channels : EndsOf(g) \subseteq Registered
    BY DEF Registered
  <2>2. EndsOf(<<a, b>>) = {a, b}
    BY DEF EndsOf
  <2>3. CASE c \in channels /\ d \in channels
    BY <2>1, <2>3, <1>8 DEF PoolInv, UniqueIds, ChannelIdsUnique
  <2>4. CASE c \in channels /\ d = <<a, b>>
    <3>1. e \in Registered /\ f \in {a, b} /\ endId[e] \in Used(EndPd[e])
      BY <2>1, <2>2, <2>4 DEF Used
    <3> QED
      BY <3>1, <1>4, <1>5, <1>8, <1>9
  <2>5. CASE d \in channels /\ c = <<a, b>>
    <3>1. f \in Registered /\ e \in {a, b} /\ endId[f] \in Used(EndPd[f])
      BY <2>1, <2>2, <2>5 DEF Used
    <3> QED
      BY <3>1, <1>4, <1>5, <1>8, <1>9
  <2> QED
    BY <2>3, <2>4, <2>5, <1>2
<1>15. HoldersHaveIds'
  BY <1>2, <1>8, <1>9, <1>10 DEF PoolInv, UniqueIds, HoldersHaveIds
<1> QED
  BY <1>8, <1>11, <1>12, <1>13, <1>14, <1>15 DEF PoolInv, UniqueIds

LEMMA AddIoPortStep ==
    ASSUME PoolInv, NEW pd \in PD, NEW p \in IoPort, AddIoPort(pd, p)
    PROVE  PoolInv' /\ \A qd \in PD : \A q \in ports[qd] : portId'[q] = portId[q]
<1>1. PICK id \in Id : /\ Grants(UsedPorts(pd), portId[p], id)
                       /\ portId' = [portId EXCEPT ![p] = id]
  BY DEF AddIoPort
<1>2. /\ ports' = [ports EXCEPT ![pd] = @ \cup {p}]
      /\ UNCHANGED <<irqs, irqId, channels, endId, prio, final>>
  BY DEF AddIoPort, poolVars
<1>3. id \notin UsedPorts(pd) /\ id # None /\ (portId[p] # None => id = portId[p])
  BY <1>1, Granted
<1>4. TypeOK
  BY DEF PoolInv
<1>5. /\ portId'[p] = id /\ \A q \in IoPort : q # p => portId'[q] = portId[q]
      /\ ports'[pd] = ports[pd] \cup {p} /\ \A qd \in PD : qd # pd => ports'[qd] = ports[qd]
      /\ \A qd \in PD : ports[qd] \subseteq IoPort
  BY <1>1, <1>2, <1>4 DEF TypeOK
<1>6. \A qd \in PD : \A q \in ports[qd] : portId'[q] = portId[q]
  <2> SUFFICES ASSUME NEW qd \in PD, NEW q \in ports[qd] PROVE portId'[q] = portId[q]
    OBVIOUS
  <2>1. portId[q] # None
    BY DEF PoolInv, PortIdsUnique
  <2> QED
    BY <2>1, <1>3, <1>5
<1>7. PortIdsUnique'
  <2> SUFFICES ASSUME NEW qd \in PD, NEW q \in ports'[qd], NEW r \in ports'[qd]
               PROVE  portId'[q] # None /\ (q # r => portId'[q] # portId'[r])
    BY DEF PortIdsUnique
  <2>1. CASE q \in ports[qd] /\ r \in ports[qd]
    BY <2>1, <1>6 DEF PoolInv, PortIdsUnique
  <2>2. CASE qd = pd /\ q = p
    BY <2>2, <1>3, <1>5, <1>6 DEF UsedPorts
  <2>3. CASE qd = pd /\ r = p /\ q \in ports[pd]
    BY <2>3, <1>3, <1>5, <1>6 DEF UsedPorts, PoolInv, PortIdsUnique
  <2> QED
    BY <2>1, <2>2, <2>3, <1>5
<1>8. TypeOK'
  BY <1>1, <1>2, <1>4 DEF TypeOK
<1>9. UniqueIds'
  BY <1>2 DEF PoolInv, UniqueIds, IrqIdsUnique, IrqAndChannelIdsUnique,
              ChannelIdsUnique, HoldersHaveIds, Registered
<1> QED
  BY <1>6, <1>7, <1>8, <1>9 DEF PoolInv

-----------------------------------------------------------------------------
(* The theorems.                                                           *)

\* Every step keeps the invariant, and the identifiers of registered holders.
LEMMA PoolStep ==
    ASSUME PoolInv, [Next]_vars
    PROVE  /\ PoolInv'
           /\ \A pd \in PD : \A i \in irqs[pd] : irqId'[i] = irqId[i]
           /\ \A e \in Registered : endId'[e] = endId[e]
           /\ \A pd \in PD : \A p \in ports[pd] : portId'[p] = portId[p]
<1>1. ASSUME NEW pd \in PD, NEW i \in Irq, AddIrq(pd, i)
      PROVE  PoolInv' /\ (\A qd \in PD : \A j \in irqs[qd] : irqId'[j] = irqId[j])
             /\ UNCHANGED <<endId, portId>>
  BY <1>1, AddIrqStep DEF AddIrq
<1>2. ASSUME NEW a \in End, NEW b \in End, NewChannel(a, b) \/ NewChannelFails(a, b)
      PROVE  PoolInv' /\ (\A e \in Registered : endId'[e] = endId[e])
             /\ UNCHANGED <<irqId, portId>>
  BY <1>2, NewChannelStep, NewChannelFailsStep DEF NewChannel, NewChannelFails
<1>3. ASSUME NEW pd \in PD, NEW p \in IoPort, AddIoPort(pd, p)
      PROVE  PoolInv' /\ (\A qd \in PD : \A q \in ports[qd] : portId'[q] = portId[q])
             /\ UNCHANGED <<irqId, endId>>
  BY <1>3, AddIoPortStep DEF AddIoPort, poolVars
<1>4. ASSUME \/ \E pd \in PD, p \in Priority : SetPriority(pd, p)
             \/ Finalise
             \/ UNCHANGED vars
      PROVE  PoolInv' /\ UNCHANGED <<irqId, endId, portId>>
  <2>1. UNCHANGED <<irqs, irqId, channels, endId, ports, portId>>
    BY <1>4 DEF SetPriority, Finalise, vars, poolVars
  <2>2. TypeOK'
    <3>1. prio' \in [PD -> Priority \cup {None}]
      BY <1>4 DEF PoolInv, TypeOK, SetPriority, Finalise, vars
    <3>2. final' \in BOOLEAN
      BY <1>4 DEF PoolInv, TypeOK, SetPriority, Finalise, vars
    <3> QED
      BY <2>1, <3>1, <3>2 DEF PoolInv, TypeOK
  <2>3. UniqueIds' /\ PortIdsUnique'
    BY <2>1 DEF PoolInv, UniqueIds, IrqIdsUnique, IrqAndChannelIdsUnique,
                ChannelIdsUnique, HoldersHaveIds, PortIdsUnique, Registered
  <2> QED
    BY <2>1, <2>2, <2>3 DEF PoolInv
<1> QED
  BY <1>1, <1>2, <1>3, <1>4 DEF Next

\* Nothing is registered at first.
LEMMA PoolInit == Init => PoolInv
<1> SUFFICES ASSUME Init PROVE PoolInv
  OBVIOUS
<1>1. Registered = {} /\ \A pd \in PD : irqs[pd] = {} /\ ports[pd] = {}
  BY DEF Init, Registered
<1>2. TypeOK
  BY DEF Init, TypeOK, Id
<1>3. UniqueIds /\ PortIdsUnique
  BY <1>1 DEF Init, UniqueIds, IrqIdsUnique, IrqAndChannelIdsUnique,
              ChannelIdsUnique, HoldersHaveIds, PortIdsUnique
<1> QED
  BY <1>2, <1>3 DEF PoolInv

\* The invariant holds in every state of every instance.
THEOREM PoolInvariant == Spec => []PoolInv
  BY PoolInit, PoolStep, PTL DEF Spec

\* Interrupts and ends in one PD's pool that have the same identifier are one
\* interrupt, or ends of one channel (pd.py:326-367, channel.py:94-99).
THEOREM HoldersDiffer == Spec => []UniqueIds
<1>1. PoolInv => UniqueIds
  BY DEF PoolInv
<1> QED
  BY <1>1, PoolInvariant, PTL

\* Different I/O ports of one PD never share an identifier (pd.py:369-388).
THEOREM PortsDiffer == Spec => []PortIdsUnique
<1>1. PoolInv => PortIdsUnique
  BY DEF PoolInv
<1> QED
  BY <1>1, PoolInvariant, PTL

\* A registered holder keeps its identifier for ever.
THEOREM HoldersKeepIds == Spec => IdsKept
<1>1. PoolInv /\ [Next]_vars =>
        [/\ \A pd \in PD : \A i \in irqs[pd] : irqId'[i] = irqId[i]
         /\ \A e \in Registered : endId'[e] = endId[e]
         /\ \A pd \in PD : \A p \in ports[pd] : portId'[p] = portId[p]]_vars
  BY PoolStep
<1> QED
  BY <1>1, PoolInvariant, PTL DEF Spec, IdsKept

\* Every PD, interrupt, port and channel end keeps its kind of identifiers.
THEOREM PoolTypes == Spec => []TypeOK
<1>1. PoolInv => TypeOK
  BY DEF PoolInv
<1> QED
  BY <1>1, PoolInvariant, PTL

-----------------------------------------------------------------------------
(* Protected procedure calls.                                              *)

\* Calls ascend, and as there are finitely many, under some bound.
Ascends(a, b) == a \in CanPp => /\ prio[EndPd[a]] \in Nat /\ prio[EndPd[b]] \in Nat
                                /\ prio[EndPd[a]] < prio[EndPd[b]]
CallsAscend == \A c \in channels : Ascends(c[1], c[2]) /\ Ascends(c[2], c[1])
CallsBounded ==
    \E b \in Nat : \A c \in channels :
        (c[1] \in CanPp \/ c[2] \in CanPp) => prio[EndPd[c[1]]] <= b /\ prio[EndPd[c[2]]] <= b
PpcInv == PoolInv /\ CallsAscend /\ CallsBounded

LEMMA AllowedAscends ==
    ASSUME TypeOK, NEW a \in End, NEW b \in End, PpcAllowed(a, b)
    PROVE  Ascends(a, b)
  BY EndAssumption, PriorityAssumption DEF PpcAllowed, Ascends, TypeOK

\* A new channel goes upwards, and raises the bound.
LEMMA NewChannelAscends ==
    ASSUME PpcInv, NEW a \in End, NEW b \in End, NewChannel(a, b)
    PROVE  CallsAscend' /\ CallsBounded'
<1>1. channels' = channels \cup {<<a, b>>} /\ prio' = prio
  BY DEF NewChannel
<1>2. Ascends(a, b) /\ Ascends(b, a)
  BY AllowedAscends DEF NewChannel, ChannelAllowed, PpcInv, PoolInv
<1>3. \A c \in channels' : Ascends(c[1], c[2]) /\ Ascends(c[2], c[1])
  BY <1>1, <1>2 DEF PpcInv, CallsAscend
<1>4. CallsAscend'
  BY <1>1, <1>3 DEF CallsAscend, Ascends
<1>5. PICK n \in Nat : \A c \in channels :
        (c[1] \in CanPp \/ c[2] \in CanPp) => prio[EndPd[c[1]]] <= n /\ prio[EndPd[c[2]]] <= n
  BY DEF PpcInv, CallsBounded
<1>6. CASE a \in CanPp \/ b \in CanPp
  <2>1. prio[EndPd[a]] \in Nat /\ prio[EndPd[b]] \in Nat
    BY <1>2, <1>6 DEF Ascends
  <2> DEFINE m == n + prio[EndPd[a]] + prio[EndPd[b]]
  <2>2. m \in Nat /\ n <= m /\ prio[EndPd[a]] <= m /\ prio[EndPd[b]] <= m
    BY <2>1
  <2> HIDE DEF m
  <2>3. ASSUME NEW c \in channels', c[1] \in CanPp \/ c[2] \in CanPp
        PROVE  prio[EndPd[c[1]]] <= m /\ prio[EndPd[c[2]]] <= m
    <3>1. CASE c = <<a, b>>
      BY <2>2, <3>1
    <3>2. CASE c \in channels
      <4>1. prio[EndPd[c[1]]] \in Nat /\ prio[EndPd[c[2]]] \in Nat
        BY <2>3, <3>2 DEF PpcInv, CallsAscend, Ascends
      <4>2. prio[EndPd[c[1]]] <= n /\ prio[EndPd[c[2]]] <= n
        BY <1>5, <2>3, <3>2
      <4> QED
        BY <2>2, <4>1, <4>2
    <3> QED
      BY <1>1, <3>1, <3>2
  <2> QED
    BY <1>1, <1>4, <2>2, <2>3 DEF CallsBounded
<1>7. CASE ~(a \in CanPp \/ b \in CanPp)
  <2>1. \A c \in channels' : (c[1] \in CanPp \/ c[2] \in CanPp) => c \in channels
    BY <1>1, <1>7
  <2> QED
    BY <1>1, <1>4, <1>5, <2>1 DEF CallsBounded
<1> QED
  BY <1>4, <1>6, <1>7

LEMMA PpcStep ==
    ASSUME ~PriorityMoves, PpcInv, [Next]_vars
    PROVE  PpcInv'
<1>1. PoolInv'
  BY PoolStep DEF PpcInv
<1>2. ASSUME NEW a \in End, NEW b \in End, NewChannel(a, b)
      PROVE  CallsAscend' /\ CallsBounded'
  BY <1>2, NewChannelAscends
<1>3. ASSUME UNCHANGED <<channels, prio>>
      PROVE  CallsAscend' /\ CallsBounded'
  BY <1>3 DEF PpcInv, CallsAscend, CallsBounded, Ascends
<1>4. \/ UNCHANGED <<channels, prio>>
      \/ \E a, b \in End : NewChannel(a, b)
  BY DEF Next, AddIrq, NewChannelFails, AddIoPort, SetPriority, Finalise, vars, poolVars
<1> QED
  BY <1>1, <1>2, <1>3, <1>4 DEF PpcInv

\* Among any PDs there is one that calls none of them: the one of the highest
\* priority, or one that has no calls.
LEMMA AscendingIsAcyclic == PpcInv => PpcAcyclic
<1> SUFFICES ASSUME PpcInv, NEW S \in (SUBSET PD) \ {{}}
             PROVE  \E p \in S : \A q \in S : <<p, q>> \notin Calls
  BY DEF PpcAcyclic
<1> SUFFICES ASSUME \A p \in S : \E q \in S : <<p, q>> \in Calls
             PROVE  FALSE
  OBVIOUS
<1>1. PICK b \in Nat : \A c \in channels :
        (c[1] \in CanPp \/ c[2] \in CanPp) => prio[EndPd[c[1]]] <= b /\ prio[EndPd[c[2]]] <= b
  BY DEF PpcInv, CallsBounded
<1>2. ASSUME NEW p, NEW q, <<p, q>> \in Calls
      PROVE  prio[p] \in Nat /\ prio[q] \in Nat /\ prio[p] < prio[q] /\ prio[p] <= b
  BY <1>1, <1>2 DEF Calls, PpcInv, CallsAscend, Ascends
<1> DEFINE T == {prio[p] : p \in S}
<1>3. T \subseteq Nat /\ T # {} /\ \A x \in T : x <= b
  <2>1. \A p \in S : prio[p] \in Nat /\ prio[p] <= b
    BY <1>2
  <2>2. PICK p : p \in S
    OBVIOUS
  <2>3. prio[p] \in T
    BY <2>2
  <2> QED
    BY <2>1, <2>3
<1>4. PICK x \in T : \A y \in T : y <= x
  BY <1>3, GreatestNat
<1>5. PICK p \in S : x = prio[p]
  BY <1>4
<1>6. PICK q \in S : <<p, q>> \in Calls
  BY <1>5
<1>7. prio[q] <= prio[p]
  BY <1>4, <1>5
<1> QED
  BY <1>2, <1>6, <1>7

\* While the metaprogram leaves priorities as they were, no set of PDs waits on
\* itself in protected procedure calls (channel.py:75-83).
THEOREM NoCallCircle == ASSUME ~PriorityMoves PROVE Spec => []PpcAcyclic
<1>1. Init => PpcInv
  BY PoolInit DEF Init, PpcInv, CallsAscend, CallsBounded
<1>2. PpcInv /\ [Next]_vars => PpcInv'
  BY PpcStep
<1> QED
  BY <1>1, <1>2, AscendingIsAcyclic, PTL DEF Spec

-----------------------------------------------------------------------------
(* Identifiers without a hole.  NoIdLost speaks of registered holders; what *)
(* makes it inductive is that an end keeps what a failed Channel() wrote    *)
(* into it, and that nothing below that identifier is ever given back.      *)

Dense(used, id) == \A j \in 0 .. id - 1 : j \in used
Unshared == \A pd, qd \in PD : pd # qd => irqs[pd] \cap irqs[qd] = {}

\* Holds when nobody asks for identifiers.  An end may have an identifier and
\* be in no channel; an IRQ with an identifier is registered with some PD.
DenseInv ==
  /\ \A i \in Irq : irqId[i] # None => \E pd \in PD : i \in irqs[pd]
  /\ \A e \in End : endId[e] # None => Dense(Used(EndPd[e]), endId[e])
  /\ Unshared => \A pd \in PD : \A i \in irqs[pd] : Dense(Used(pd), irqId[i])

\* No step gives an identifier back.
LEMMA UsedGrows ==
  ASSUME PoolInv, [Next]_vars, NEW pd \in PD
  PROVE  Used(pd) \subseteq Used(pd)'
<1>1. irqs[pd] \subseteq irqs'[pd] /\ channels \subseteq channels'
  BY DEF Next, AddIrq, NewChannel, NewChannelFails, AddIoPort, SetPriority, Finalise,
         vars, poolVars, PoolInv, TypeOK
<1>2. Registered \subseteq Registered'
  BY <1>1 DEF Registered
<1>3. ASSUME NEW id \in Used(pd)
      PROVE  id \in Used(pd)'
  <2>1. CASE \E i \in irqs[pd] : id = irqId[i]
    <3>1. PICK i \in irqs[pd] : id = irqId[i]
      BY <2>1
    <3>2. i \in irqs'[pd] /\ irqId'[i] = id
      BY <1>1, <3>1, PoolStep
    <3> QED
      BY <3>2 DEF Used
  <2>2. CASE \E e \in Registered : EndPd[e] = pd /\ id = endId[e]
    <3>1. PICK e \in Registered : EndPd[e] = pd /\ id = endId[e]
      BY <2>2
    <3>2. e \in Registered' /\ endId'[e] = id
      BY <1>2, <3>1, PoolStep
    <3> QED
      BY <3>1, <3>2 DEF Used
  <2> QED
    BY <2>1, <2>2 DEF Used
<1> QED
  BY <1>3

\* What a pool gives out for nothing, or confirms, has no hole below it.
LEMMA GrantedDense ==
  ASSUME NEW used, NEW req, NEW id, Grants(used, req, id),
         req # None => Dense(used, req)
  PROVE  Dense(used, id)
  BY DEF Grants, Dense

LEMMA AddIrqDense ==
  ASSUME PoolInv, DenseInv, NEW pd \in PD, NEW i \in Irq, AddIrq(pd, i)
  PROVE  DenseInv'
<1>1. PICK id \in Id : /\ Grants(Used(pd), irqId[i], id)
                       /\ irqId' = [irqId EXCEPT ![i] = id]
  BY DEF AddIrq
<1>2. i \notin irqs[pd] /\ irqs' = [irqs EXCEPT ![pd] = @ \cup {i}] /\ endId' = endId
  BY DEF AddIrq
<1>3. /\ irqId'[i] = id /\ \A k \in Irq : k # i => irqId'[k] = irqId[k]
      /\ irqs'[pd] = irqs[pd] \cup {i} /\ \A qd \in PD : qd # pd => irqs'[qd] = irqs[qd]
      /\ \A qd \in PD : irqs[qd] \subseteq Irq
  BY <1>1, <1>2 DEF PoolInv, TypeOK
<1>4. \A qd \in PD : Used(qd) \subseteq Used(qd)'
  BY UsedGrows DEF Next
<1>5. \A k \in Irq : irqId'[k] # None => \E qd \in PD : k \in irqs'[qd]
  BY <1>3 DEF DenseInv
<1>6. \A e \in End : endId'[e] # None => Dense(Used(EndPd[e])', endId'[e])
  BY <1>2, <1>4, EndAssumption DEF DenseInv, Dense
<1>7. ASSUME Unshared', NEW qd \in PD, NEW k \in irqs'[qd]
      PROVE  Dense(Used(qd)', irqId'[k])
  <2>1. Unshared
    BY <1>3, <1>7 DEF Unshared
  \* An IRQ that had an identifier would be shared with the PD it has it from.
  <2>2. irqId[i] = None
    <3> SUFFICES ASSUME irqId[i] # None PROVE FALSE
      OBVIOUS
    <3>1. PICK pe \in PD : i \in irqs[pe]
      BY DEF DenseInv
    <3>2. i \in irqs'[pd] \cap irqs'[pe] /\ pd # pe
      BY <3>1, <1>2, <1>3
    <3> QED
      BY <3>2, <1>7 DEF Unshared
  <2>3. Dense(Used(pd), id)
    BY <1>1, <2>2, GrantedDense
  <2>4. CASE k \in irqs[qd]
    <3>1. Dense(Used(qd), irqId[k])
      BY <2>1, <2>4 DEF DenseInv
    <3>2. irqId'[k] = irqId[k]
      BY <2>4, PoolStep DEF Next
    <3> QED
      BY <3>1, <3>2, <1>4 DEF Dense
  <2>5. CASE qd = pd /\ k = i
    BY <2>3, <2>5, <1>3, <1>4 DEF Dense
  <2> QED
    BY <2>4, <2>5, <1>3, <1>7
<1> QED
  BY <1>5, <1>6, <1>7 DEF DenseInv

\* Channel() gives an end the identifier it has, or the smallest one.
LEMMA ChannelDense ==
  ASSUME PoolInv, DenseInv, NEW a \in End, NEW b \in End,
         NewChannel(a, b) \/ NewChannelFails(a, b)
  PROVE  DenseInv'
<1>1. \A e \in End : endId[e] # None => Dense(Used(EndPd[e]), endId[e])
  BY DEF DenseInv
<1>2. UNCHANGED <<irqs, irqId>>
  BY DEF NewChannel, NewChannelFails
<1>3. \A pd \in PD : Used(pd) \subseteq Used(pd)'
  BY UsedGrows DEF Next
<1>4. \A e \in End : endId'[e] # None => Dense(Used(EndPd[e]), endId'[e])
  <2>1. CASE NewChannel(a, b)
    <3>1. PICK idA \in Id, idB \in Id :
              /\ Grants(Used(EndPd[a]), endId[a], idA)
              /\ Grants(Used(EndPd[b]), RequestB(a, b, idA), idB)
              /\ endId' = [endId EXCEPT ![a] = idA, ![b] = idB]
      BY <2>1 DEF NewChannel
    <3>2. Dense(Used(EndPd[a]), idA)
      BY <3>1, <1>1, GrantedDense
    <3>3. Dense(Used(EndPd[b]), idB)
      BY <3>1, <3>2, <1>1, GrantedDense DEF RequestB
    <3>4. /\ endId'[b] = idB /\ (a # b => endId'[a] = idA)
          /\ \A e \in End : e # a /\ e # b => endId'[e] = endId[e]
      BY <3>1 DEF PoolInv, TypeOK
    <3> QED
      BY <1>1, <3>2, <3>3, <3>4
  <2>2. CASE NewChannelFails(a, b)
    <3>1. PICK idA \in Id : /\ Grants(Used(EndPd[a]), endId[a], idA)
                            /\ endId' = [endId EXCEPT ![a] = idA]
      BY <2>2 DEF NewChannelFails
    <3>2. Dense(Used(EndPd[a]), idA)
      BY <3>1, <1>1, GrantedDense
    <3>3. endId'[a] = idA /\ \A e \in End : e # a => endId'[e] = endId[e]
      BY <3>1 DEF PoolInv, TypeOK
    <3> QED
      BY <1>1, <3>2, <3>3
  <2> QED
    BY <2>1, <2>2
<1>5. \A e \in End : endId'[e] # None => Dense(Used(EndPd[e])', endId'[e])
  BY <1>3, <1>4, EndAssumption DEF Dense
<1>6. \A i \in Irq : irqId'[i] # None => \E pd \in PD : i \in irqs'[pd]
  BY <1>2 DEF DenseInv
<1>7. Unshared' => \A pd \in PD : \A i \in irqs'[pd] : Dense(Used(pd)', irqId'[i])
  BY <1>2, <1>3 DEF DenseInv, Dense, Unshared
<1> QED
  BY <1>5, <1>6, <1>7 DEF DenseInv

LEMMA DenseStep ==
  ASSUME PoolInv, DenseInv, [Next]_vars
  PROVE  DenseInv'
<1>1. ASSUME NEW pd \in PD, NEW i \in Irq, AddIrq(pd, i)
      PROVE  DenseInv'
  BY <1>1, AddIrqDense
<1>2. ASSUME NEW a \in End, NEW b \in End, NewChannel(a, b) \/ NewChannelFails(a, b)
      PROVE  DenseInv'
  BY <1>2, ChannelDense
<1>3. ASSUME UNCHANGED poolVars
      PROVE  DenseInv'
  BY <1>3 DEF poolVars, DenseInv, Dense, Unshared, Used, Registered
<1> QED
  BY <1>1, <1>2, <1>3 DEF Next, AddIoPort, SetPriority, Finalise, vars, poolVars

\* Nothing starts out with an identifier nobody asked for.
LEMMA DenseInit ==
  ASSUME ReqId = {}, Init
  PROVE  DenseInv
<1>1. (\A i \in Irq : irqId[i] = None) /\ (\A e \in End : endId[e] = None)
      /\ \A pd \in PD : irqs[pd] = {}
  BY DEF Init
<1> QED
  BY <1>1 DEF DenseInv

\* When nobody asks for identifiers and no IRQ is shared, each PD's pool is
\* used from 0 upwards without a hole, whichever channels failed in between
\* (pd.py:355, channel.py:94-99).
THEOREM NothingLost == Spec => []NoIdLost
<1>1. CASE ReqId = {}
  <2>1. Init => PoolInv /\ DenseInv
    BY <1>1, PoolInit, DenseInit
  <2>2. PoolInv /\ DenseInv /\ [Next]_vars => (PoolInv /\ DenseInv)'
    BY PoolStep, DenseStep
  <2>3. PoolInv /\ DenseInv => NoIdLost
    <3> SUFFICES ASSUME PoolInv, DenseInv, Unshared, NEW pd \in PD, NEW id \in Used(pd)
                 PROVE  Dense(Used(pd), id)
      BY DEF NoIdLost, Dense, Unshared
    <3>1. CASE \E i \in irqs[pd] : id = irqId[i]
      BY <3>1 DEF DenseInv
    <3>2. CASE \E e \in Registered : EndPd[e] = pd /\ id = endId[e]
      <4>1. PICK e \in Registered : EndPd[e] = pd /\ id = endId[e]
        BY <3>2
      <4>2. e \in End
        BY DEF PoolInv, TypeOK, Registered, EndsOf
      <4>3. endId[e] # None
        BY DEF PoolInv, UniqueIds, HoldersHaveIds
      <4> QED
        BY <4>1, <4>2, <4>3 DEF DenseInv
    <3> QED
      BY <3>1, <3>2 DEF Used
  <2> QED
    BY <2>1, <2>2, <2>3, PTL DEF Spec
<1>2. CASE ReqId # {}
  <2>1. NoIdLost
    BY <1>2 DEF NoIdLost
  <2> QED
    BY <2>1, PTL
<1> QED
  BY <1>1, <1>2
=============================================================================
