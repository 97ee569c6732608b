--------------------------- MODULE SystemXmlProofs ---------------------------
(***************************************************************************)
(* Proofs about the forest of PDs and about SystemXml, for any PDs,        *)
(* identifiers, objects and arguments.                                     *)
(*                                                                         *)
(* PdTree: a PD is in one place of the forest, siblings have different     *)
(* identifiers, a child stays where it is, rendering ends, and a PD is     *)
(* missing from it only if some PD was put below itself.                   *)
(*                                                                         *)
(* SystemXml: it is the forest of PdTree with more beside it, what its XML *)
(* names is in the XML, and what one terminal action said stays true.      *)
(***************************************************************************)
EXTENDS SystemXml, Arithmetic, FiniteSetTheorems, TLAPS

\* What an accepted add_child_pd does, with the identifier it gave named.
LEMMA AddChildGives ==
  ASSUME TypeOK, NEW p \in PD, NEW c \in PD, NEW req \in ReqId \cup {None}, AddChild(p, c, req)
  PROVE  \E id \in Id :
           /\ id # None /\ id \notin UsedIds(p)
           /\ childId' = [childId EXCEPT ![c] = id]
<1>1. PICK id \in Id : Gives(p, req, id) /\ childId' = [childId EXCEPT ![c] = id]
  BY DEF AddChild
<1>2. id \in Nat
  BY IdAssumption DEF Id, PoolId
<1>3. id # None /\ id \notin UsedIds(p)
  BY <1>1, <1>2 DEF Gives, None
<1> QED BY <1>1, <1>3

\* Every step keeps the forest.
LEMMA TreeStep == TreeInv /\ [Next]_vars => TreeInv'
<1> SUFFICES ASSUME TreeInv, [Next]_vars PROVE TreeInv'
  OBVIOUS
<1>0. TypeOK /\ PlacedOnce /\ SiblingsDiffer
  BY DEF TreeInv
<1>1. ASSUME NEW p \in PD, NewPd(p) PROVE TreeInv'
  <2>1. /\ p \notin made /\ made' = made \cup {p} /\ pds' = pds \cup {p}
        /\ UNCHANGED <<children, childId, final>>
    BY <1>1 DEF NewPd
  <2>2. TypeOK'
    BY <1>0, <2>1 DEF TypeOK
  <2>3. \A q \in PD : p \notin children[q]
    BY <1>0, <2>1 DEF PlacedOnce
  <2>4. PlacedOnce'
    BY <1>0, <2>1, <2>3 DEF PlacedOnce, TypeOK
  <2>5. SiblingsDiffer'
    BY <1>0, <2>1 DEF SiblingsDiffer
  <2> QED BY <2>2, <2>4, <2>5 DEF TreeInv
<1>2. ASSUME NEW p \in PD, NEW c \in PD, NEW req \in ReqId \cup {None}, AddChild(p, c, req)
      PROVE  TreeInv'
  <2>1. /\ c \in pds /\ p \in made /\ pds' = pds \ {c}
        /\ children' = [children EXCEPT ![p] = @ \cup {c}]
        /\ UNCHANGED <<made, final>>
    BY <1>2 DEF AddChild
  <2>2. PICK id \in Id : /\ id # None /\ id \notin UsedIds(p)
                         /\ childId' = [childId EXCEPT ![c] = id]
    BY <1>0, <1>2, AddChildGives
  <2>3. TypeOK'
    BY <1>0, <2>1, <2>2 DEF TypeOK
  <2>4. \A q \in PD : c \notin children[q]
    BY <1>0, <2>1 DEF PlacedOnce, TypeOK
  <2>5. \A q \in PD : children'[q] = IF q = p THEN children[p] \cup {c} ELSE children[q]
    BY <1>0, <2>1 DEF TypeOK
  <2>6. \A d \in PD : childId'[d] = IF d = c THEN id ELSE childId[d]
    BY <1>0, <2>2 DEF TypeOK
  <2>7. PlacedOnce'
    <3>1. \A d \in made : d \in pds' <=> \A q \in PD : d \notin children'[q]
      BY <1>0, <2>1, <2>5 DEF PlacedOnce
    <3>2. \A q, r \in PD : q # r => children'[q] \cap children'[r] = {}
      BY <1>0, <2>4, <2>5 DEF PlacedOnce
    <3>3. \A q \in PD : children'[q] \subseteq made'
      BY <1>0, <2>1, <2>5 DEF PlacedOnce, TypeOK
    <3> QED BY <2>1, <3>1, <3>2, <3>3 DEF PlacedOnce
  <2>8. ASSUME NEW q \in PD, NEW d \in children'[q], NEW e \in children'[q]
        PROVE  childId'[d] # None /\ (d # e => childId'[d] # childId'[e])
    <3>1. d \in PD /\ e \in PD
      BY <2>3 DEF TypeOK
    <3>2. CASE q = p
      <4>1. \A f \in children[p] : childId[f] \in UsedIds(p)
        BY DEF UsedIds
      <4>2. d \in children[p] \cup {c} /\ e \in children[p] \cup {c}
        BY <2>5, <3>2
      <4> QED BY <1>0, <2>2, <2>4, <2>6, <3>1, <4>1, <4>2 DEF SiblingsDiffer
    <3>3. CASE q # p
      BY <1>0, <2>4, <2>5, <2>6, <3>1, <3>3 DEF SiblingsDiffer
    <3> QED BY <3>2, <3>3
  <2>9. SiblingsDiffer'
    BY <2>8 DEF SiblingsDiffer
  <2> QED BY <2>3, <2>7, <2>9 DEF TreeInv
<1>3. CASE Finalise
  BY <1>0, <1>3 DEF Finalise, TreeInv, TypeOK, PlacedOnce, SiblingsDiffer
<1>4. CASE UNCHANGED vars
  BY <1>0, <1>4 DEF vars, TreeInv, TypeOK, PlacedOnce, SiblingsDiffer
<1> QED BY <1>1, <1>2, <1>3, <1>4 DEF Next

\* Every PD has one place in the forest and siblings have different identifiers.
THEOREM TreeInvariant == Spec => []TreeInv
<1>1. Init => TreeInv
  BY IdAssumption DEF Init, TreeInv, TypeOK, PlacedOnce, SiblingsDiffer
<1> QED BY <1>1, TreeStep, PTL DEF Spec

\* A child is at the top level no more, and only a PD of the top level is given
\* to a parent: a step changes neither its place nor its identifier.
LEMMA KeptStep ==
  ASSUME TreeInv, [Next]_vars
  PROVE  \A p, c \in PD : c \in children[p] =>
           c \in children'[p] /\ childId'[c] = childId[c]
<1> SUFFICES ASSUME NEW q \in PD, NEW d \in PD, d \in children[q]
             PROVE  d \in children'[q] /\ childId'[d] = childId[d]
  OBVIOUS
<1>1. ASSUME NEW p \in PD, NEW c \in PD, NEW req \in ReqId \cup {None}, AddChild(p, c, req)
      PROVE  d \in children'[q] /\ childId'[d] = childId[d]
  <2>1. PICK id \in Id : childId' = [childId EXCEPT ![c] = id]
    BY <1>1, AddChildGives DEF TreeInv
  <2>2. c \in pds /\ children' = [children EXCEPT ![p] = @ \cup {c}]
    BY <1>1 DEF AddChild
  <2>3. c # d
    BY <2>2 DEF TreeInv, PlacedOnce, TypeOK
  <2> QED BY <2>1, <2>2, <2>3 DEF TreeInv, TypeOK
<1>2. CASE (\E p \in PD : NewPd(p)) \/ Finalise \/ UNCHANGED vars
  BY <1>2 DEF NewPd, Finalise, vars
<1> QED BY <1>1, <1>2 DEF Next

\* The place and the identifier of a child never change.
THEOREM ChildrenKept == Spec => ChildKept
<1>1. TreeInv /\ [Next]_vars =>
        [\A p, c \in PD : c \in children[p] =>
           c \in children'[p] /\ childId'[c] = childId[c]]_vars
  BY KeptStep
<1> QED BY <1>1, TreeInvariant, PTL DEF Spec, ChildKept

-----------------------------------------------------------------------------
\* What is reached from T holds T and the children of its members, and is part
\* of every set that does.
LEMMA ReachedHolds ==
  ASSUME TypeOK, NEW T \in SUBSET PD
  PROVE  T \subseteq Reached(T) /\ Closed(Reached(T)) /\ Reached(T) \subseteq PD
<1>1. ASSUME NEW p \in Reached(T), NEW c \in children[p] PROVE c \in Reached(T)
  <2>1. c \in PD
    BY <1>1 DEF TypeOK, Reached
  <2>2. ASSUME NEW S \in SUBSET PD, T \subseteq S, Closed(S) PROVE c \in S
    BY <1>1, <2>2 DEF Reached, Closed
  <2> QED BY <2>1, <2>2 DEF Reached
<1> QED BY <1>1 DEF Reached, Closed

LEMMA ReachedLeast ==
  ASSUME NEW T, NEW S \in SUBSET PD, T \subseteq S, Closed(S)
  PROVE  Reached(T) \subseteq S
BY DEF Reached

\* The descendants of a child are descendants, and so is the child.
LEMMA DescendantsOfChild ==
  ASSUME TypeOK, NEW q \in PD, NEW c \in children[q]
  PROVE  c \in PD /\ c \in Descendants(q) /\ Descendants(c) \subseteq Descendants(q)
<1>1. c \in PD /\ children[q] \in SUBSET PD
  BY DEF TypeOK
<1>2. /\ children[q] \subseteq Descendants(q) /\ Closed(Descendants(q))
      /\ Descendants(q) \in SUBSET PD
  BY <1>1, ReachedHolds DEF Descendants
<1>3. children[c] \subseteq Descendants(q)
  BY <1>2 DEF Closed
<1> QED BY <1>1, <1>2, <1>3, ReachedLeast DEF Descendants

\* A PD none of whose parents is among its descendants is not among them.
LEMMA NotBelowItself ==
  ASSUME TypeOK, NEW p \in PD, p \notin children[p],
         \A x \in Descendants(p) : p \notin children[x]
  PROVE  p \notin Descendants(p)
<1>1. children[p] \in SUBSET PD
  BY DEF TypeOK
<1>2. /\ children[p] \subseteq Descendants(p) /\ Closed(Descendants(p))
      /\ Descendants(p) \in SUBSET PD
  BY <1>1, ReachedHolds DEF Descendants
<1> DEFINE S == Descendants(p) \ {p}
<1>3. S \in SUBSET PD /\ children[p] \subseteq S /\ Closed(S)
  BY <1>2 DEF Closed
<1>4. Descendants(p) \subseteq S
  BY <1>3, ReachedLeast DEF Descendants
<1> QED BY <1>4

\* The PDs that are not below themselves include the top level and the
\* children of their members, so they include everything that is rendered.
LEMMA RenderedNotBelowItself == TreeInv => RenderEnds
<1> SUFFICES ASSUME TreeInv PROVE RenderEnds
  OBVIOUS
<1>0. TypeOK /\ PlacedOnce
  BY DEF TreeInv
<1> DEFINE U == {q \in PD : q \notin Descendants(q)}
<1>1. ASSUME NEW p \in pds PROVE p \in U
  <2>1. p \in PD /\ \A x \in PD : p \notin children[x]
    BY <1>0, <1>1 DEF TypeOK, PlacedOnce
  <2>2. Descendants(p) \subseteq PD
    BY DEF Descendants, Reached
  <2>3. p \notin Descendants(p)
    BY <1>0, <2>1, <2>2, NotBelowItself
  <2> QED BY <2>1, <2>3
<1>2. ASSUME NEW q \in U, NEW c \in children[q], c \in Descendants(c) PROVE FALSE
  <2>1. c \in PD /\ c \in Descendants(q) /\ Descendants(c) \subseteq Descendants(q)
    BY <1>0, <1>2, DescendantsOfChild
  <2>2. q # c /\ q \notin Descendants(q)
    BY <1>2
  <2>3. \A x \in PD : c \in children[x] => x = q
    BY <1>0 DEF PlacedOnce
  <2>4. Descendants(c) \subseteq PD
    BY DEF Descendants, Reached
  <2>5. c \notin Descendants(c)
    BY <1>0, <2>1, <2>2, <2>3, <2>4, NotBelowItself
  <2> QED BY <1>2, <2>5
<1>3. Closed(U)
  BY <1>0, <1>2 DEF Closed, TypeOK
<1>4. Rendered \subseteq U
  BY <1>1, <1>3, ReachedLeast DEF Rendered
<1> QED BY <1>4 DEF RenderEnds

\* Rendering ends: no element is written inside itself.
THEOREM RenderingEnds == Spec => []RenderEnds
BY RenderedNotBelowItself, TreeInvariant, PTL

-----------------------------------------------------------------------------
\* Only PDs that were made have children, and they are finitely many.
MadeInv ==
  /\ IsFiniteSet(made)
  /\ \A q \in PD : children[q] # {} => q \in made

LEMMA MadeStep == TypeOK /\ MadeInv /\ [Next]_vars => MadeInv'
<1> SUFFICES ASSUME TypeOK, MadeInv, [Next]_vars PROVE MadeInv'
  OBVIOUS
<1>1. ASSUME NEW p \in PD, NewPd(p) PROVE MadeInv'
  BY <1>1, FS_AddElement DEF NewPd, MadeInv
<1>2. ASSUME NEW p \in PD, NEW c \in PD, NEW req \in ReqId \cup {None}, AddChild(p, c, req)
      PROVE  MadeInv'
  BY <1>2 DEF AddChild, MadeInv, TypeOK
<1>3. CASE Finalise \/ UNCHANGED vars
  BY <1>3 DEF Finalise, vars, MadeInv
<1> QED BY <1>1, <1>2, <1>3 DEF Next

LEMMA MadeInvariant == Spec => []MadeInv
<1>1. Init => MadeInv
  BY FS_EmptySet DEF Init, MadeInv
<1>2. TreeInv => TypeOK
  BY DEF TreeInv
<1> QED BY <1>1, <1>2, MadeStep, TreeInvariant, PTL DEF Spec

LEMMA RenderedMade ==
  ASSUME TypeOK, PlacedOnce
  PROVE  pds \subseteq Rendered /\ Closed(Rendered) /\ Rendered \subseteq made
<1>1. pds \in SUBSET PD /\ made \in SUBSET PD /\ pds \subseteq made /\ Closed(made)
  BY DEF TypeOK, PlacedOnce, Closed
<1> QED BY <1>1, ReachedHolds, ReachedLeast DEF Rendered

\* If no PD is below itself, every PD is rendered.  The parent of one that is
\* not would be another such one, and have more descendants, for ever.
LEMMA ForestRendered ==
  ASSUME TypeOK, PlacedOnce, MadeInv, \A p \in PD : p \notin Descendants(p)
  PROVE  made = Rendered
<1> DEFINE Lost == made \ Rendered
           Rest(x) == Cardinality(made \ Descendants(x))
           Rests == {Rest(x) : x \in Lost}
<1>0. made \subseteq PD
  BY DEF TypeOK
<1>1. \A x : made \ Descendants(x) \in SUBSET made /\ IsFiniteSet(made \ Descendants(x))
  BY FS_Difference DEF MadeInv
<1>2. \A x : Rest(x) \in Nat
  BY <1>1, FS_CardinalityType
<1>3. ASSUME NEW x \in Lost PROVE \E q \in Lost : Rest(q) < Rest(x)
  <2>1. x \in PD /\ x \notin pds
    BY <1>0, RenderedMade
  <2>2. PICK q \in PD : x \in children[q]
    BY <2>1 DEF PlacedOnce
  <2>3. q \in Lost
    BY <2>2, RenderedMade DEF MadeInv, Closed
  <2>4. x \in Descendants(q) /\ Descendants(x) \subseteq Descendants(q) /\ x \notin Descendants(x)
    BY <2>1, <2>2, DescendantsOfChild
  <2>5. /\ made \ Descendants(q) \subseteq made \ Descendants(x)
        /\ made \ Descendants(q) # made \ Descendants(x)
    BY <2>4
  <2>6. \A S, T : IsFiniteSet(S) /\ T \subseteq S /\ T # S => Cardinality(T) < Cardinality(S)
    BY FS_Subset, FS_CardinalityType
  <2>7. Rest(q) < Rest(x)
    BY <1>1, <2>5, <2>6
  <2> QED BY <2>3, <2>7
<1>4. Rests \in SUBSET Nat
  BY <1>2
<1> HIDE DEF Rest
<1>5. ASSUME Lost # {} PROVE FALSE
  <2>1. Rests # {}
    BY <1>5
  <2>2. PICK n \in Rests : \A m \in Rests : n <= m
    BY <1>4, <2>1, LeastNat
  <2>3. PICK x \in Lost : n = Rest(x)
    BY <2>2
  <2>4. PICK q \in Lost : Rest(q) < Rest(x)
    BY <1>3
  <2>5. n <= Rest(q) /\ Rest(q) \in Nat /\ n \in Nat
    BY <1>4, <2>2
  <2> QED BY <2>3, <2>4, <2>5
<1> QED BY <1>5, RenderedMade

-----------------------------------------------------------------------------
(* The composed system.                                                    *)

\* The calls of SystemXml leave the forest alone or are those of PdTree.
LEMMA XmlStepIsTreeStep == [XmlNext]_allVars => [Next]_vars
BY DEF XmlNext, Declare, NewRegion, NewMap, NewIoMap, NewIoSpace, NewChannel, NewVm,
       AddMap, AddIoMap, AddVm, AddCapMap, allVars

\* SystemXml implements PdTree: what is proved of the forest holds beside the
\* other objects of a system.
THEOREM ImplementsPdTree == XmlSpec => Spec
BY XmlStepIsTreeStep, PTL DEF XmlSpec, XmlInit, Spec

-----------------------------------------------------------------------------
\* What is kept anywhere was made before, and its region registered.
RefInv ==
  /\ XmlTypeOK
  /\ \A a \in objects : a \notin VM => a.mr \in mrs
  /\ \A e \in Entity : \A a \in maps[e] : a.mr \in mrs
  /\ \A s \in IOAS : \A a \in ioMaps[s] : a.mr \in mrs
  /\ \A p \in PD : \A c \in slots[p] : c.obj \in made
  /\ \A p \in PD : vm[p] # NoVm => vm[p] \in objects
  /\ \A c \in Chan : channels[c] # NoEnds => channels[c][1] \in made /\ channels[c][2] \in made

\* Calls of PdTree make PDs and lose none.
LEMMA MadeGrows == ASSUME [Next]_vars PROVE made \subseteq made'
BY DEF Next, NewPd, AddChild, Finalise, vars

LEMMA RefTreeStep ==
  ASSUME RefInv, [Next]_vars, UNCHANGED xmlVars
  PROVE  RefInv'
BY MadeGrows DEF RefInv, XmlTypeOK, xmlVars

LEMMA RefDeclareStep ==
  ASSUME RefInv, Declare
  PROVE  RefInv'
<1>1. ASSUME NEW m \in MR, NewRegion(m) PROVE RefInv'
  BY <1>1 DEF NewRegion, RefInv, XmlTypeOK, vars
<1>2. ASSUME NEW a \in MapArg, NewMap(a) PROVE RefInv'
  BY <1>2 DEF NewMap, RefInv, XmlTypeOK, vars
<1>3. ASSUME NEW a \in IOMapArg, NewIoMap(a) PROVE RefInv'
  BY <1>3 DEF NewIoMap, RefInv, XmlTypeOK, vars
<1>4. ASSUME NEW s \in IOAS, NewIoSpace(s) PROVE RefInv'
  BY <1>4 DEF NewIoSpace, RefInv, XmlTypeOK, vars
<1>5. ASSUME NEW c \in Chan, NEW p \in PD, NEW q \in PD, NewChannel(c, p, q) PROVE RefInv'
  BY <1>5 DEF NewChannel, RefInv, XmlTypeOK, vars
<1>6. ASSUME NEW v \in VM, NEW ids \in VcpuIds, NewVm(v, ids) PROVE RefInv'
  BY <1>6 DEF NewVm, RefInv, XmlTypeOK, vars
<1>7. ASSUME NEW a \in MapArg, NEW e \in Entity, AddMap(e, a) PROVE RefInv'
  <2>1. a \notin VM
    BY ArgAssumption
  <2> QED BY <1>7, <2>1 DEF AddMap, RefInv, XmlTypeOK, vars
<1>8. ASSUME NEW a \in IOMapArg, NEW s \in IOAS, AddIoMap(s, a) PROVE RefInv'
  <2>1. a \notin VM
    BY ArgAssumption
  <2> QED BY <1>8, <2>1 DEF AddIoMap, RefInv, XmlTypeOK, vars
<1>9. ASSUME NEW p \in PD, NEW v \in VM, AddVm(p, v) PROVE RefInv'
  BY <1>9 DEF AddVm, RefInv, XmlTypeOK, vars
<1>10. ASSUME NEW p \in PD, NEW c \in CapArg, AddCapMap(p, c) PROVE RefInv'
  BY <1>10 DEF AddCapMap, RefInv, XmlTypeOK, vars
<1> QED BY <1>1, <1>2, <1>3, <1>4, <1>5, <1>6, <1>7, <1>8, <1>9, <1>10 DEF Declare

LEMMA RefInvariant == XmlSpec => []RefInv
<1>1. XmlInit => RefInv
  BY DEF XmlInit, Init, RefInv, XmlTypeOK
<1>2. RefInv /\ [XmlNext]_allVars => RefInv'
  <2> SUFFICES ASSUME RefInv, [XmlNext]_allVars PROVE RefInv'
    OBVIOUS
  <2>1. CASE XmlNext /\ ~Declare
    BY <2>1, RefTreeStep DEF XmlNext
  <2>2. CASE Declare
    BY <2>2, RefDeclareStep
  <2>3. CASE UNCHANGED allVars
    BY <2>3, RefTreeStep DEF allVars
  <2> QED BY <2>1, <2>2, <2>3
<1> QED BY <1>1, <1>2, PTL DEF XmlSpec

\* Unless a PD was put below itself, every PD and whatever the XML names is in
\* the XML.
THEOREM NothingIsMissing == XmlSpec => []NothingMissing
<1>1. TreeInv /\ MadeInv /\ RefInv => NothingMissing
  <2> SUFFICES ASSUME TreeInv, MadeInv, RefInv, Forest PROVE
        /\ made \subseteq Rendered
        /\ \A e \in Rendered \cup Machines : \A a \in maps[e] : a.mr \in mrs
        /\ \A s \in ioSpaces : \A a \in ioMaps[s] : a.mr \in mrs
        /\ \A p \in Rendered : \A c \in slots[p] : c.obj \in Rendered
        /\ \A c \in Chan : channels[c] # NoEnds =>
             channels[c][1] \in Rendered /\ channels[c][2] \in Rendered
    BY DEF NothingMissing
  <2>1. made = Rendered
    BY ForestRendered DEF Forest, TreeInv
  <2>2. Rendered \subseteq PD /\ Machines \subseteq VM /\ ioSpaces \subseteq IOAS
    BY DEF Rendered, Reached, Machines, RefInv, XmlTypeOK
  <2> QED BY <2>1, <2>2 DEF RefInv, Entity
<1> QED BY <1>1, ImplementsPdTree, TreeInvariant, MadeInvariant, RefInvariant, PTL

-----------------------------------------------------------------------------
\* What entities, machines, I/O address spaces and slots hold is never taken
\* from them; in a final system nothing new is registered.
Grows ==
  /\ \A e \in Entity : maps[e] \subseteq maps'[e]
  /\ \A s \in IOAS : ioMaps[s] \subseteq ioMaps'[s]
  /\ \A p \in PD : slots[p] \subseteq slots'[p]
  /\ \A p \in PD : vm[p] # NoVm => vm'[p] = vm[p]
  /\ \A v \in VM : v \in objects => vcpus'[v] = vcpus[v]
  /\ final => UNCHANGED <<mrs, ioSpaces, channels>>

LEMMA GrowStep ==
  ASSUME RefInv, [XmlNext]_allVars
  PROVE  Grows
<1>1. CASE UNCHANGED xmlVars
  BY <1>1 DEF xmlVars, Grows
<1>2. CASE Declare
  <2>1. ASSUME NEW a \in MapArg, NEW e \in Entity, AddMap(e, a) PROVE Grows
    BY <2>1 DEF AddMap, RefInv, XmlTypeOK, Grows
  <2>2. ASSUME NEW a \in IOMapArg, NEW s \in IOAS, AddIoMap(s, a) PROVE Grows
    BY <2>2 DEF AddIoMap, RefInv, XmlTypeOK, Grows
  <2>3. ASSUME NEW p \in PD, NEW v \in VM, AddVm(p, v) PROVE Grows
    BY <2>3 DEF AddVm, RefInv, XmlTypeOK, Grows
  <2>4. ASSUME NEW p \in PD, NEW c \in CapArg, AddCapMap(p, c) PROVE Grows
    BY <2>4 DEF AddCapMap, RefInv, XmlTypeOK, Grows
  <2>5. ASSUME NEW v \in VM, NEW ids \in VcpuIds, NewVm(v, ids) PROVE Grows
    BY <2>5 DEF NewVm, RefInv, XmlTypeOK, Grows
  <2>6. CASE \/ \E m \in MR : NewRegion(m)
             \/ \E a \in MapArg : NewMap(a)
             \/ \E a \in IOMapArg : NewIoMap(a)
             \/ \E s \in IOAS : NewIoSpace(s)
             \/ \E c \in Chan, p, q \in PD : NewChannel(c, p, q)
    BY <2>6 DEF NewRegion, NewMap, NewIoMap, NewIoSpace, NewChannel, AllocAllowed, Grows
  <2> QED BY <1>2, <2>1, <2>2, <2>3, <2>4, <2>5, <2>6 DEF Declare
<1> QED BY <1>1, <1>2 DEF XmlNext, allVars

\* ForestRendered, in the next state.
LEMMA ForestMadeNext == TreeInv' /\ MadeInv' /\ Forest' => made' = Rendered'
<1>1. TreeInv /\ MadeInv /\ Forest => made = Rendered
  BY ForestRendered DEF TreeInv, Forest
<1>2. (TreeInv /\ MadeInv /\ Forest => made = Rendered)'
  BY <1>1, PTL
<1> QED BY <1>2

\* What one terminal action said of the PDs, machines and I/O address spaces
\* that the next one still writes is said again, and a PD is lost between the two
\* only if a PD was put below itself.
THEOREM SaidIsKept == XmlSpec => SaidKept
<1> DEFINE Kept ==
      /\ Rendered \subseteq Rendered' \/ ~Forest'
      /\ \A p \in Rendered \cap Rendered' :
           /\ SaidChildren(p) \subseteq SaidChildren(p)'
           /\ SaidVms(p) \subseteq SaidVms(p)' /\ SaidCaps(p) \subseteq SaidCaps(p)'
           /\ \A e \in {p} \cup SaidVms(p) : SaidMaps(e) \subseteq SaidMaps(e)'
           /\ \A v \in SaidVms(p) : SaidVcpus(v)' = SaidVcpus(v)
      /\ \A s \in ioSpaces : SaidIoMaps(s) \subseteq SaidIoMaps(s)'
      /\ SaidEnds' = SaidEnds /\ TopElements' = TopElements
<1>1. TreeInv /\ TreeInv' /\ MadeInv' /\ RefInv /\ [XmlNext]_allVars =>
        [final => Kept]_allVars
  <2> SUFFICES ASSUME TreeInv, TreeInv', MadeInv', RefInv, [XmlNext]_allVars, final
               PROVE  Kept
    OBVIOUS
  <2>1. [Next]_vars
    BY XmlStepIsTreeStep
  <2>2. Grows
    BY GrowStep
  <2>3. Rendered \subseteq Rendered' \/ ~Forest'
    <3>1. Rendered \subseteq made
      BY RenderedMade DEF TreeInv
    <3>2. Forest' => made' = Rendered'
      BY ForestMadeNext
    <3> QED BY <2>1, <3>1, <3>2, MadeGrows
  <2>4. Rendered \subseteq PD /\ ioSpaces \subseteq IOAS
    BY DEF Rendered, Reached, RefInv, XmlTypeOK
  <2>5. \A p \in Rendered : SaidVms(p) \subseteq VM /\ SaidVms(p) \subseteq objects
    BY <2>4 DEF SaidVms, RefInv, XmlTypeOK
  <2>6. \A p \in PD : \A c \in children[p] : c \in children'[p] /\ childId'[c] = childId[c]
    <3>1. \A p \in PD : children[p] \subseteq PD
      BY DEF TreeInv, TypeOK
    <3> QED BY <2>1, <3>1, KeptStep
  <2>7. mrs' = mrs /\ ioSpaces' = ioSpaces /\ channels' = channels
    BY <2>2 DEF Grows
  <2>8. SaidEnds' = SaidEnds /\ TopElements' = TopElements
    BY <2>7 DEF SaidEnds, TopElements
  <2>9. ASSUME NEW p \in Rendered
        PROVE  /\ SaidChildren(p) \subseteq SaidChildren(p)'
               /\ SaidVms(p) \subseteq SaidVms(p)' /\ SaidCaps(p) \subseteq SaidCaps(p)'
    <3>1. SaidChildren(p) \subseteq SaidChildren(p)'
      BY <2>4, <2>6 DEF SaidChildren
    <3>2. SaidVms(p) \subseteq SaidVms(p)'
      BY <2>2, <2>4 DEF SaidVms, Grows
    <3>3. SaidCaps(p) \subseteq SaidCaps(p)'
      BY <2>2, <2>4 DEF SaidCaps, Grows
    <3> QED BY <3>1, <3>2, <3>3
  <2>10. \A p \in Rendered : \A e \in {p} \cup SaidVms(p) : SaidMaps(e) \subseteq SaidMaps(e)'
    BY <2>2, <2>4, <2>5 DEF SaidMaps, Grows, Entity
  <2>11. \A p \in Rendered : \A v \in SaidVms(p) : SaidVcpus(v)' = SaidVcpus(v)
    BY <2>2, <2>5 DEF SaidVcpus, Grows
  <2>12. \A s \in ioSpaces : SaidIoMaps(s) \subseteq SaidIoMaps(s)'
    BY <2>2, <2>4 DEF SaidIoMaps, Grows
  <2> QED BY <2>3, <2>8, <2>9, <2>10, <2>11, <2>12
<1>2. XmlSpec => [](TreeInv /\ MadeInv /\ RefInv)
  BY ImplementsPdTree, TreeInvariant, MadeInvariant, RefInvariant, PTL
<1> QED BY <1>1, <1>2, PTL DEF XmlSpec, SaidKept
=============================================================================
