------------------------------- MODULE PdTree -------------------------------
(***************************************************************************)
(* Protection domains as a forest: every PD starts at the top level of the *)
(* System, add_child_pd moves it below another, and rendering walks from   *)
(* the top level down.  Nothing compares a child with the PDs above its    *)
(* parent, so that the forest can lose a PD.                               *)
(***************************************************************************)
EXTENDS Integers, FiniteSets

CONSTANTS
  PD,       \* ProtectionDomain objects
  MaxIds,   \* MAX_IDS
  ReqId     \* child identifiers a caller may ask for

ASSUME IdAssumption == MaxIds \in Nat /\ ReqId \subseteq Nat

VARIABLES
  made,      \* the PDs that have been instantiated
  pds,       \* System.pds, the top level
  children,  \* ProtectionDomain.children
  childId,   \* ProtectionDomain.child_id
  final      \* System.state is FINAL

vars == <<made, pds, children, childId, final>>

None == -1
PoolId == 0..MaxIds - 1
Id == PoolId \cup ReqId

Init ==
  /\ made = {} /\ pds = {}
  /\ children = [p \in PD |-> {}]
  /\ childId = [p \in PD |-> None]
  /\ final = FALSE

\* ProtectionDomain.__init__ asks for nothing and is possible in every state.
NewPd(p) ==
  /\ p \notin made
  /\ made' = made \cup {p} /\ pds' = pds \cup {p}
  /\ UNCHANGED <<children, childId, final>>

UsedIds(p) == {childId[c] : c \in children[p]}

\* Wrong on purpose: the first identifier is the number of children.
GivesCount(p, req, id) ==
  IF req = None THEN id = Cardinality(children[p])
                ELSE ~final /\ id = req /\ req \notin UsedIds(p)

\* The identifier add_child_pd gives: the smallest free one, or the requested
\* one if it is free and manual allocation is still allowed.
Gives(p, req, id) ==
  IF req = None
  THEN id \in PoolId /\ id \notin UsedIds(p) /\ \A j \in 0..id - 1 : j \in UsedIds(p)
  ELSE ~final /\ id = req /\ req \notin UsedIds(p)

\* Wrong on purpose: a PD may be taken from another parent.
AddChildAgain(p, c, req) ==
  /\ c \in made \ children[p] /\ p \in made
  /\ \E id \in Id :
       Gives(p, req, id) /\ childId' = [childId EXCEPT ![c] = id]
  /\ pds' = pds \ {c}
  /\ children' = [children EXCEPT ![p] = @ \cup {c}]
  /\ UNCHANGED <<made, final>>

\* Wrong on purpose: the child stays at the top level.
AddChildStays(p, c, req) ==
  /\ c \in pds \ children[p] /\ p \in made
  /\ \E id \in Id :
       Gives(p, req, id) /\ childId' = [childId EXCEPT ![c] = id]
  /\ children' = [children EXCEPT ![p] = @ \cup {c}]
  /\ UNCHANGED <<made, pds, final>>

\* Wrong on purpose: the child is taken from the top level before its identifier
\* is known to be free.
AddChildRemovesFirst(p, c, req) ==
  /\ p \in made /\ c \notin children[p] /\ c \in pds
  /\ pds' = pds \ {c}
  /\ \/ /\ \E id \in Id : Gives(p, req, id) /\ childId' = [childId EXCEPT ![c] = id]
        /\ children' = [children EXCEPT ![p] = @ \cup {c}]
     \/ ~(\E id \in Id : Gives(p, req, id)) /\ UNCHANGED <<children, childId>>
  /\ UNCHANGED <<made, final>>

\* p.add_child_pd(c, req).  Removing a child that is not at the top level
\* raises, before anything is assigned.
AddChild(p, c, req) ==
  /\ p \in made
  /\ c \notin children[p]
  /\ c \in pds
  /\ \E id \in Id :
       Gives(p, req, id) /\ childId' = [childId EXCEPT ![c] = id]
  /\ pds' = pds \ {c}
  /\ children' = [children EXCEPT ![p] = @ \cup {c}]
  /\ UNCHANGED <<made, final>>

\* A terminal action has completed.
Finalise ==
  /\ ~final
  /\ final' = TRUE
  /\ UNCHANGED <<made, pds, children, childId>>

Next ==
  \/ \E p \in PD : NewPd(p)
  \/ \E p, c \in PD, req \in ReqId \cup {None} : AddChild(p, c, req)
  \/ Finalise

Spec == Init /\ [][Next]_vars

-----------------------------------------------------------------------------
\* A set that holds the children of its members, and what is reached from a set
\* by following children.
Closed(S) == \A p \in S : children[p] \subseteq S
Reached(T) == {c \in PD : \A S \in SUBSET PD : T \subseteq S /\ Closed(S) => c \in S}

\* What render writes: the top level, then the children of what is written.
Rendered == Reached(pds)
Descendants(p) == Reached(children[p])

TypeOK ==
  /\ pds \subseteq made /\ made \subseteq PD
  /\ children \in [PD -> SUBSET PD]
  /\ childId \in [PD -> Id \cup {None}]
  /\ final \in BOOLEAN

\* Every PD is in one place: at the top level, or below exactly one parent, and
\* then it has an identifier that none of its siblings has (pd.py:395-413).
PlacedOnce ==
  /\ \A p \in made : p \in pds <=> \A q \in PD : p \notin children[q]
  /\ \A q, r \in PD : q # r => children[q] \cap children[r] = {}
  /\ \A q \in PD : children[q] \subseteq made

SiblingsDiffer ==
  \A q \in PD : \A c, d \in children[q] :
    childId[c] # None /\ (c # d => childId[c] # childId[d])

TreeInv == TypeOK /\ PlacedOnce /\ SiblingsDiffer

\* Rendering ends: no PD that it reaches is its own descendant, so that no
\* element is written inside itself (pd.py:318-319).
RenderEnds == \A p \in Rendered : p \notin Descendants(p)

\* The place and the identifier of a child are never changed: what a config
\* struct says about it stays true (pd.py:395, pd.py:411-413).
ChildKept ==
  [][\A p, c \in PD : c \in children[p] =>
       c \in children'[p] /\ childId'[c] = childId[c]]_vars
=============================================================================
