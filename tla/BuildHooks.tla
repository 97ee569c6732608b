------------------------------ MODULE BuildHooks ------------------------------
(***************************************************************************)
(* Which methods of a Subsystem class are its build hooks, and in which    *)
(* order they run.  Classes are defined one after the other, each with a   *)
(* list of base classes and a body.  A class without a base in this model  *)
(* (its base is object) is a plain class, as a mixin may be; Python runs   *)
(* __init_subclass__ at the end of the class statement of every class that *)
(* has Subsystem in its MRO, and an instance takes the list of hooks that  *)
(* it computed.                                                            *)
(***************************************************************************)
EXTENDS Integers, SequencesExt

CONSTANTS
  Name,        \* names of methods
  Body,        \* class bodies: sequences of methods with distinct names
  MaxBases,    \* bound on the base classes of a class
  MaxClasses   \* bound on the classes that are defined

Method == [name : Name, marked : BOOLEAN]  \* marked: @build_hook was applied

ASSUME BodyAssumption ==
  /\ MaxBases \in Nat /\ MaxClasses \in Nat
  /\ \A body \in Body :
       /\ body \in Seq(Method)
       /\ \A i, j \in DOMAIN body : body[i].name = body[j].name => i = j

\* A class is the number of its definition; 0 is Subsystem itself.  object, the
\* last class of every MRO, has no methods that matter and is left out.
Root == 0

VARIABLES
  body,    \* __dict__ of each class, in the order of its definition
  mro,     \* __mro__
  hooks    \* _decorated_build_hook_names, () for a class that has none

hookVars == <<body, mro, hooks>>

Class == DOMAIN body

HookInit ==
  /\ body = [c \in {Root} |-> <<>>]
  /\ mro = [c \in {Root} |-> <<Root>>]
  /\ hooks = [c \in {Root} |-> <<>>]

\* A Subsystem class, by its MRO.
IsSubsystem(order) == Root \in ToSet(order)

-----------------------------------------------------------------------------
\* Python's linearization of a class with these bases: the MROs of the bases
\* and the list of the bases are merged.  The next class is, of those that head
\* what is left of every list they are in, the one in the first list; if there
\* is none, nothing is added any more.
Lists(bases) ==
  [i \in 1..Len(bases) + 1 |-> IF i > Len(bases) THEN bases ELSE mro[bases[i]]]

Heads(lists, out, c) ==
  /\ \A i \in DOMAIN out : out[i] # c
  /\ \A i \in DOMAIN lists : \A j \in DOMAIN lists[i] :
       lists[i][j] = c => \A k \in 1..j - 1 : \E h \in DOMAIN out : out[h] = lists[i][k]

Merge(lists, out) ==
  LET Ready(i) == {c \in ToSet(lists[i]) : Heads(lists, out, c)}
      first == {i \in DOMAIN lists : Ready(i) # {}}
  IN  IF first = {} THEN out ELSE Append(out, CHOOSE c \in Ready(Min(first)) : TRUE)

Linear(bases) ==
  LET out[k \in 0..Cardinality(Class)] ==
        IF k = 0 THEN <<>> ELSE Merge(Lists(bases), out[k - 1])
  IN  out[Cardinality(Class)]

\* Anything else is a TypeError, and there is no such class.
Linearizable(bases) ==
  ToSet(Linear(bases)) = UNION {ToSet(mro[b]) : b \in ToSet(bases)}

\* The class whose member Python's lookup selects for a name: the first in the
\* MRO whose body has it.
Owners(bodies, order, n) ==
  {i \in DOMAIN order : \E k \in DOMAIN bodies[order[i]] : bodies[order[i]][k].name = n}
OwnerIn(bodies, order, n) == order[Min(Owners(bodies, order, n))]

\* _resolved_member_is_build_hook
ResolvedIsHook(bodies, order, n) ==
  /\ Owners(bodies, order, n) # {}
  /\ [name |-> n, marked |-> TRUE] \in ToSet(bodies[OwnerIn(bodies, order, n)])

-----------------------------------------------------------------------------
\* The entries of a list that are in a set.
Only(s, S) ==
  LET f[i \in 0..Len(s)] ==
        IF i = 0 THEN <<>>
        ELSE IF s[i] \in S THEN Append(f[i - 1], s[i]) ELSE f[i - 1]
  IN  f[Len(s)]

Without(s, n) == Only(s, ToSet(s) \ {n})

\* The hooks of one more base: those that are not in the list yet.
More(names, b) == names \o Only(hooks[b], Name \ ToSet(names))

\* The hooks of the bases, from left to right, each name once; a plain base has
\* none, also where its methods are marked.
Inherited(bases) ==
  LET names[i \in 0..Len(bases)] ==
        IF i = 0 THEN <<>> ELSE More(names[i - 1], bases[i])
  IN  names[Len(bases)]

\* Wrong on purpose: a hook that is marked again keeps its place.
OverrideStays(acc, m) ==
  IF ~m.marked THEN Without(acc, m.name)
  ELSE IF Contains(acc, m.name) THEN acc ELSE Append(acc, m.name)

\* An override loses its place, and gets one at the end if it is marked again.
Override(acc, m) ==
  IF m.marked THEN Append(Without(acc, m.name), m.name) ELSE Without(acc, m.name)

\* The loop over cls.__dict__.
Own(names, members) ==
  LET acc[i \in 0..Len(members)] ==
        IF i = 0 THEN names ELSE Override(acc[i - 1], members[i])
  IN  acc[Len(members)]

\* Wrong on purpose: what the bases list is not looked up again.
FilterNone(bodies, order, names) == names

\* Only names whose selected member, wherever it comes from, is a hook.
Filter(bodies, order, names) ==
  Only(names, {n \in ToSet(names) : ResolvedIsHook(bodies, order, n)})

\* What is known of the classes so far, and v of class c.
With(f, c, v) == [d \in Class \cup {c} |-> IF d = c THEN v ELSE f[d]]

\* __init_subclass__
InitSubclass(bodies, order, bases, members) ==
  Filter(bodies, order, Own(Inherited(bases), members))

\* class c(*bases): members
DefineClass(bases, members) ==
  LET c == Cardinality(Class)
  IN /\ c <= MaxClasses
     /\ Linearizable(bases)
     /\ LET bodies == With(body, c, members)
            order == <<c>> \o Linear(bases)
        IN /\ body' = bodies
           /\ mro' = With(mro, c, order)
           /\ hooks' = With(hooks, c, IF IsSubsystem(order)
                                        THEN InitSubclass(bodies, order, bases, members)
                                        ELSE <<>>)

BaseLists ==
  {l \in UNION {[1..k -> Class] : k \in 0..MaxBases} :
     \A i, j \in DOMAIN l : l[i] = l[j] => i = j}

HookNext == \E bases \in BaseLists, members \in Body : DefineClass(bases, members)

HookSpec == HookInit /\ [][HookNext]_hookVars

-----------------------------------------------------------------------------
(* Properties.                                                             *)

Owner(c, n) == OwnerIn(body, mro[c], n)

\* The hooks of a class are names of methods that an instance gets by Python's
\* lookup and that are marked, and no hook runs twice: an unmarked override
\* anywhere before the marked one unhooks it, for diamonds and mixins as well
\* (subsystem.py, final filter of __init_subclass__).  And every such method
\* that comes from a Subsystem class is a hook; one that a plain mixin brings is
\* a hook only if a Subsystem base lists its name (getattr with default ()).
HooksResolve ==
  \A c \in Class :
    LET resolved == {n \in Name : ResolvedIsHook(body, mro[c], n)}
    IN  /\ ToSet(hooks[c]) \subseteq resolved
        /\ {n \in resolved : IsSubsystem(mro[Owner(c, n)])} \subseteq ToSet(hooks[c])
        /\ Len(hooks[c]) = Cardinality(ToSet(hooks[c]))

\* The order of two hooks of a class.
Before(c, m, n) ==
  \E i, j \in DOMAIN hooks[c] : i < j /\ hooks[c][i] = m /\ hooks[c][j] = n

\* The hooks a class defines itself run after all it inherits, and in the order
\* of its body, also those that override an inherited hook.
OwnLast ==
  \A c \in Class, m, n \in Name :
    Before(c, m, n) /\ Owner(c, m) = c =>
      /\ Owner(c, n) = c
      /\ \E i, j \in DOMAIN body[c] : i < j /\ body[c][i].name = m /\ body[c][j].name = n
=============================================================================
