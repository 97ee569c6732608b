-------------------------- MODULE SubsystemProofs --------------------------
(***************************************************************************)
(* Proofs about subsystems, first how they are assembled, then which of    *)
(* their methods are hooks.                                                *)
(* Assembly, for every set of subsystems and clients, every number of      *)
(* hooks and everything hooks may do: a final system has built all its     *)
(* subsystems and none of them twice, and it has connected all the clients *)
(* if the connecting hook is the last.                                     *)
(* BuildHooks, for every hierarchy of classes: the hooks of a class are    *)
(* the marked methods that Python's lookup selects, and those it defines   *)
(* itself run last.                                                        *)
(***************************************************************************)
EXTENDS Assembly, BuildHooks, Arithmetic, FiniteSetTheorems, SequenceTheorems, TLAPS

\* The initial states have the types of the variables.
LEMMA TypeInit == Init => TypeOK
  BY HooksAssumption DEF Init, TypeOK

\* Every step keeps them.
LEMMA TypeStep == TypeOK /\ [Next]_vars => TypeOK'
<1> SUFFICES ASSUME TypeOK, [Next]_vars PROVE TypeOK'
  OBVIOUS
<1> USE HooksAssumption DEF TypeOK
<1>1. ASSUME NEW p \in PD, NewPd(p) PROVE TypeOK'
  BY <1>1 DEF NewPd, progress, call
<1>2. ASSUME NEW s \in Subsystem, NewSubsystem(s) PROVE TypeOK'
  BY <1>2 DEF NewSubsystem, progress, call
<1>3. ASSUME NEW s \in Subsystem, NEW p \in PD, AddClient(s, p) PROVE TypeOK'
  BY <1>3 DEF AddClient, progress, call
<1>4. ASSUME NEW s \in Subsystem, UserBuilds(s) PROVE TypeOK'
  BY <1>4 DEF UserBuilds, StartBuild, progress, objects
<1>5. CASE TerminalAction
  BY <1>5 DEF TerminalAction, progress, objects
<1>6. CASE HookReturns
  <2>1. hook \in 1..Hooks /\ hook' = hook + 1
    BY <1>6 DEF HookReturns, InHook
  <2>2. runs' \in [Subsystem -> [1..Hooks -> Nat]]
    BY <1>6, <2>1 DEF HookReturns
  <2>3. connected' \in [Subsystem -> SUBSET PD]
    BY <1>6 DEF HookReturns
  <2> QED BY <1>6, <2>1, <2>2, <2>3 DEF HookReturns, objects
<1>7. CASE HookFails
  BY <1>7 DEF HookFails, Raise, progress, objects
<1>8. CASE FinishBuild
  BY <1>8 DEF FinishBuild, objects
<1>9. CASE SkipBuilt
  BY <1>9 DEF SkipBuilt, progress, objects
<1>10. CASE BuildNext
  <2>1. subs[idx] \in Subsystem
    BY <1>10 DEF BuildNext, Resolved
  <2> QED BY <1>10, <2>1 DEF BuildNext, StartBuild, progress, objects
<1>11. CASE EndResolve
  BY <1>11 DEF EndResolve, progress, objects
<1>12. CASE Allocated \/ AllocationFails \/ Emit
  BY <1>12 DEF Allocated, AllocationFails, Raise, Emit, progress, objects
<1>13. CASE UNCHANGED vars
  BY <1>13 DEF vars, progress, objects, call
<1> QED
  BY <1>1, <1>2, <1>3, <1>4, <1>5, <1>6, <1>7, <1>8, <1>9, <1>10, <1>11,
     <1>12, <1>13 DEF Next, Declare, Running
-----------------------------------------------------------------------------
Loops == LoopInv /\ InDeclarationOrder

\* Declaring an object, by the metaprogram or by a hook, disturbs no loop:
\* subsystems are appended and only while the system is not final.
LEMMA DeclareKeepsLoops ==
  ASSUME AssemblyInv, Declare PROVE Loops'
<1> USE DEF AssemblyInv, Loops, LoopInv, InDeclarationOrder, Declared
<1>1. ASSUME NEW p \in PD, NewPd(p) PROVE Loops'
  BY <1>1 DEF NewPd, progress, call
<1>2. ASSUME NEW s \in Subsystem, NEW p \in PD, AddClient(s, p) PROVE Loops'
  BY <1>2 DEF AddClient, progress, call
<1>3. ASSUME NEW s \in Subsystem, NewSubsystem(s) PROVE Loops'
  <2>1. /\ state # "final" /\ pc \in {"user", "hook"}
        /\ UNCHANGED <<state, built, runs, pc, caller, cur, idx, hook>>
    BY <1>3 DEF NewSubsystem, Runs, InHook, progress, call
  <2>2. subs \in Seq(Subsystem) /\ subs' = Append(subs, s)
    BY <1>3 DEF NewSubsystem, TypeOK
  <2>3. /\ Len(subs') = Len(subs) + 1
        /\ \A i \in 1..Len(subs) : subs'[i] = subs[i]
    BY <2>2
  <2>4. Declared \subseteq Declared'
    BY <2>2, <2>3
  <2>5. InDeclarationOrder'
    <3> SUFFICES ASSUME (pc = "hook" /\ caller = "resolve")'
                 PROVE  /\ idx <= Len(subs') /\ cur = subs'[idx]
                        /\ \A i \in 1..idx - 1 : subs'[i] \in built
      BY <2>1
    <3>1. idx \in 1..Len(subs) /\ cur = subs[idx] /\ Len(subs) \in Nat
      BY <2>1, <2>2 DEF TypeOK
    <3> QED BY <2>1, <2>3, <3>1
  <2>6. LoopInv'
    <3>1. \A t \in built' : t \in Declared' /\ \A k \in 1..Hooks : runs'[t][k] >= 1
      BY <2>1, <2>4
    <3>2. (pc = "hook")' => /\ cur' \in Declared'
                            /\ \A k \in 1..hook' - 1 : runs'[cur'][k] >= 1
      BY <2>1, <2>4
    <3> QED BY <2>1, <3>1, <3>2
  <2> QED BY <2>5, <2>6
<1> QED BY <1>1, <1>2, <1>3 DEF Declare

\* A hook that returns counts one more run of itself, and of nothing else.
LEMMA HookCounts ==
  ASSUME TypeOK, HookReturns
  PROVE  \A s \in Subsystem, k \in 1..Hooks :
           /\ runs[s][k] \in Nat
           /\ runs'[s][k] = IF s = cur /\ k = hook THEN runs[s][k] + 1
                                                   ELSE runs[s][k]
<1> TAKE s \in Subsystem, k \in 1..Hooks
<1>1. runs \in [Subsystem -> [1..Hooks -> Nat]] /\ cur \in Subsystem
  BY DEF TypeOK
<1>2. runs[s] \in [1..Hooks -> Nat] /\ runs[cur] \in [1..Hooks -> Nat]
  BY <1>1
<1>3. hook \in 1..Hooks /\ runs' = [runs EXCEPT ![cur][hook] = @ + 1]
  BY HooksAssumption DEF HookReturns, InHook, TypeOK
<1>4. runs' = [runs EXCEPT ![cur] = [runs[cur] EXCEPT ![hook] = @ + 1]]
  BY <1>3
<1>5. CASE s = cur
  <2>1. runs'[s] = [runs[s] EXCEPT ![hook] = @ + 1]
    BY <1>1, <1>4, <1>5
  <2> QED BY <1>2, <1>3, <1>5, <2>1
<1>6. CASE s # cur
  BY <1>1, <1>2, <1>4, <1>6
<1> QED BY <1>5, <1>6

\* The steps of a running call keep the loops as they were or move them on
\* by one subsystem, built or found built, or by one hook.
LEMMA RunningKeepsLoops ==
  ASSUME AssemblyInv, Running PROVE Loops'
<1> USE HooksAssumption DEF AssemblyInv, Loops, LoopInv, InDeclarationOrder, Declared
<1>1. CASE HookReturns
  <2>1. /\ hook \in 1..Hooks /\ hook' = hook + 1
        /\ UNCHANGED <<state, subs, built, pc, caller, cur, idx>> /\ pc = "hook"
    BY <1>1 DEF HookReturns, InHook, objects, TypeOK
  <2>2. \A s \in Subsystem, k \in 1..Hooks :
          /\ runs[s][k] \in Nat
          /\ runs'[s][k] = IF s = cur /\ k = hook THEN runs[s][k] + 1 ELSE runs[s][k]
    BY <1>1, HookCounts
  <2>3. cur \in Subsystem /\ built \subseteq Subsystem
    BY DEF TypeOK
  <2>4. \A s \in built' : s \in Declared' /\ \A k \in 1..Hooks : runs'[s][k] >= 1
    BY <2>1, <2>2, <2>3
  <2>5. \A k \in 1..hook' - 1 : runs'[cur][k] >= 1
    BY <2>1, <2>2, <2>3
  <2> QED BY <2>1, <2>4, <2>5
<1>2. CASE HookFails
  BY <1>2 DEF HookFails, Raise, InHook, objects, progress, TypeOK
<1>3. CASE FinishBuild
  <2>1. /\ UNCHANGED <<state, subs, runs>> /\ pc = "hook" /\ hook = Hooks + 1
        /\ built' = built \cup {cur}
        /\ pc' = IF caller = "user" THEN "user" ELSE "resolve"
        /\ idx' = IF caller = "user" THEN 1 ELSE idx + 1
    BY <1>3 DEF FinishBuild, objects
  <2>2. \A s \in built' : s \in Declared' /\ \A k \in 1..Hooks : runs'[s][k] >= 1
    BY <2>1
  <2>3. caller = "resolve" => /\ idx' <= Len(subs) + 1
                              /\ \A i \in 1..idx' - 1 : subs[i] \in built'
    BY <2>1 DEF TypeOK
  <2> QED BY <2>1, <2>2, <2>3 DEF TypeOK
<1>4. CASE SkipBuilt
  BY <1>4 DEF SkipBuilt, Resolved, objects, progress, TypeOK
<1>5. CASE BuildNext
  <2>1. /\ UNCHANGED <<state, subs, built, runs, idx>> /\ pc = "resolve"
        /\ pc' = "hook" /\ cur' = subs[idx] /\ hook' = 1 /\ ~(idx > Len(subs))
    BY <1>5 DEF BuildNext, StartBuild, Resolved, objects, progress
  <2>2. cur' \in Declared' /\ idx \in 1..Len(subs)
    BY <2>1 DEF TypeOK
  <2> QED BY <2>1, <2>2
<1>6. CASE EndResolve
  <2>1. \A i \in 1..Len(subs) : subs[i] \in built
    BY <1>6 DEF EndResolve, Resolved, TypeOK
  <2>2. Declared \subseteq built
    BY <2>1 DEF TypeOK
  <2> QED BY <1>6, <2>2 DEF EndResolve, objects, progress
<1>7. CASE Allocated
  BY <1>7 DEF Allocated, objects, progress
<1>8. CASE AllocationFails
  BY <1>8 DEF AllocationFails, Raise, objects, progress
<1>9. CASE Emit
  BY <1>9 DEF Emit, objects, progress
<1> QED BY <1>1, <1>2, <1>3, <1>4, <1>5, <1>6, <1>7, <1>8, <1>9 DEF Running

\* Every step keeps the invariant.
LEMMA InvStep == AssemblyInv /\ [Next]_vars => AssemblyInv'
<1> SUFFICES ASSUME AssemblyInv, [Next]_vars PROVE Loops'
  BY TypeStep DEF AssemblyInv, Loops
<1>1. CASE Declare
  BY <1>1, DeclareKeepsLoops
<1>2. ASSUME NEW s \in Subsystem, UserBuilds(s) PROVE Loops'
  BY <1>2 DEF UserBuilds, StartBuild, progress, objects, AssemblyInv, Loops,
              LoopInv, InDeclarationOrder, Declared
<1>3. CASE TerminalAction
  BY <1>3 DEF TerminalAction, progress, objects, AssemblyInv, TypeOK, Loops,
              LoopInv, InDeclarationOrder, Declared
<1>4. CASE Running
  BY <1>4, RunningKeepsLoops
<1>5. CASE UNCHANGED vars
  BY <1>5 DEF vars, progress, objects, call, AssemblyInv, Loops, LoopInv,
              InDeclarationOrder, Declared
<1> QED BY <1>1, <1>2, <1>3, <1>4, <1>5 DEF Next

\* The types, the loops and the order of building are invariant.
THEOREM AssemblyInvariant == Spec => []AssemblyInv
<1>1. Init => AssemblyInv
  BY TypeInit DEF Init, AssemblyInv, LoopInv, InDeclarationOrder, Declared
<1> QED BY <1>1, InvStep, PTL DEF Spec

\* A final system has run every hook of every subsystem declared, hooks that
\* declare subsystems and errors that are retried included.
THEOREM FinalIsBuilt == Spec => []FinalMeansBuilt
<1>1. AssemblyInv => FinalMeansBuilt
  BY DEF AssemblyInv, LoopInv, FinalMeansBuilt
<1> QED BY <1>1, AssemblyInvariant, PTL
-----------------------------------------------------------------------------
\* Every step keeps DoneInv.
LEMMA DoneStep == AssemblyInv /\ DoneInv /\ [Next]_vars => DoneInv'
<1> SUFFICES ASSUME AssemblyInv, DoneInv, [Next]_vars PROVE DoneInv'
  OBVIOUS
<1> USE HooksAssumption DEF DoneInv
<1>0. TypeOK
  BY DEF AssemblyInv
<1>1. CASE Declare
  BY <1>1 DEF Declare, NewPd, NewSubsystem, AddClient, progress, call
<1>2. ASSUME NEW s \in Subsystem, UserBuilds(s) PROVE DoneInv'
  BY <1>2 DEF UserBuilds, StartBuild, progress
<1>3. CASE TerminalAction
  BY <1>3 DEF TerminalAction, progress
<1>4. CASE HookReturns
  <2>1. /\ hook \in 1..Hooks /\ hook' = hook + 1 /\ pc = "hook"
        /\ UNCHANGED <<built, pc, cur>>
    BY <1>0, <1>4 DEF HookReturns, InHook, TypeOK
  <2>2. ASSUME NEW s \in Subsystem, runs'[s][Hooks] > 0
        PROVE  s \in built' \/ (pc' = "hook" /\ cur' = s /\ hook' = Hooks + 1)
    <3>1. /\ runs[s][Hooks] \in Nat
          /\ runs'[s][Hooks] = IF s = cur /\ Hooks = hook THEN runs[s][Hooks] + 1
                                                         ELSE runs[s][Hooks]
      BY <1>0, <1>4, HookCounts
    <3> QED BY <2>1, <2>2, <3>1
  <2> QED BY <2>1, <2>2
<1>5. CASE HookFails
  BY <1>0, <1>5 DEF HookFails, Raise, InHook, progress, TypeOK
<1>6. CASE FinishBuild
  BY <1>6 DEF FinishBuild
<1>7. CASE BuildNext
  BY <1>7 DEF BuildNext, StartBuild, progress
<1>8. CASE SkipBuilt \/ EndResolve \/ Allocated \/ AllocationFails \/ Emit
  BY <1>8 DEF SkipBuilt, EndResolve, Allocated, AllocationFails, Raise, Emit, progress
<1>9. CASE UNCHANGED vars
  BY <1>9 DEF vars, progress, call
<1> QED BY <1>1, <1>2, <1>3, <1>4, <1>5, <1>6, <1>7, <1>8, <1>9 DEF Next, Running

\* Where DoneInv holds, a step runs no hook of a subsystem whose hooks have run.
LEMMA NoRunAfterDone ==
  ASSUME TypeOK, DoneInv, [Next]_vars
  PROVE  \A s \in Subsystem : runs[s][Hooks] > 0 => runs'[s] = runs[s]
<1>1. CASE HookReturns
  <2>1. /\ runs' = [runs EXCEPT ![cur][hook] = @ + 1] /\ hook # Hooks + 1
        /\ pc = "hook" /\ runs \in [Subsystem -> [1..Hooks -> Nat]]
    BY <1>1, HooksAssumption DEF HookReturns, InHook, TypeOK
  <2>2. ASSUME NEW s \in Subsystem, runs[s][Hooks] > 0 PROVE s # cur
    BY <2>1, <2>2 DEF DoneInv
  <2> QED BY <2>1, <2>2
<1>2. CASE ~HookReturns
  <2>1. runs' = runs
    BY <1>2 DEF Next, Declare, NewPd, NewSubsystem, AddClient, UserBuilds, StartBuild,
       TerminalAction, Running, HookFails, FinishBuild, SkipBuilt, BuildNext, EndResolve,
       Allocated, AllocationFails, Emit, vars, progress
  <2> QED BY <2>1
<1> QED BY <1>1, <1>2

\* No subsystem runs a hook again after its hooks have run, whatever is called
\* and raised.
THEOREM BuildsOnce == Spec => NoRepeatedBuild
<1>1. Init => DoneInv
  BY HooksAssumption DEF Init, DoneInv
<1>2. Spec => []DoneInv
  BY <1>1, DoneStep, AssemblyInvariant, PTL DEF Spec
<1>3. TypeOK /\ DoneInv /\ [Next]_vars =>
        [\A s \in Subsystem : runs[s][Hooks] > 0 => runs'[s] = runs[s]]_vars
  BY NoRunAfterDone
<1>4. AssemblyInv => TypeOK
  BY DEF AssemblyInv
<1> QED BY <1>2, <1>3, <1>4, AssemblyInvariant, PTL DEF Spec, NoRepeatedBuild
-----------------------------------------------------------------------------
\* If the connecting hook is the last, no step comes between it and the end of
\* the build that would add a client: every step keeps ClientInv.
LEMMA ClientStep ==
  ASSUME ConnectHook = Hooks, AssemblyInv, DoneInv, ClientInv, [Next]_vars
  PROVE  ClientInv'
<1> USE HooksAssumption DEF ClientInv
<1>0. TypeOK
  BY DEF AssemblyInv
<1>1. ASSUME NEW s \in Subsystem, NEW p \in PD, AddClient(s, p) PROVE ClientInv'
  <2>1. /\ clients' = [clients EXCEPT ![s] = @ \cup {p}] /\ s \notin built
        /\ UNCHANGED <<built, connected, pc, cur, hook>>
        /\ ~(pc = "hook" /\ hook = Hooks + 1)
    BY <1>1 DEF AddClient, Runs, InHook, progress, call
  <2>2. built \subseteq Subsystem /\ clients \in [Subsystem -> SUBSET PD]
    BY <1>0 DEF TypeOK
  <2> QED BY <2>1, <2>2
<1>2. CASE HookReturns
  <2>1. /\ pc = "hook" /\ hook \in 1..Hooks /\ hook' = hook + 1
        /\ connected' = IF hook = Hooks
                        THEN [connected EXCEPT ![cur] = @ \cup clients[cur]]
                        ELSE connected
        /\ UNCHANGED <<clients, built, pc, cur>>
    BY <1>0, <1>2 DEF HookReturns, InHook, objects, TypeOK
  <2>2. cur \in Subsystem /\ cur \notin built /\ built \subseteq Subsystem
        /\ connected \in [Subsystem -> SUBSET PD]
    BY <1>0, <2>1 DEF TypeOK, DoneInv
  <2>3. connected[cur] \subseteq clients[cur]
    BY <2>2
  <2>4. CASE hook = Hooks
    BY <2>1, <2>2, <2>3, <2>4
  <2>5. CASE hook # Hooks
    BY <2>1, <2>5
  <2> QED BY <2>4, <2>5
<1>3. CASE FinishBuild
  BY <1>3 DEF FinishBuild, objects
<1>4. CASE BuildNext
  BY <1>4 DEF BuildNext, StartBuild, progress, objects
<1>5. ASSUME NEW s \in Subsystem, UserBuilds(s) PROVE ClientInv'
  BY <1>5 DEF UserBuilds, StartBuild, progress, objects
<1>6. CASE HookFails \/ AllocationFails
  BY <1>6 DEF HookFails, AllocationFails, Raise, progress, objects
<1>7. CASE \E p \in PD : NewPd(p)
  BY <1>7 DEF NewPd, progress, call
<1>8. CASE \E s \in Subsystem : NewSubsystem(s)
  BY <1>8 DEF NewSubsystem, progress, call
<1>9. CASE TerminalAction \/ SkipBuilt \/ EndResolve \/ Allocated \/ Emit
  BY <1>9 DEF TerminalAction, SkipBuilt, EndResolve, Allocated, Emit, progress, objects
<1>10. CASE UNCHANGED vars
  BY <1>10 DEF vars, progress, objects, call
<1> QED
  BY <1>1, <1>2, <1>3, <1>4, <1>5, <1>6, <1>7, <1>8, <1>9, <1>10
  DEF Next, Declare, Running

\* Where the connecting hook is the last, a final system has connected every
\* client that add_client accepted, from the metaprogram or from a hook.
THEOREM ClientsAllConnected ==
  ASSUME ConnectHook = Hooks PROVE Spec => []ClientsConnected
<1>1. Init => DoneInv /\ ClientInv
  BY HooksAssumption DEF Init, DoneInv, ClientInv
<1>2. AssemblyInv /\ DoneInv /\ ClientInv /\ [Next]_vars => DoneInv' /\ ClientInv'
  BY DoneStep, ClientStep
<1>3. AssemblyInv /\ ClientInv => ClientsConnected
  BY DEF AssemblyInv, LoopInv, ClientInv, ClientsConnected
<1> QED BY <1>1, <1>2, <1>3, AssemblyInvariant, PTL DEF Spec

-----------------------------------------------------------------------------
(* Lists and parts of them.                                                *)

In(x, l) == \E a \in 1..Len(l) : l[a] = x
Unique(l) == \A a, b \in 1..Len(l) : l[a] = l[b] => a = b

\* In the list l some x comes before some y.
Earlier(x, y, l) == \E a, b \in 1..Len(l) : a < b /\ l[a] = x /\ l[b] = y

LEMMA InIsMember ==
  ASSUME NEW T, NEW l \in Seq(T), NEW x
  PROVE  x \in ToSet(l) <=> In(x, l)
<1>1. DOMAIN l = 1..Len(l)
  OBVIOUS
<1> QED
  BY <1>1 DEF ToSet, In

LEMMA UniqueCount ==
  ASSUME NEW T, NEW l \in Seq(T), Unique(l)
  PROVE  Len(l) = Cardinality(ToSet(l))
<1> DEFINE n == Len(l)
<1>1. n \in Nat /\ DOMAIN l = 1..n /\ l \in [1..n -> T]
  OBVIOUS
<1>2. ToSet(l) = {l[i] : i \in 1..n}
  BY <1>1 DEF ToSet
<1>3. l = [i \in 1..n |-> l[i]]
  BY <1>1
<1> HIDE DEF n
<1>4. l \in [1..n -> ToSet(l)]
  BY <1>2, <1>3
<1>5. l \in Bijection(1..n, ToSet(l))
  <2>1. \A a, b \in 1..n : l[a] = l[b] => a = b
    BY DEF Unique, n
  <2>2. \A t \in ToSet(l) : \E i \in 1..n : l[i] = t
    BY <1>2
  <2> QED
    BY <2>1, <2>2, <1>4 DEF Bijection, Injection, Surjection, IsInjective
<1>6. IsFiniteSet(1..n) /\ Cardinality(1..n) = n
  BY <1>1, FS_Interval
<1> QED
  BY <1>5, <1>6, FS_Bijection DEF ExistsBijection, n

\* Appending an entry.
LEMMA Appended ==
  ASSUME NEW T, NEW l \in Seq(T), NEW e \in T
  PROVE  /\ Append(l, e) \in Seq(T)
         /\ \A x : In(x, Append(l, e)) <=> In(x, l) \/ x = e
         /\ \A x, y : Earlier(x, y, Append(l, e)) <=> Earlier(x, y, l) \/ (In(x, l) /\ y = e)
<1> DEFINE n == Len(l)
<1> DEFINE a == Append(l, e)
<1>1. /\ n \in Nat /\ a \in Seq(T) /\ Len(a) = n + 1
      /\ \A i \in 1..n : a[i] = l[i]
      /\ a[n + 1] = e
  BY AppendProperties
<1> HIDE DEF n, a
<1>2. \A i : i \in 1..n + 1 <=> i \in 1..n \/ i = n + 1
  BY <1>1
<1>3. \A x : In(x, a) <=> In(x, l) \/ x = e
  <2>1. \A x : In(x, a) <=> \E i \in 1..n + 1 : a[i] = x
    BY <1>1 DEF In
  <2>2. \A x : In(x, l) <=> \E i \in 1..n : l[i] = x
    BY DEF In, n
  <2> QED
    BY <2>1, <2>2, <1>1, <1>2
<1>4. \A x, y : Earlier(x, y, a) <=> Earlier(x, y, l) \/ (In(x, l) /\ y = e)
  <2>1. \A x, y : Earlier(x, y, a) <=> \E i, j \in 1..n + 1 : i < j /\ a[i] = x /\ a[j] = y
    BY <1>1 DEF Earlier
  <2>2. \A x, y : Earlier(x, y, l) <=> \E i, j \in 1..n : i < j /\ l[i] = x /\ l[j] = y
    BY DEF Earlier, n
  <2>3. \A x : In(x, l) <=> \E i \in 1..n : l[i] = x
    BY DEF In, n
  <2>4. \A i, j \in 1..n + 1 : i < j <=> (i \in 1..n /\ j \in 1..n /\ i < j) \/ (i \in 1..n /\ j = n + 1)
    BY <1>1
  <2>5. ASSUME NEW x, NEW y, Earlier(x, y, a) PROVE Earlier(x, y, l) \/ (In(x, l) /\ y = e)
    BY <2>1, <2>2, <2>3, <2>4, <2>5, <1>1
  <2>6. ASSUME NEW x, NEW y, Earlier(x, y, l) PROVE Earlier(x, y, a)
    <3>1. PICK i, j \in 1..n : i < j /\ l[i] = x /\ l[j] = y
      BY <2>2, <2>6
    <3>2. i \in 1..n + 1 /\ j \in 1..n + 1 /\ a[i] = x /\ a[j] = y
      BY <3>1, <1>1
    <3> QED
      BY <3>1, <3>2, <2>1
  <2>7. ASSUME NEW x, NEW y, In(x, l), y = e PROVE Earlier(x, y, a)
    <3>1. PICK i \in 1..n : l[i] = x
      BY <2>3, <2>7
    <3>2. i \in 1..n + 1 /\ n + 1 \in 1..n + 1 /\ i < n + 1 /\ a[i] = x /\ a[n + 1] = y
      BY <3>1, <2>7, <1>1
    <3> QED
      BY <3>2, <2>1
  <2> QED
    BY <2>5, <2>6, <2>7
<1> QED
  BY <1>1, <1>3, <1>4 DEF a

\* Two lists in a row.
LEMMA Concatenated ==
  ASSUME NEW T, NEW l \in Seq(T), NEW r \in Seq(T)
  PROVE  /\ l \o r \in Seq(T)
         /\ \A x : In(x, l \o r) <=> In(x, l) \/ In(x, r)
         /\ Unique(l) /\ Unique(r) /\ (\A x : ~(In(x, l) /\ In(x, r))) => Unique(l \o r)
<1> DEFINE n == Len(l)
<1> DEFINE m == Len(r)
<1> DEFINE c == l \o r
<1>1. /\ n \in Nat /\ m \in Nat /\ c \in Seq(T) /\ Len(c) = n + m
      /\ \A i \in 1..n + m : c[i] = IF i <= n THEN l[i] ELSE r[i - n]
  BY ConcatProperties
<1>2. /\ \A x : In(x, l) <=> \E i \in 1..n : l[i] = x
      /\ \A x : In(x, r) <=> \E i \in 1..m : r[i] = x
      /\ Unique(l) <=> \A i, j \in 1..n : l[i] = l[j] => i = j
      /\ Unique(r) <=> \A i, j \in 1..m : r[i] = r[j] => i = j
  BY DEF In, Unique
<1> HIDE DEF n, m, c
<1>3. /\ \A x : In(x, c) <=> \E i \in 1..n + m : c[i] = x
      /\ Unique(c) <=> \A i, j \in 1..n + m : c[i] = c[j] => i = j
  BY <1>1 DEF In, Unique
<1>4. /\ \A i \in 1..n : i \in 1..n + m /\ c[i] = l[i]
      /\ \A i \in 1..m : n + i \in 1..n + m /\ c[n + i] = r[i]
  <2>1. \A i \in 1..n : i \in 1..n + m /\ i <= n
    BY <1>1
  <2>2. \A i \in 1..m : n + i \in 1..n + m /\ ~(n + i <= n) /\ (n + i) - n = i
    BY <1>1
  <2> QED
    BY <2>1, <2>2, <1>1
<1>5. \A i \in 1..n + m : \/ i \in 1..n /\ c[i] = l[i]
                          \/ i - n \in 1..m /\ c[i] = r[i - n] /\ i \in Int
  <2>1. \A i \in 1..n + m : i \in Int /\ (i <= n => i \in 1..n) /\ (~(i <= n) => i - n \in 1..m)
    BY <1>1
  <2> QED
    BY <2>1, <1>1
<1>6. \A x : In(x, c) <=> In(x, l) \/ In(x, r)
  <2>1. ASSUME NEW x, In(x, l) PROVE In(x, c)
    BY <2>1, <1>2, <1>3, <1>4
  <2>2. ASSUME NEW x, In(x, r) PROVE In(x, c)
    <3>1. PICK i \in 1..m : r[i] = x
      BY <2>2, <1>2
    <3>2. n + i \in 1..n + m /\ c[n + i] = x
      BY <3>1, <1>4
    <3> QED
      BY <3>2, <1>3
  <2>3. ASSUME NEW x, In(x, c) PROVE In(x, l) \/ In(x, r)
    <3>1. PICK i \in 1..n + m : c[i] = x
      BY <2>3, <1>3
    <3>2. CASE i \in 1..n /\ c[i] = l[i]
      BY <3>1, <3>2, <1>2
    <3>3. CASE i - n \in 1..m /\ c[i] = r[i - n]
      BY <3>1, <3>3, <1>2
    <3> QED
      BY <3>1, <3>2, <3>3, <1>5
  <2> QED
    BY <2>1, <2>2, <2>3
<1>7. ASSUME Unique(l), Unique(r), \A x : ~(In(x, l) /\ In(x, r))
      PROVE  Unique(c)
  <2> SUFFICES ASSUME NEW i \in 1..n + m, NEW j \in 1..n + m, c[i] = c[j]
               PROVE  i = j
    BY <1>3
  <2>1. CASE i \in 1..n /\ c[i] = l[i] /\ j \in 1..n /\ c[j] = l[j]
    BY <2>1, <1>2, <1>7
  <2>2. CASE i - n \in 1..m /\ c[i] = r[i - n] /\ j - n \in 1..m /\ c[j] = r[j - n]
    <3>1. i - n = j - n
      BY <2>2, <1>2, <1>7
    <3> QED
      BY <3>1, <1>1
  <2>3. CASE i \in 1..n /\ c[i] = l[i] /\ j - n \in 1..m /\ c[j] = r[j - n]
    BY <2>3, <1>2, <1>7
  <2>4. CASE j \in 1..n /\ c[j] = l[j] /\ i - n \in 1..m /\ c[i] = r[i - n]
    BY <2>4, <1>2, <1>7
  <2> QED
    BY <2>1, <2>2, <2>3, <2>4, <1>5
<1> QED
  BY <1>1, <1>6, <1>7 DEF c

\* A list without repetitions is one where nothing comes before itself.
LEMMA UniqueEarlier ==
  ASSUME NEW T, NEW l \in Seq(T)
  PROVE  Unique(l) <=> \A x : ~Earlier(x, x, l)
<1>1. Len(l) \in Nat
  OBVIOUS
<1>2. ASSUME Unique(l), NEW x, Earlier(x, x, l) PROVE FALSE
  BY <1>1, <1>2 DEF Unique, Earlier
<1>3. ASSUME \A x : ~Earlier(x, x, l), NEW a \in 1..Len(l), NEW b \in 1..Len(l), l[a] = l[b]
      PROVE  a = b
  <2>1. a < b \/ b < a \/ a = b
    BY <1>1
  <2>2. CASE a < b
    BY <2>2, <1>3 DEF Earlier
  <2>3. CASE b < a
    BY <2>3, <1>3 DEF Earlier
  <2> QED
    BY <2>1, <2>2, <2>3
<1> QED
  BY <1>2, <1>3 DEF Unique

\* SameValues, with its hypothesis in one piece.
Alike(g, h, n) == g[0] = h[0] /\ \A i \in 1..n : g[i - 1] = h[i - 1] => g[i] = h[i]

LEMMA AlikeSame ==
  ASSUME NEW n \in Nat, NEW g, NEW h, Alike(g, h, n)
  PROVE  \A i \in 0..n : g[i] = h[i]
  BY SameValues DEF Alike

\* Only, as a sequence of longer and longer lists.
Selects(g, s, S, T) ==
  /\ g[0] = <<>> /\ \A i \in 0..Len(s) : g[i] \in Seq(T)
  /\ \A i \in 1..Len(s) : g[i] = IF s[i] \in S THEN Append(g[i - 1], s[i]) ELSE g[i - 1]

LEMMA OnlySolved ==
  ASSUME NEW T, NEW s \in Seq(T), NEW S
  PROVE  \E g : Only(s, S) = g[Len(s)] /\ Selects(g, s, S, T)
<1> DEFINE n == Len(s)
<1> DEFINE U == Seq(T)
<1> DEFINE F == [x \in U \X (1..n) |-> IF s[x[2]] \in S THEN Append(x[1], s[x[2]]) ELSE x[1]]
<1>1. \A x \in U, i \in 1..n : /\ F[<<x, i>>] = IF s[i] \in S THEN Append(x, s[i]) ELSE x
                               /\ F[<<x, i>>] \in U
  <2> SUFFICES ASSUME NEW x \in U, NEW i \in 1..n
               PROVE  /\ F[<<x, i>>] = IF s[i] \in S THEN Append(x, s[i]) ELSE x
                      /\ F[<<x, i>>] \in U
    OBVIOUS
  <2>1. F[<<x, i>>] = IF s[i] \in S THEN Append(x, s[i]) ELSE x
    OBVIOUS
  <2>2. s[i] \in T
    OBVIOUS
  <2> QED
    BY <2>1, <2>2, AppendProperties
<1>2. n \in Nat /\ <<>> \in U
  OBVIOUS
<1> HIDE DEF F, U, n
<1>3. PICK g : /\ \A i \in 0..n : g[i] \in U
               /\ g[0] = <<>> /\ \A i \in 1..n : g[i] = F[<<g[i - 1], i>>]
  <2>1. StaysIn(F, U, n)
    BY <1>1 DEF StaysIn
  <2>2. \E g : Computes(g, F, <<>>, n) /\ \A i \in 0..n : g[i] \in U
    BY <1>2, <2>1, FiniteRecursion
  <2> QED
    BY <2>2 DEF Computes
<1>4. \A i \in 1..n : g[i] = IF s[i] \in S THEN Append(g[i - 1], s[i]) ELSE g[i - 1]
  <2> SUFFICES ASSUME NEW i \in 1..n
               PROVE  g[i] = IF s[i] \in S THEN Append(g[i - 1], s[i]) ELSE g[i - 1]
    OBVIOUS
  <2>1. g[i - 1] \in U
    BY <1>2, <1>3
  <2> QED
    BY <2>1, <1>1, <1>3
<1> DEFINE Solves(f) ==
      f = [i \in 0..n |-> IF i = 0 THEN <<>>
                          ELSE IF s[i] \in S THEN Append(f[i - 1], s[i]) ELSE f[i - 1]]
<1> DEFINE f == [i \in 0..n |-> g[i]]
<1>5. Solves(f)
  BY <1>2, <1>3, <1>4
<1>6. PICK c : Solves(c) /\ Only(s, S) = c[n]
  <2>1. Solves(CHOOSE e : Solves(e))
    BY <1>5, Zenon
  <2> QED
    BY <2>1 DEF Only, n
<1>7. c[0] = g[0]
  BY <1>2, <1>3, <1>6
<1>8. \A i \in 1..n : c[i - 1] = g[i - 1] => c[i] = g[i]
  <2> SUFFICES ASSUME NEW i \in 1..n, c[i - 1] = g[i - 1]
               PROVE  c[i] = g[i]
    OBVIOUS
  <2>1. i \in 0..n /\ i # 0
    BY <1>2
  <2>2. c[i] = IF s[i] \in S THEN Append(c[i - 1], s[i]) ELSE c[i - 1]
    BY <1>6, <2>1
  <2> QED
    BY <1>4, <2>2
<1>9. \A i \in 0..n : c[i] = g[i]
  <2>1. n \in Nat
    BY <1>2
  <2>2. Alike(c, g, n)
    BY <1>7, <1>8 DEF Alike
  <2> QED
    BY <2>1, <2>2, AlikeSame
<1>10. c[n] = g[n]
  BY <1>2, <1>9
<1>11. Only(s, S) = g[n]
  BY <1>6, <1>10
<1>12. Selects(g, s, S, T)
  BY <1>3, <1>4 DEF Selects, U, n
<1> QED
  BY <1>11, <1>12 DEF n

\* What is in Only(s, S), and in which order: that of s.
LEMMA OnlyKeeps ==
  ASSUME NEW T, NEW s \in Seq(T), NEW S
  PROVE  /\ Only(s, S) \in Seq(T)
         /\ \A x : In(x, Only(s, S)) <=> In(x, s) /\ x \in S
         /\ \A x, y : Earlier(x, y, Only(s, S)) => Earlier(x, y, s)
<1> DEFINE n == Len(s)
<1>0. PICK g : Only(s, S) = g[Len(s)] /\ Selects(g, s, S, T)
  BY OnlySolved
<1>1. /\ Only(s, S) = g[n] /\ g[0] = <<>>
      /\ \A i \in 0..n : g[i] \in Seq(T)
      /\ \A i \in 1..n : g[i] = IF s[i] \in S THEN Append(g[i - 1], s[i]) ELSE g[i - 1]
  BY <1>0 DEF Selects
<1>2. n \in Nat /\ \A i \in 1..n : s[i] \in T
  OBVIOUS
<1>3. \A x, y : ~In(x, g[0]) /\ ~Earlier(x, y, g[0])
  <2>1. Len(g[0]) = 0
    BY <1>1
  <2> QED
    BY <2>1 DEF In, Earlier
<1>4. /\ \A x : In(x, s) <=> \E a \in 1..n : s[a] = x
      /\ \A x, y : Earlier(x, y, s) <=> \E a, b \in 1..n : a < b /\ s[a] = x /\ s[b] = y
  BY DEF In, Earlier
<1> HIDE DEF n
<1> DEFINE Kept(i) == \A x : In(x, g[i]) <=> x \in S /\ \E a \in 1..i : s[a] = x
<1> DEFINE InOrder(i) ==
      \A x, y : Earlier(x, y, g[i]) => \E a, b \in 1..i : a < b /\ s[a] = x /\ s[b] = y
<1> DEFINE G == {i \in 0..n : Kept(i) /\ InOrder(i)}
<1>5. 0 \in G
  BY <1>2, <1>3
<1>6. ASSUME NEW i \in 1..n, i - 1 \in G PROVE i \in G
  <2>1. /\ i \in 0..n /\ i - 1 \in 0..n
        /\ \A a : a \in 1..i <=> a \in 1..i - 1 \/ a = i
        /\ \A a \in 1..i - 1 : a < i
    BY <1>2
  <2>2. Kept(i - 1) /\ InOrder(i - 1)
    BY <1>6
  <2>3. g[i - 1] \in Seq(T) /\ s[i] \in T
    BY <1>1, <1>2, <2>1
  <2>4. CASE s[i] \in S
    <3>1. g[i] = Append(g[i - 1], s[i])
      BY <2>4, <1>1
    <3>2. /\ \A x : In(x, g[i]) <=> In(x, g[i - 1]) \/ x = s[i]
          /\ \A x, y : Earlier(x, y, g[i]) <=>
               Earlier(x, y, g[i - 1]) \/ (In(x, g[i - 1]) /\ y = s[i])
      BY <3>1, <2>3, Appended
    <3>3. Kept(i)
      BY <3>2, <2>1, <2>2, <2>4
    <3>4. InOrder(i)
      BY <3>2, <2>1, <2>2
    <3> QED
      BY <3>3, <3>4, <2>1
  <2>5. CASE s[i] \notin S
    <3>1. g[i] = g[i - 1]
      BY <2>5, <1>1
    <3>2. Kept(i)
      BY <3>1, <2>1, <2>2, <2>5
    <3>3. InOrder(i)
      BY <3>1, <2>1, <2>2
    <3> QED
      BY <3>2, <3>3, <2>1
  <2> QED
    BY <2>4, <2>5
<1>7. n \in G
  <2> HIDE DEF G
  <2>1. 0..n \subseteq G
    BY <1>2, <1>5, <1>6, UpTo
  <2> QED
    BY <2>1, <1>2
<1>8. Kept(n) /\ InOrder(n)
  BY <1>7
<1>9. g[n] \in Seq(T)
  BY <1>1, <1>2
<1>10. /\ \A x : In(x, g[n]) <=> In(x, s) /\ x \in S
       /\ \A x, y : Earlier(x, y, g[n]) => Earlier(x, y, s)
  BY <1>4, <1>8
<1>11. Only(s, S) = g[n]
  BY <1>1
<1> QED
  BY <1>9, <1>10, <1>11, Zenon

\* So nothing is repeated that was not.
LEMMA OnlyUnique ==
  ASSUME NEW T, NEW s \in Seq(T), NEW S, Unique(s)
  PROVE  Unique(Only(s, S))
<1>1. Only(s, S) \in Seq(T) /\ \A x, y : Earlier(x, y, Only(s, S)) => Earlier(x, y, s)
  BY OnlyKeeps
<1>2. \A x : ~Earlier(x, x, s)
  BY UniqueEarlier
<1> QED
  BY <1>1, <1>2, UniqueEarlier

-----------------------------------------------------------------------------
(* The loop over the members of a class.                                   *)

\* One member: its name loses its place, and is last if the member is marked.
LEMMA OverrideKeeps ==
  ASSUME NEW acc \in Seq(Name), NEW m \in Method
  PROVE  /\ Override(acc, m) \in Seq(Name)
         /\ Unique(acc) => Unique(Override(acc, m))
         /\ \A x : In(x, Override(acc, m)) <=>
                     (x = m.name /\ m.marked) \/ (x # m.name /\ In(x, acc))
         /\ \A x, y : Earlier(x, y, Override(acc, m)) =>
                        x # m.name /\ (Earlier(x, y, acc) \/ (y = m.name /\ In(x, acc)))
<1> DEFINE w == Without(acc, m.name)
<1>1. /\ w \in Seq(Name)
      /\ \A x : In(x, w) <=> In(x, acc) /\ x # m.name
      /\ \A x, y : Earlier(x, y, w) => Earlier(x, y, acc)
  <2>1. /\ w \in Seq(Name)
        /\ \A x : In(x, w) <=> In(x, acc) /\ x \in ToSet(acc) \ {m.name}
        /\ \A x, y : Earlier(x, y, w) => Earlier(x, y, acc)
    BY OnlyKeeps DEF Without
  <2>2. \A x : x \in ToSet(acc) <=> In(x, acc)
    BY InIsMember
  <2> QED
    BY <2>1, <2>2
<1>2. m.name \in Name /\ m.marked \in BOOLEAN
  BY DEF Method
<1>3. \A x, y : Earlier(x, y, w) => In(x, w)
  BY DEF Earlier, In
<1>4. CASE m.marked
  <2>1. Override(acc, m) = Append(w, m.name)
    BY <1>4 DEF Override
  <2> HIDE DEF w
  <2>2. /\ Append(w, m.name) \in Seq(Name)
        /\ \A x : In(x, Append(w, m.name)) <=> In(x, w) \/ x = m.name
        /\ \A x, y : Earlier(x, y, Append(w, m.name)) <=>
                       Earlier(x, y, w) \/ (In(x, w) /\ y = m.name)
    BY <1>1, <1>2, Appended
  <2>3. ASSUME Unique(acc) PROVE Unique(Append(w, m.name))
    <3>1. \A x : ~Earlier(x, x, acc)
      BY <2>3, UniqueEarlier
    <3>2. \A x : ~Earlier(x, x, Append(w, m.name))
      BY <3>1, <2>2, <1>1
    <3> QED
      BY <3>2, <2>2, UniqueEarlier
  <2> QED
    BY <2>1, <2>2, <2>3, <1>1, <1>3, <1>4
<1>5. CASE ~m.marked
  <2>1. Override(acc, m) = w
    BY <1>5 DEF Override
  <2>2. Unique(acc) => Unique(w)
    BY OnlyUnique DEF Without
  <2> HIDE DEF w
  <2> QED
    BY <2>1, <2>2, <1>1, <1>3, <1>5
<1> QED
  BY <1>4, <1>5

\* Own, as a sequence of lists.
LEMMA OwnSolved ==
  ASSUME NEW names \in Seq(Name), NEW members \in Seq(Method)
  PROVE  \E g :
           /\ Own(names, members) = g[Len(members)] /\ g[0] = names
           /\ \A i \in 0..Len(members) : g[i] \in Seq(Name)
           /\ \A i \in 1..Len(members) : g[i] = Override(g[i - 1], members[i])
<1> DEFINE n == Len(members)
<1> DEFINE U == Seq(Name)
<1> DEFINE F == [x \in U \X (1..n) |-> Override(x[1], members[x[2]])]
<1>1. \A x \in U, i \in 1..n : F[<<x, i>>] = Override(x, members[i]) /\ F[<<x, i>>] \in U
  <2> SUFFICES ASSUME NEW x \in U, NEW i \in 1..n
               PROVE  F[<<x, i>>] = Override(x, members[i]) /\ F[<<x, i>>] \in U
    OBVIOUS
  <2>1. F[<<x, i>>] = Override(x, members[i])
    OBVIOUS
  <2>2. members[i] \in Method
    OBVIOUS
  <2> QED
    BY <2>1, <2>2, OverrideKeeps
<1>2. n \in Nat /\ names \in U
  OBVIOUS
<1> HIDE DEF F, U, n
<1>3. PICK g : /\ \A i \in 0..n : g[i] \in U
               /\ g[0] = names /\ \A i \in 1..n : g[i] = F[<<g[i - 1], i>>]
  <2>1. StaysIn(F, U, n)
    BY <1>1 DEF StaysIn
  <2>2. \E g : Computes(g, F, names, n) /\ \A i \in 0..n : g[i] \in U
    BY <1>2, <2>1, FiniteRecursion
  <2> QED
    BY <2>2 DEF Computes
<1>4. \A i \in 1..n : g[i] = Override(g[i - 1], members[i])
  <2> SUFFICES ASSUME NEW i \in 1..n
               PROVE  g[i] = Override(g[i - 1], members[i])
    OBVIOUS
  <2>1. g[i - 1] \in U
    BY <1>2, <1>3
  <2> QED
    BY <2>1, <1>1, <1>3
<1> DEFINE Solves(f) ==
      f = [i \in 0..n |-> IF i = 0 THEN names ELSE Override(f[i - 1], members[i])]
<1> DEFINE f == [i \in 0..n |-> g[i]]
<1>5. Solves(f)
  BY <1>2, <1>3, <1>4
<1>6. PICK c : Solves(c) /\ Own(names, members) = c[n]
  <2>1. Solves(CHOOSE e : Solves(e))
    BY <1>5, Zenon
  <2> QED
    BY <2>1 DEF Own, n
<1>7. c[0] = g[0]
  BY <1>2, <1>3, <1>6
<1>8. \A i \in 1..n : c[i - 1] = g[i - 1] => c[i] = g[i]
  <2> SUFFICES ASSUME NEW i \in 1..n, c[i - 1] = g[i - 1]
               PROVE  c[i] = g[i]
    OBVIOUS
  <2>1. i \in 0..n /\ i # 0
    BY <1>2
  <2>2. c[i] = Override(c[i - 1], members[i])
    BY <1>6, <2>1
  <2> QED
    BY <1>4, <2>2
<1>9. \A i \in 0..n : c[i] = g[i]
  <2>1. n \in Nat
    BY <1>2
  <2>2. Alike(c, g, n)
    BY <1>7, <1>8 DEF Alike
  <2> QED
    BY <2>1, <2>2, AlikeSame
<1>10. Own(names, members) = g[n]
  BY <1>2, <1>6, <1>9
<1> QED
  BY <1>3, <1>4, <1>10 DEF U, n

\* What is in the list after the loop, and what runs after a hook of the class.
LEMMA OwnKeeps ==
  ASSUME NEW names \in Seq(Name), NEW members \in Seq(Method),
         \A i, j \in 1..Len(members) : members[i].name = members[j].name => i = j
  PROVE  LET n == Len(members)
         IN  /\ Own(names, members) \in Seq(Name)
             /\ Unique(names) => Unique(Own(names, members))
             /\ \A x : In(x, Own(names, members)) <=>
                    \/ \E k \in 1..n : members[k].name = x /\ members[k].marked
                    \/ In(x, names) /\ \A k \in 1..n : members[k].name # x
             /\ \A y : \A k \in 1..n : Earlier(members[k].name, y, Own(names, members)) =>
                    \E l \in 1..n : k < l /\ members[l].name = y
<1> DEFINE n == Len(members)
<1>1. PICK g :
        /\ Own(names, members) = g[n] /\ g[0] = names
        /\ \A i \in 0..n : g[i] \in Seq(Name)
        /\ \A i \in 1..n : g[i] = Override(g[i - 1], members[i])
  BY OwnSolved
<1>2. n \in Nat /\ \A i \in 1..n : members[i] \in Method
  OBVIOUS
<1>3. \A i, j \in 1..n : members[i].name = members[j].name => i = j
  OBVIOUS
<1> HIDE DEF n
<1> DEFINE Once(i) == Unique(names) => Unique(g[i])
<1> DEFINE Held(i) ==
      \A x : In(x, g[i]) <=>
               \/ \E k \in 1..i : members[k].name = x /\ members[k].marked
               \/ In(x, names) /\ \A k \in 1..i : members[k].name # x
<1> DEFINE OwnLater(i) ==
      \A y : \A k \in 1..i : Earlier(members[k].name, y, g[i]) =>
        \E l \in 1..i : k < l /\ members[l].name = y
<1> DEFINE G == {i \in 0..n : Once(i) /\ Held(i) /\ OwnLater(i)}
<1>4. 0 \in G
  <2>1. \A k : k \notin 1..0
    OBVIOUS
  <2>2. Held(0) /\ OwnLater(0) /\ Once(0)
    BY <2>1, <1>1
  <2> QED
    BY <1>2, <2>2
<1>5. ASSUME NEW i \in 1..n, i - 1 \in G PROVE i \in G
  <2>1. /\ i \in 0..n /\ i - 1 \in 0..n
        /\ \A k : k \in 1..i <=> k \in 1..i - 1 \/ k = i
        /\ \A k \in 1..i - 1 : k < i /\ k \in 1..n
    BY <1>2
  <2>2. Once(i - 1) /\ Held(i - 1) /\ OwnLater(i - 1)
    BY <1>5
  <2>3. g[i - 1] \in Seq(Name) /\ members[i] \in Method
    BY <1>1, <1>2, <2>1
  <2>4. g[i] = Override(g[i - 1], members[i])
    BY <1>1
  <2>5. /\ Unique(g[i - 1]) => Unique(g[i])
        /\ \A x : In(x, g[i]) <=>
                    \/ x = members[i].name /\ members[i].marked
                    \/ x # members[i].name /\ In(x, g[i - 1])
        /\ \A x, y : Earlier(x, y, g[i]) =>
                       /\ x # members[i].name
                       /\ Earlier(x, y, g[i - 1]) \/ (y = members[i].name /\ In(x, g[i - 1]))
    <3> DEFINE acc == g[i - 1]
    <3> DEFINE m == members[i]
    <3>1. acc \in Seq(Name) /\ m \in Method
      BY <2>3
    <3> HIDE DEF acc, m
    <3>2. /\ Unique(acc) => Unique(Override(acc, m))
          /\ \A x : In(x, Override(acc, m)) <=>
                      (x = m.name /\ m.marked) \/ (x # m.name /\ In(x, acc))
          /\ \A x, y : Earlier(x, y, Override(acc, m)) =>
                         x # m.name /\ (Earlier(x, y, acc) \/ (y = m.name /\ In(x, acc)))
      BY <3>1, OverrideKeeps
    <3> QED
      BY <3>2, <2>4 DEF acc, m
  <2>6. \A k \in 1..i - 1 : members[k].name # members[i].name
    BY <1>3, <2>1
  <2>7. Held(i)
    <3> SUFFICES ASSUME NEW x
                 PROVE  In(x, g[i]) <=>
                          \/ \E k \in 1..i : members[k].name = x /\ members[k].marked
                          \/ In(x, names) /\ \A k \in 1..i : members[k].name # x
      OBVIOUS
    <3>1. In(x, g[i - 1]) <=>
            \/ \E k \in 1..i - 1 : members[k].name = x /\ members[k].marked
            \/ In(x, names) /\ \A k \in 1..i - 1 : members[k].name # x
      BY <2>2
    <3>2. CASE x = members[i].name
      BY <3>2, <2>1, <2>5, <2>6
    <3>3. CASE x # members[i].name
      BY <3>1, <3>3, <2>1, <2>5
    <3> QED
      BY <3>2, <3>3
  <2>8. OwnLater(i)
    <3> SUFFICES ASSUME NEW k \in 1..i, NEW y, Earlier(members[k].name, y, g[i])
                 PROVE  \E l \in 1..i : k < l /\ members[l].name = y
      OBVIOUS
    <3>1. /\ members[k].name # members[i].name
          /\ Earlier(members[k].name, y, g[i - 1]) \/ y = members[i].name
      BY <2>5
    <3>2. k \in 1..i - 1 /\ k < i
      BY <3>1, <2>1
    <3>3. CASE Earlier(members[k].name, y, g[i - 1])
      BY <3>2, <3>3, <2>1, <2>2
    <3>4. CASE y = members[i].name
      BY <3>2, <3>4, <2>1
    <3> QED
      BY <3>1, <3>3, <3>4
  <2>9. Once(i)
    BY <2>2, <2>5
  <2> QED
    BY <2>1, <2>7, <2>8, <2>9
<1>6. n \in G
  <2> HIDE DEF G
  <2>1. 0..n \subseteq G
    BY <1>2, <1>4, <1>5, UpTo
  <2> QED
    BY <2>1, <1>2
<1>7. Once(n) /\ Held(n) /\ OwnLater(n)
  BY <1>6
<1>8. g[n] \in Seq(Name)
  BY <1>1, <1>2
<1> QED
  BY <1>1, <1>7, <1>8 DEF n

-----------------------------------------------------------------------------
(* The hooks of the bases.                                                 *)

\* Those of one more.
LEMMA MoreKeeps ==
  ASSUME NEW names \in Seq(Name), NEW b, hooks[b] \in Seq(Name), Unique(hooks[b])
  PROVE  /\ More(names, b) \in Seq(Name)
         /\ Unique(names) => Unique(More(names, b))
         /\ \A x : In(x, More(names, b)) <=> In(x, names) \/ In(x, hooks[b])
<1> DEFINE h == hooks[b]
<1> DEFINE o == Only(h, Name \ ToSet(names))
<1>1. h \in Seq(Name)
  OBVIOUS
<1>2. /\ o \in Seq(Name) /\ Unique(o)
      /\ \A x : In(x, o) <=> In(x, h) /\ x \in Name \ ToSet(names)
  BY <1>1, OnlyKeeps, OnlyUnique
<1>3. \A x : x \in ToSet(names) <=> In(x, names)
  BY InIsMember
<1>4. \A x : In(x, h) => x \in Name
  BY <1>1 DEF In
<1>5. More(names, b) = names \o o
  BY DEF More
<1> HIDE DEF o
<1>6. /\ names \o o \in Seq(Name)
      /\ \A x : In(x, names \o o) <=> In(x, names) \/ In(x, o)
      /\ Unique(names) /\ Unique(o) /\ (\A x : ~(In(x, names) /\ In(x, o))) => Unique(names \o o)
  BY <1>2, Concatenated
<1> HIDE DEF h
<1>7. \A x : ~(In(x, names) /\ In(x, o))
  BY <1>2, <1>3
<1>8. \A x : In(x, names) \/ In(x, o) <=> In(x, names) \/ In(x, h)
  BY <1>2, <1>3, <1>4
<1> QED
  BY <1>2, <1>5, <1>6, <1>7, <1>8 DEF h

\* The bases have lists of hooks.
HaveHooks(bases) ==
  \A i \in 1..Len(bases) : hooks[bases[i]] \in Seq(Name) /\ Unique(hooks[bases[i]])

\* Inherited, as a sequence of longer and longer lists.
LEMMA InheritedSolved ==
  ASSUME NEW T, NEW bases \in Seq(T), HaveHooks(bases)
  PROVE  \E g :
           /\ Inherited(bases) = g[Len(bases)] /\ g[0] = <<>>
           /\ \A i \in 0..Len(bases) : g[i] \in Seq(Name)
           /\ \A i \in 1..Len(bases) : g[i] = More(g[i - 1], bases[i])
<1> DEFINE n == Len(bases)
<1> DEFINE U == Seq(Name)
<1> DEFINE F == [x \in U \X (1..n) |-> More(x[1], bases[x[2]])]
<1>1. \A x \in U, i \in 1..n : F[<<x, i>>] = More(x, bases[i]) /\ F[<<x, i>>] \in U
  <2> SUFFICES ASSUME NEW x \in U, NEW i \in 1..n
               PROVE  F[<<x, i>>] = More(x, bases[i]) /\ F[<<x, i>>] \in U
    OBVIOUS
  <2>1. F[<<x, i>>] = More(x, bases[i])
    OBVIOUS
  <2>2. hooks[bases[i]] \in Seq(Name) /\ Unique(hooks[bases[i]])
    BY DEF HaveHooks
  <2> QED
    BY <2>1, <2>2, MoreKeeps
<1>2. n \in Nat /\ <<>> \in U
  OBVIOUS
<1> HIDE DEF F, U, n
<1>3. PICK g : /\ \A i \in 0..n : g[i] \in U
               /\ g[0] = <<>> /\ \A i \in 1..n : g[i] = F[<<g[i - 1], i>>]
  <2>1. StaysIn(F, U, n)
    BY <1>1 DEF StaysIn
  <2>2. \E g : Computes(g, F, <<>>, n) /\ \A i \in 0..n : g[i] \in U
    BY <1>2, <2>1, FiniteRecursion
  <2> QED
    BY <2>2 DEF Computes
<1>4. \A i \in 1..n : g[i] = More(g[i - 1], bases[i])
  <2> SUFFICES ASSUME NEW i \in 1..n
               PROVE  g[i] = More(g[i - 1], bases[i])
    OBVIOUS
  <2>1. g[i - 1] \in U
    BY <1>2, <1>3
  <2> QED
    BY <2>1, <1>1, <1>3
<1> DEFINE Solves(f) ==
      f = [i \in 0..n |-> IF i = 0 THEN <<>> ELSE More(f[i - 1], bases[i])]
<1> DEFINE f == [i \in 0..n |-> g[i]]
<1>5. Solves(f)
  BY <1>2, <1>3, <1>4
<1>6. PICK c : Solves(c) /\ Inherited(bases) = c[n]
  <2>1. Solves(CHOOSE e : Solves(e))
    BY <1>5, Zenon
  <2> QED
    BY <2>1 DEF Inherited, n
<1>7. c[0] = g[0]
  BY <1>2, <1>3, <1>6
<1>8. \A i \in 1..n : c[i - 1] = g[i - 1] => c[i] = g[i]
  <2> SUFFICES ASSUME NEW i \in 1..n, c[i - 1] = g[i - 1]
               PROVE  c[i] = g[i]
    OBVIOUS
  <2>1. i \in 0..n /\ i # 0
    BY <1>2
  <2>2. c[i] = More(c[i - 1], bases[i])
    BY <1>6, <2>1
  <2> QED
    BY <1>4, <2>2
<1>9. \A i \in 0..n : c[i] = g[i]
  <2>1. n \in Nat
    BY <1>2
  <2>2. Alike(c, g, n)
    BY <1>7, <1>8 DEF Alike
  <2> QED
    BY <2>1, <2>2, AlikeSame
<1>10. Inherited(bases) = g[n]
  BY <1>2, <1>6, <1>9
<1> QED
  BY <1>3, <1>4, <1>10 DEF U, n

\* What the class inherits: the hooks of its bases, each once.
LEMMA InheritedKeeps ==
  ASSUME NEW T, NEW bases \in Seq(T), HaveHooks(bases)
  PROVE  /\ Inherited(bases) \in Seq(Name) /\ Unique(Inherited(bases))
         /\ \A x : In(x, Inherited(bases)) <=> \E i \in 1..Len(bases) : In(x, hooks[bases[i]])
<1> DEFINE n == Len(bases)
<1>1. PICK g :
        /\ Inherited(bases) = g[n] /\ g[0] = <<>>
        /\ \A i \in 0..n : g[i] \in Seq(Name)
        /\ \A i \in 1..n : g[i] = More(g[i - 1], bases[i])
  BY InheritedSolved
<1>2. n \in Nat
  OBVIOUS
<1>3. \A i \in 1..n : hooks[bases[i]] \in Seq(Name) /\ Unique(hooks[bases[i]])
  BY DEF HaveHooks
<1> HIDE DEF n
<1>4. Unique(g[0]) /\ \A x : ~In(x, g[0])
  <2>1. Len(g[0]) = 0
    BY <1>1
  <2> QED
    BY <2>1 DEF In, Unique
<1> DEFINE Held(i) == \A x : In(x, g[i]) <=> \E k \in 1..i : In(x, hooks[bases[k]])
<1> DEFINE G == {i \in 0..n : Unique(g[i]) /\ Held(i)}
<1>5. 0 \in G
  BY <1>2, <1>4
<1>6. ASSUME NEW i \in 1..n, i - 1 \in G PROVE i \in G
  <2>1. /\ i \in 0..n /\ i - 1 \in 0..n
        /\ \A k : k \in 1..i <=> k \in 1..i - 1 \/ k = i
    BY <1>2
  <2>2. Unique(g[i - 1]) /\ Held(i - 1)
    BY <1>6
  <2>3. Unique(g[i]) /\ \A x : In(x, g[i]) <=> In(x, g[i - 1]) \/ In(x, hooks[bases[i]])
    <3> DEFINE names == g[i - 1]
    <3> DEFINE b == bases[i]
    <3>1. names \in Seq(Name) /\ hooks[b] \in Seq(Name) /\ Unique(hooks[b])
      BY <1>1, <1>3, <2>1
    <3>2. Unique(names) /\ g[i] = More(names, b)
      BY <1>1, <2>2
    <3> HIDE DEF names, b
    <3>3. /\ Unique(More(names, b))
          /\ \A x : In(x, More(names, b)) <=> In(x, names) \/ In(x, hooks[b])
      BY <3>1, <3>2, MoreKeeps
    <3> QED
      BY <3>2, <3>3 DEF names, b
  <2>4. Held(i)
    BY <2>1, <2>2, <2>3
  <2> QED
    BY <2>1, <2>3, <2>4
<1>7. n \in G
  <2> HIDE DEF G
  <2>1. 0..n \subseteq G
    BY <1>2, <1>5, <1>6, UpTo
  <2> QED
    BY <2>1, <1>2
<1>8. Unique(g[n]) /\ Held(n)
  BY <1>7
<1>9. g[n] \in Seq(Name)
  BY <1>1, <1>2
<1> QED
  BY <1>1, <1>8, <1>9 DEF n

-----------------------------------------------------------------------------
(* The linearization.                                                      *)

\* The least number of a set is its Min.
LEMMA MinLeast ==
  ASSUME NEW S, S \subseteq Nat, NEW x \in S, \A y \in S : x <= y
  PROVE  Min(S) = x
<1>1. Min(S) \in S /\ \A y \in S : Min(S) <= y
  BY DEF Min
<1>2. Min(S) <= x /\ x <= Min(S) /\ Min(S) \in Nat /\ x \in Nat
  BY <1>1
<1> QED
  BY <1>2

LEMMA MinMember ==
  ASSUME NEW S, S \subseteq Nat, S # {}
  PROVE  Min(S) \in S
<1>1. PICK x \in S : \A y \in S : x <= y
  BY LeastNat
<1> QED
  BY <1>1, MinLeast

\* What stands before an entry in one of the lists stands before it in out.
KeepsOrder(lists, out) ==
  \A q \in 1..Len(out), i \in DOMAIN lists :
    \A j \in 1..Len(lists[i]) : lists[i][j] = out[q] =>
      \A k \in 1..j - 1 : \E p \in 1..q - 1 : out[p] = lists[i][k]

ListsOver(lists, T) == DOMAIN lists \subseteq Nat /\ \A i \in DOMAIN lists : lists[i] \in Seq(T)

LEMMA MergeKeeps ==
  ASSUME NEW T, NEW lists, ListsOver(lists, T), NEW out \in Seq(T), KeepsOrder(lists, out)
  PROVE  Merge(lists, out) \in Seq(T) /\ KeepsOrder(lists, Merge(lists, out))
<1> DEFINE Ready(i) == {c \in ToSet(lists[i]) : Heads(lists, out, c)}
<1> DEFINE first == {i \in DOMAIN lists : Ready(i) # {}}
<1> DEFINE c == CHOOSE c \in Ready(Min(first)) : TRUE
<1>1. Merge(lists, out) = IF first = {} THEN out ELSE Append(out, c)
  BY DEF Merge
<1>2. CASE first = {}
  BY <1>1, <1>2
<1>3. CASE first # {}
  <2>1. Min(first) \in first
    <3>1. first \subseteq Nat
      BY DEF ListsOver
    <3> HIDE DEF first
    <3> QED
      BY <3>1, <1>3, MinMember
  <2>2. c \in Ready(Min(first)) /\ lists[Min(first)] \in Seq(T)
    BY <2>1 DEF ListsOver
  <2>3. c \in T /\ Heads(lists, out, c)
    <3> DEFINE l == lists[Min(first)]
    <3>1. c \in ToSet(l) /\ l \in Seq(T) /\ Heads(lists, out, c)
      BY <2>2
    <3> HIDE DEF c, l
    <3>2. In(c, l)
      BY <3>1, InIsMember
    <3> QED
      BY <3>1, <3>2 DEF In
  <2> HIDE DEF c, first
  <2> DEFINE n == Len(out)
  <2> DEFINE a == Append(out, c)
  <2>4. /\ n \in Nat /\ a \in Seq(T) /\ Len(a) = n + 1
        /\ \A i \in 1..n : a[i] = out[i]
        /\ a[n + 1] = c
    BY <2>3, AppendProperties
  <2>5. KeepsOrder(lists, a)
    <3>0. Len(a) = n + 1
      BY <2>4
    <3> HIDE DEF n, a
    <3> SUFFICES ASSUME NEW q \in 1..n + 1, NEW i \in DOMAIN lists,
                        NEW j \in 1..Len(lists[i]), lists[i][j] = a[q],
                        NEW k \in 1..j - 1
                 PROVE  \E p \in 1..q - 1 : a[p] = lists[i][k]
      BY <3>0 DEF KeepsOrder
    <3>1. DOMAIN out = 1..n /\ DOMAIN lists[i] = 1..Len(lists[i]) /\ lists[i] \in Seq(T)
      BY DEF ListsOver, n
    <3>2. CASE q \in 1..n
      <4>1. lists[i][j] = out[q]
        BY <3>2, <2>4
      <4>2. PICK p \in 1..q - 1 : out[p] = lists[i][k]
        BY <4>1, <3>2 DEF KeepsOrder, n
      <4>3. p \in 1..n
        BY <3>2, <2>4
      <4>4. a[p] = out[p]
        BY <4>3, <2>4
      <4> QED
        BY <4>2, <4>4
    <3>3. CASE q = n + 1
      <4>1. lists[i][j] = c
        BY <3>3, <2>4
      <4>2. PICK p \in DOMAIN out : out[p] = lists[i][k]
        BY <4>1, <3>1, <2>3 DEF Heads
      <4>3. p \in 1..n /\ p \in 1..q - 1
        BY <4>2, <3>1, <3>3, <2>4
      <4>4. a[p] = out[p]
        BY <4>3, <2>4
      <4> QED
        BY <4>2, <4>3, <4>4
    <3>4. q \in 1..n \/ q = n + 1
      BY <2>4
    <3> QED
      BY <3>2, <3>3, <3>4
  <2> QED
    BY <1>1, <1>3, <2>4, <2>5
<1> QED
  BY <1>2, <1>3

\* The bases and their linearizations.
HaveMros(bases) ==
  bases \in Seq(Class) /\ \A i \in 1..Len(bases) : mro[bases[i]] \in Seq(Class)

LEMMA ListsAre ==
  ASSUME NEW bases, HaveMros(bases)
  PROVE  ListsOver(Lists(bases), Class)
<1> DEFINE n == Len(bases)
<1>1. n \in Nat /\ bases \in Seq(Class) /\ \A i \in 1..n : mro[bases[i]] \in Seq(Class)
  BY DEF HaveMros
<1> HIDE DEF n
<1>2. Lists(bases) = [i \in 1..n + 1 |-> IF i > n THEN bases ELSE mro[bases[i]]]
  BY DEF Lists, n
<1>3. \A i \in 1..n + 1 : Lists(bases)[i] \in Seq(Class)
  BY <1>1, <1>2
<1>4. DOMAIN Lists(bases) = 1..n + 1 /\ 1..n + 1 \subseteq Nat
  BY <1>1, <1>2
<1> QED
  BY <1>3, <1>4 DEF ListsOver

\* Linear, as a sequence of longer and longer linearizations.
LEMMA LinearKeeps ==
  ASSUME NEW bases, HaveMros(bases), IsFiniteSet(Class)
  PROVE  Linear(bases) \in Seq(Class) /\ KeepsOrder(Lists(bases), Linear(bases))
<1> DEFINE n == Cardinality(Class)
<1> DEFINE lists == Lists(bases)
<1> DEFINE U == {out \in Seq(Class) : KeepsOrder(lists, out)}
<1> DEFINE F == [x \in U \X (1..n) |-> Merge(lists, x[1])]
<1>1. \A x \in U, i \in 1..n : F[<<x, i>>] = Merge(lists, x) /\ F[<<x, i>>] \in U
  <2> SUFFICES ASSUME NEW x \in U, NEW i \in 1..n
               PROVE  F[<<x, i>>] = Merge(lists, x) /\ F[<<x, i>>] \in U
    OBVIOUS
  <2>1. F[<<x, i>>] = Merge(lists, x)
    OBVIOUS
  <2>2. ListsOver(lists, Class) /\ x \in Seq(Class) /\ KeepsOrder(lists, x)
    BY ListsAre
  <2> HIDE DEF lists
  <2>3. Merge(lists, x) \in Seq(Class) /\ KeepsOrder(lists, Merge(lists, x))
    BY <2>2, MergeKeeps
  <2> QED
    BY <2>1, <2>3
<1>2. n \in Nat
  BY FS_CardinalityType
<1>3. <<>> \in U
  <2>1. \A q : q \notin 1..Len(<<>>)
    OBVIOUS
  <2> HIDE DEF lists
  <2>2. KeepsOrder(lists, <<>>)
    BY <2>1 DEF KeepsOrder
  <2> QED
    BY <2>2
<1> HIDE DEF F, U, n, lists
<1>4. PICK g : /\ \A i \in 0..n : g[i] \in U
               /\ g[0] = <<>> /\ \A i \in 1..n : g[i] = F[<<g[i - 1], i>>]
  <2>1. StaysIn(F, U, n)
    BY <1>1 DEF StaysIn
  <2>2. \E g : Computes(g, F, <<>>, n) /\ \A i \in 0..n : g[i] \in U
    BY <1>2, <1>3, <2>1, FiniteRecursion
  <2> QED
    BY <2>2 DEF Computes
<1>5. \A i \in 1..n : g[i] = Merge(lists, g[i - 1])
  <2> SUFFICES ASSUME NEW i \in 1..n
               PROVE  g[i] = Merge(lists, g[i - 1])
    OBVIOUS
  <2>1. g[i - 1] \in U
    BY <1>2, <1>4
  <2> QED
    BY <2>1, <1>1, <1>4
<1> DEFINE Solves(out) ==
      out = [k \in 0..n |-> IF k = 0 THEN <<>> ELSE Merge(lists, out[k - 1])]
<1> DEFINE f == [i \in 0..n |-> g[i]]
<1>6. Solves(f)
  BY <1>2, <1>4, <1>5
<1>7. PICK c : Solves(c) /\ Linear(bases) = c[n]
  <2>1. Solves(CHOOSE e : Solves(e))
    BY <1>6, Zenon
  <2> QED
    BY <2>1 DEF Linear, n, lists
<1>8. c[0] = g[0]
  BY <1>2, <1>4, <1>7
<1>9. \A i \in 1..n : c[i - 1] = g[i - 1] => c[i] = g[i]
  <2> SUFFICES ASSUME NEW i \in 1..n, c[i - 1] = g[i - 1]
               PROVE  c[i] = g[i]
    OBVIOUS
  <2>1. i \in 0..n /\ i # 0
    BY <1>2
  <2>2. c[i] = Merge(lists, c[i - 1])
    BY <1>7, <2>1
  <2> QED
    BY <1>5, <2>2
<1>10. \A i \in 0..n : c[i] = g[i]
  <2>1. n \in Nat
    BY <1>2
  <2>2. Alike(c, g, n)
    BY <1>8, <1>9 DEF Alike
  <2> QED
    BY <2>1, <2>2, AlikeSame
<1>11. Linear(bases) = g[n] /\ g[n] \in U
  BY <1>2, <1>4, <1>7, <1>10
<1> QED
  BY <1>11 DEF U, lists

-----------------------------------------------------------------------------
(* The member that Python's lookup selects.                                *)

Has(members, n) == \E k \in DOMAIN members : members[k].name = n

\* It is in the first class of the list that has the name.
LEMMA FirstOwner ==
  ASSUME NEW bodies, NEW T, NEW order \in Seq(T), NEW n, Owners(bodies, order, n) # {}
  PROVE  \E q \in 1..Len(order) :
           /\ OwnerIn(bodies, order, n) = order[q] /\ Has(bodies[order[q]], n)
           /\ \A p \in 1..q - 1 : ~Has(bodies[order[p]], n)
<1> DEFINE O == Owners(bodies, order, n)
<1>1. O = {i \in 1..Len(order) : Has(bodies[order[i]], n)}
  BY DEF Owners, Has
<1>2. O \subseteq Nat /\ O # {} /\ Len(order) \in Nat
  BY <1>1
<1> HIDE DEF O
<1>3. PICK q \in O : \A y \in O : q <= y
  BY <1>2, LeastNat
<1>4. Min(O) = q
  BY <1>2, <1>3, MinLeast
<1>5. \A p \in 1..q - 1 : ~Has(bodies[order[p]], n)
  <2> SUFFICES ASSUME NEW p \in 1..q - 1, Has(bodies[order[p]], n) PROVE FALSE
    OBVIOUS
  <2>1. p \in 1..Len(order) /\ ~(q <= p)
    BY <1>1, <1>2, <1>3
  <2> QED
    BY <2>1, <1>1, <1>3
<1> QED
  BY <1>1, <1>3, <1>4, <1>5 DEF OwnerIn, O

LEMMA OwnerIs ==
  ASSUME NEW bodies, NEW T, NEW order \in Seq(T), NEW n,
         NEW q \in 1..Len(order), Has(bodies[order[q]], n),
         \A p \in 1..q - 1 : ~Has(bodies[order[p]], n)
  PROVE  Owners(bodies, order, n) # {} /\ OwnerIn(bodies, order, n) = order[q]
<1> DEFINE O == Owners(bodies, order, n)
<1>1. O = {i \in 1..Len(order) : Has(bodies[order[i]], n)}
  BY DEF Owners, Has
<1>2. O \subseteq Nat /\ q \in O /\ Len(order) \in Nat
  BY <1>1
<1>3. \A y \in O : q <= y
  <2> SUFFICES ASSUME NEW y \in O, ~(q <= y) PROVE FALSE
    OBVIOUS
  <2>1. y \in 1..q - 1 /\ Has(bodies[order[y]], n)
    BY <1>1, <1>2
  <2> QED
    BY <2>1
<1> HIDE DEF O
<1>4. Min(O) = q
  BY <1>2, <1>3, MinLeast
<1> QED
  BY <1>2, <1>4 DEF OwnerIn, O

\* In particular, it is the class's own if the class has one.
LEMMA OwnFirst ==
  ASSUME NEW bodies, NEW T, NEW order \in Seq(T), NEW n,
         Len(order) # 0, Has(bodies[order[1]], n)
  PROVE  OwnerIn(bodies, order, n) = order[1]
<1> DEFINE q == 1
<1>1. q \in 1..Len(order) /\ Has(bodies[order[q]], n)
  OBVIOUS
<1>2. \A p \in 1..q - 1 : ~Has(bodies[order[p]], n)
  OBVIOUS
<1> HIDE DEF q
<1>3. Owners(bodies, order, n) # {} /\ OwnerIn(bodies, order, n) = order[q]
  BY <1>1, <1>2, OwnerIs
<1> QED
  BY <1>3 DEF q

\* It depends on the bodies of the classes in the list only.
LEMMA OwnerSame ==
  ASSUME NEW bodies, NEW others, NEW T, NEW order \in Seq(T), NEW n,
         \A i \in 1..Len(order) : bodies[order[i]] = others[order[i]]
  PROVE  /\ Owners(bodies, order, n) = Owners(others, order, n)
         /\ OwnerIn(bodies, order, n) = OwnerIn(others, order, n)
<1>1. Owners(bodies, order, n) = Owners(others, order, n)
  BY DEF Owners
<1> QED
  BY <1>1 DEF OwnerIn

LEMMA ResolvedSame ==
  ASSUME NEW bodies, NEW others, NEW T, NEW order \in Seq(T), NEW n,
         \A i \in 1..Len(order) : bodies[order[i]] = others[order[i]]
  PROVE  ResolvedIsHook(bodies, order, n) <=> ResolvedIsHook(others, order, n)
<1>1. Owners(bodies, order, n) = Owners(others, order, n)
  BY OwnerSame
<1>2. OwnerIn(bodies, order, n) = OwnerIn(others, order, n)
  BY OwnerSame
<1>3. CASE Owners(bodies, order, n) = {}
  BY <1>1, <1>3 DEF ResolvedIsHook
<1>4. CASE Owners(bodies, order, n) # {}
  <2>1. PICK q \in 1..Len(order) : OwnerIn(bodies, order, n) = order[q]
    BY <1>4, FirstOwner
  <2>2. bodies[order[q]] = others[order[q]]
    OBVIOUS
  <2> QED
    BY <2>1, <2>2, <1>1, <1>2 DEF ResolvedIsHook
<1> QED
  BY <1>3, <1>4

-----------------------------------------------------------------------------
(* The invariant: what is known of a class c.                              *)

Members(members) ==
  /\ members \in Seq(Method)
  /\ \A i, j \in 1..Len(members) : members[i].name = members[j].name => i = j

\* Its linearization begins with it and goes on with older classes.
Order(c, order) == order \in Seq(0..c) /\ Len(order) # 0 /\ order[1] = c

\* Its hooks are marked methods that lookup finds, each listed once, all that
\* come from a Subsystem class among them.
FromSubsystem(bodies, mros, order, n) ==
  /\ ResolvedIsHook(bodies, order, n)
  /\ IsSubsystem(mros[OwnerIn(bodies, order, n)])

HookList(bodies, mros, order, names) ==
  /\ names \in Seq(Name) /\ Unique(names)
  /\ \A n : In(n, names) => ResolvedIsHook(bodies, order, n)
  /\ \A n \in Name : FromSubsystem(bodies, mros, order, n) => In(n, names)

\* A class that has a Subsystem class in its MRO is one itself.
SubsystemUp(mros, order) ==
  \A i \in 1..Len(order) : IsSubsystem(mros[order[i]]) => IsSubsystem(order)

\* After a member of its own there are later members of its own only.
OwnOrder(members, names) ==
  \A y : \A k \in 1..Len(members) : Earlier(members[k].name, y, names) =>
    \E l \in 1..Len(members) : k < l /\ members[l].name = y

HookInv ==
  /\ \E k \in Nat : k # 0 /\ Class = 0..k - 1
  /\ DOMAIN mro = Class /\ DOMAIN hooks = Class
  /\ \A c \in Class : /\ Members(body[c]) /\ Order(c, mro[c])
                       /\ SubsystemUp(mro, mro[c])
                       /\ HookList(body, mro, mro[c], hooks[c]) /\ OwnOrder(body[c], hooks[c])

LEMMA HookInvInit == HookInit => HookInv
<1> SUFFICES ASSUME HookInit PROVE HookInv
  OBVIOUS
<1>1. Class = {0} /\ DOMAIN mro = {0} /\ DOMAIN hooks = {0}
  BY DEF HookInit, Class, Root
<1>2. body[0] = <<>> /\ mro[0] = <<0>> /\ hooks[0] = <<>>
  BY DEF HookInit, Root
<1>3. Len(body[0]) = 0 /\ DOMAIN body[0] = {} /\ body[0] \in Seq(Method)
  BY <1>2
<1>4. Len(hooks[0]) = 0 /\ hooks[0] \in Seq(Name)
  BY <1>2
<1>5. mro[0] \in Seq(0..0) /\ Len(mro[0]) = 1 /\ mro[0][1] = 0 /\ DOMAIN mro[0] = {1}
  BY <1>2
<1>6. Members(body[0])
  BY <1>3 DEF Members
<1>7. Order(0, mro[0])
  BY <1>5 DEF Order
<1>8. \A n : ~ResolvedIsHook(body, mro[0], n)
  BY <1>3, <1>5 DEF ResolvedIsHook, Owners
<1>9. HookList(body, mro, mro[0], hooks[0])
  BY <1>4, <1>8 DEF HookList, FromSubsystem, In, Unique
<1>10. OwnOrder(body[0], hooks[0])
  BY <1>3 DEF OwnOrder
<1>11. {0} = 0..1 - 1 /\ 1 \in Nat
  OBVIOUS
<1>12. SubsystemUp(mro, mro[0])
  BY <1>5 DEF SubsystemUp
<1> QED
  BY <1>1, <1>6, <1>7, <1>9, <1>10, <1>11, <1>12 DEF HookInv

-----------------------------------------------------------------------------
(* One more class.                                                         *)

LEMMA LongerSeq ==
  ASSUME NEW S, NEW T, S \subseteq T, NEW s \in Seq(S)
  PROVE  s \in Seq(T)
  OBVIOUS

\* What the class statement finds: the classes so far, and those it is over.
LEMMA BasesAre ==
  ASSUME HookInv, NEW bases \in BaseLists
  PROVE  /\ Cardinality(Class) \in Nat \ {0} /\ Class = 0..Cardinality(Class) - 1
         /\ IsFiniteSet(Class) /\ HaveMros(bases) /\ HaveHooks(bases)
<1>1. PICK k \in Nat : k # 0 /\ Class = 0..k - 1
  BY DEF HookInv
<1>2. IsFiniteSet(0..k - 1) /\ Cardinality(0..k - 1) = k
  BY <1>1, FS_Interval
<1>3. bases \in Seq(Class)
  <2>1. PICK m \in 0..MaxBases : bases \in [1..m -> Class]
    BY DEF BaseLists
  <2>2. m \in Nat
    BY BodyAssumption
  <2> QED
    BY <2>1, <2>2
<1>4. ASSUME NEW b \in Class
      PROVE  mro[b] \in Seq(Class) /\ hooks[b] \in Seq(Name) /\ Unique(hooks[b])
  <2>1. Order(b, mro[b]) /\ HookList(body, mro, mro[b], hooks[b])
    BY DEF HookInv
  <2>2. mro[b] \in Seq(0..b) /\ 0..b \subseteq Class
    BY <2>1, <1>1 DEF Order
  <2> QED
    BY <2>1, <2>2, LongerSeq DEF HookList
<1>5. \A i \in 1..Len(bases) : bases[i] \in Class
  BY <1>3
<1> QED
  BY <1>1, <1>2, <1>3, <1>4, <1>5 DEF HaveMros, HaveHooks

\* Its linearization: the class itself, then that of the bases.
LEMMA OrderOfNew ==
  ASSUME HookInv, NEW bases \in BaseLists
  PROVE  LET c == Cardinality(Class)
             linear == Linear(bases)
             order == <<c>> \o linear
         IN  /\ order \in Seq(0..c) /\ linear \in Seq(0..c - 1)
             /\ Len(order) = Len(linear) + 1 /\ order[1] = c
             /\ \A i \in 1..Len(linear) : order[i + 1] = linear[i]
<1> DEFINE c == Cardinality(Class)
<1> DEFINE l == Linear(bases)
<1>1. c \in Nat /\ l \in Seq(0..c - 1)
  BY BasesAre, LinearKeeps
<1> HIDE DEF c, l
<1>2. c \in 0..c /\ 0..c - 1 \subseteq 0..c
  BY <1>1
<1> DEFINE T == 0..c
<1>3. l \in Seq(T) /\ c \in T
  BY <1>1, <1>2, LongerSeq
<1> HIDE DEF T
<1>4. <<c>> \in Seq(T) /\ Len(<<c>>) = 1 /\ <<c>>[1] = c
  BY <1>3
<1>5. /\ <<c>> \o l \in Seq(T) /\ Len(<<c>> \o l) = 1 + Len(l) /\ Len(l) \in Nat
      /\ \A i \in 1..1 + Len(l) : (<<c>> \o l)[i] = IF i <= 1 THEN <<c>>[i] ELSE l[i - 1]
  BY <1>3, <1>4, ConcatProperties
<1>6. (<<c>> \o l)[1] = c
  <2>1. 1 \in 1..1 + Len(l) /\ 1 <= 1
    BY <1>5
  <2> QED
    BY <2>1, <1>4, <1>5
<1>7. ASSUME NEW i \in 1..Len(l) PROVE (<<c>> \o l)[i + 1] = l[i]
  <2>1. i + 1 \in 1..1 + Len(l) /\ ~(i + 1 <= 1) /\ (i + 1) - 1 = i
    BY <1>5
  <2> QED
    BY <2>1, <1>5
<1>8. 1 + Len(l) = Len(l) + 1
  BY <1>5
<1> QED
  BY <1>1, <1>5, <1>6, <1>7, <1>8 DEF c, l, T

\* Its members come from the linearizations of the bases.
LEMMA BaseHas ==
  ASSUME HookInv, NEW bases \in BaseLists, Linearizable(bases), NEW d,
         In(d, Linear(bases))
  PROVE  \E i \in 1..Len(bases), j \in Nat : /\ bases[i] \in Class
                                             /\ mro[bases[i]] \in Seq(Class)
                                             /\ j \in 1..Len(mro[bases[i]])
                                             /\ mro[bases[i]][j] = d
<1> DEFINE linear == Linear(bases)
<1>1. HaveMros(bases) /\ linear \in Seq(0..Cardinality(Class) - 1)
  BY BasesAre, OrderOfNew
<1>2. ToSet(linear) = UNION {ToSet(mro[b]) : b \in ToSet(bases)}
  BY DEF Linearizable
<1> HIDE DEF linear
<1>3. bases \in Seq(Class) /\ \A i \in 1..Len(bases) : mro[bases[i]] \in Seq(Class)
  BY <1>1 DEF HaveMros
<1>4. d \in ToSet(linear)
  BY <1>1, InIsMember DEF linear
<1>5. PICK b \in ToSet(bases) : d \in ToSet(mro[b])
  BY <1>2, <1>4
<1>6. In(b, bases)
  BY <1>3, InIsMember
<1>7. PICK i \in 1..Len(bases) : bases[i] = b
  BY <1>6 DEF In
<1>8. mro[b] \in Seq(Class) /\ bases[i] \in Class
  BY <1>3, <1>7
<1>9. In(d, mro[b])
  BY <1>5, <1>8, InIsMember
<1>10. PICK j \in 1..Len(mro[b]) : mro[b][j] = d
  BY <1>9 DEF In
<1> QED
  BY <1>7, <1>8, <1>10

\* The new class is a Subsystem if a class it is over is one.
LEMMA SubsystemUpNew ==
  ASSUME HookInv, NEW bases \in BaseLists, Linearizable(bases)
  PROVE  LET c == Cardinality(Class)
             order == <<c>> \o Linear(bases)
         IN  SubsystemUp(With(mro, c, order), order)
<1> DEFINE c == Cardinality(Class)
<1> DEFINE linear == Linear(bases)
<1> DEFINE order == <<c>> \o linear
<1> DEFINE mros == With(mro, c, order)
<1>1. c \in Nat /\ Class = 0..c - 1 /\ HaveMros(bases)
  BY BasesAre
<1>2. /\ order \in Seq(0..c) /\ linear \in Seq(0..c - 1)
      /\ Len(order) = Len(linear) + 1 /\ order[1] = c
      /\ \A i \in 1..Len(linear) : order[i + 1] = linear[i]
  BY OrderOfNew
<1>3. ToSet(linear) = UNION {ToSet(mro[b]) : b \in ToSet(bases)}
  BY DEF Linearizable
<1> HIDE DEF order
<1>4. mros[c] = order /\ \A d \in Class : mros[d] = mro[d]
  <2>1. c \notin Class
    BY <1>1
  <2> HIDE DEF c
  <2> QED
    BY <2>1 DEF With
<1> HIDE DEF c, linear, mros
<1>5. Len(linear) \in Nat
  BY <1>2
<1> SUFFICES ASSUME NEW q \in 1..Len(order), IsSubsystem(mros[order[q]])
             PROVE  IsSubsystem(order)
  BY DEF SubsystemUp, c, linear, order, mros
<1>6. CASE q = 1
  BY <1>2, <1>4, <1>6
<1>7. CASE q # 1
  <2> DEFINE r == q - 1
  <2>1. r \in 1..Len(linear) /\ r + 1 = q
    BY <1>2, <1>5, <1>7
  <2> HIDE DEF r
  <2>2. order[q] = linear[r] /\ In(linear[r], linear)
    BY <2>1, <1>2 DEF In
  <2> DEFINE d == linear[r]
  <2>3. PICK i \in 1..Len(bases), j \in Nat :
          /\ bases[i] \in Class /\ mro[bases[i]] \in Seq(Class)
          /\ j \in 1..Len(mro[bases[i]]) /\ mro[bases[i]][j] = d
    BY <2>2, BaseHas DEF linear
  <2> HIDE DEF d
  <2> DEFINE b == bases[i]
  <2>4. d \in Class
    <3> DEFINE o == mro[bases[i]]
    <3>1. o \in Seq(Class) /\ j \in 1..Len(o) /\ o[j] = d
      BY <2>3
    <3> HIDE DEF o
    <3> QED
      BY <3>1
  <2>5. IsSubsystem(mro[d])
    BY <2>2, <2>4, <1>4 DEF d
  <2>6. SubsystemUp(mro, mro[b])
    BY <2>3 DEF HookInv
  <2>7. IsSubsystem(mro[b])
    BY <2>3, <2>5, <2>6 DEF SubsystemUp
  <2>8. b \in ToSet(bases)
    <3>1. bases \in Seq(Class) /\ In(b, bases)
      BY <1>1 DEF HaveMros, In
    <3> HIDE DEF b
    <3> QED
      BY <3>1, InIsMember
  <2>9. Root \in ToSet(linear)
    BY <2>7, <2>8, <1>3 DEF IsSubsystem
  <2>10. In(Root, linear)
    BY <2>9, <1>2, InIsMember
  <2>11. PICK k \in 1..Len(linear) : linear[k] = Root
    BY <2>10 DEF In
  <2>12. k + 1 \in 1..Len(order) /\ order[k + 1] = Root
    BY <2>11, <1>2, <1>5
  <2>13. In(Root, order)
    BY <2>12 DEF In
  <2> QED
    BY <2>13, <1>2, InIsMember DEF IsSubsystem
<1> QED
  BY <1>6, <1>7

\* A hook that lookup finds in a Subsystem class other than this one is a hook
\* of one of the bases: in the linearization of that base the member is
\* found first as well.
LEMMA HookOfBase ==
  ASSUME HookInv, NEW bases \in BaseLists, Linearizable(bases), NEW members,
         NEW n \in Name, ~Has(members, n),
         LET c == Cardinality(Class)
             order == <<c>> \o Linear(bases)
         IN  FromSubsystem(With(body, c, members), With(mro, c, order), order, n)
  PROVE  \E i \in 1..Len(bases) : In(n, hooks[bases[i]])
<1> DEFINE c == Cardinality(Class)
<1> DEFINE bodies == With(body, c, members)
<1> DEFINE linear == Linear(bases)
<1> DEFINE order == <<c>> \o linear
<1> DEFINE mros == With(mro, c, order)
<1>1. /\ c \in Nat /\ Class = 0..c - 1
      /\ HaveMros(bases) /\ IsFiniteSet(Class)
  BY BasesAre
<1>2. /\ order \in Seq(0..c) /\ linear \in Seq(0..c - 1)
      /\ Len(order) = Len(linear) + 1 /\ order[1] = c
      /\ \A i \in 1..Len(linear) : order[i + 1] = linear[i]
  BY OrderOfNew
<1>3. bodies[c] = members /\ \A d \in Class : bodies[d] = body[d] /\ mros[d] = mro[d]
  <2>1. c \notin Class
    BY <1>1
  <2> HIDE DEF c, order
  <2>2. /\ With(body, c, members)[c] = members
        /\ \A d \in Class : /\ With(body, c, members)[d] = body[d]
                            /\ With(mro, c, order)[d] = mro[d]
    BY <2>1 DEF With
  <2> QED
    BY <2>2
<1>4. /\ ResolvedIsHook(bodies, order, n)
      /\ IsSubsystem(mros[OwnerIn(bodies, order, n)])
  BY DEF FromSubsystem
<1>5. KeepsOrder(Lists(bases), linear)
  BY <1>1, LinearKeeps
<1> HIDE DEF c, bodies, linear, order, mros
<1>7. Owners(bodies, order, n) # {}
  BY <1>4 DEF ResolvedIsHook
<1>8. PICK q \in 1..Len(order) :
        /\ OwnerIn(bodies, order, n) = order[q] /\ Has(bodies[order[q]], n)
        /\ \A p \in 1..q - 1 : ~Has(bodies[order[p]], n)
  BY <1>2, <1>7, FirstOwner
<1>9. q # 1
  BY <1>2, <1>3, <1>8
<1> DEFINE r == q - 1
<1> DEFINE d == linear[r]
<1>10. r \in 1..Len(linear) /\ r + 1 = q /\ d = order[q]
  BY <1>2, <1>8, <1>9
<1>11. \A p \in 1..r - 1 : ~Has(bodies[linear[p]], n)
  <2> SUFFICES ASSUME NEW p \in 1..r - 1 PROVE ~Has(bodies[linear[p]], n)
    OBVIOUS
  <2>1. p + 1 \in 1..q - 1 /\ p \in 1..Len(linear)
    BY <1>10
  <2> QED
    BY <2>1, <1>2, <1>8
<1>12. In(d, linear)
  BY <1>10 DEF In
<1>13. PICK i \in 1..Len(bases), j \in Nat :
         /\ bases[i] \in Class /\ mro[bases[i]] \in Seq(Class)
         /\ j \in 1..Len(mro[bases[i]]) /\ mro[bases[i]][j] = d
  BY <1>12, BaseHas DEF linear
<1> DEFINE b == bases[i]
<1> DEFINE o == mro[b]
<1>14. b \in Class /\ o \in Seq(Class) /\ j \in 1..Len(o) /\ o[j] = d
  BY <1>13
<1>15. Lists(bases)[i] = o /\ i \in DOMAIN Lists(bases)
  <2> DEFINE m == Len(bases)
  <2>1. bases \in Seq(Class)
    BY <1>1 DEF HaveMros
  <2>2. m \in Nat
    BY <2>1
  <2>3. i \in 1..m
    OBVIOUS
  <2> HIDE DEF m
  <2>4. i \in 1..m + 1 /\ ~(i > m)
    BY <2>2, <2>3
  <2>5. Lists(bases) = [a \in 1..m + 1 |-> IF a > m THEN bases ELSE mro[bases[a]]]
    BY DEF Lists, m
  <2> QED
    BY <2>4, <2>5
<1> HIDE DEF b, o, d, r
<1>16. \A k \in 1..j - 1 : \E p \in 1..r - 1 : linear[p] = o[k]
  <2>1. linear[r] = d
    BY DEF d
  <2> QED
    BY <2>1, <1>5, <1>10, <1>14, <1>15 DEF KeepsOrder
<1>17. \A k \in 1..Len(o) : bodies[o[k]] = body[o[k]]
  BY <1>3, <1>14
<1>18. Has(bodies[o[j]], n) /\ \A k \in 1..j - 1 : ~Has(bodies[o[k]], n)
  BY <1>8, <1>10, <1>11, <1>14, <1>16
<1>19. Owners(bodies, o, n) # {} /\ OwnerIn(bodies, o, n) = o[j]
  BY <1>14, <1>18, OwnerIs
<1>20. ResolvedIsHook(bodies, o, n)
  BY <1>4, <1>8, <1>10, <1>14, <1>19 DEF ResolvedIsHook
<1>21. ResolvedIsHook(body, o, n)
  BY <1>14, <1>17, <1>20, ResolvedSame
<1>22. In(n, hooks[b])
  <2>1. HookList(body, mro, mro[b], hooks[b])
    BY <1>14 DEF HookInv
  <2>2. OwnerIn(body, o, n) = o[j]
    <3>1. j \in 1..Len(o) /\ 1..j - 1 \subseteq 1..Len(o)
      BY <1>14
    <3>2. Has(body[o[j]], n) /\ \A k \in 1..j - 1 : ~Has(body[o[k]], n)
      BY <3>1, <1>17, <1>18
    <3> QED
      BY <3>2, <1>14, OwnerIs
  <2>3. o[j] \in Class
    BY <1>14
  <2>4. IsSubsystem(mro[o[j]])
    BY <2>3, <1>3, <1>4, <1>8, <1>10, <1>14
  <2>5. FromSubsystem(body, mro, o, n)
    BY <2>2, <2>4, <1>21 DEF FromSubsystem
  <2> QED
    BY <2>1, <2>5 DEF HookList, o
<1> QED
  BY <1>22 DEF b

\* The hooks of the new class.
LEMMA HooksOfNew ==
  ASSUME HookInv, NEW bases \in BaseLists, Linearizable(bases), NEW members \in Body
  PROVE  LET bodies == With(body, Cardinality(Class), members)
             order == <<Cardinality(Class)>> \o Linear(bases)
             mros == With(mro, Cardinality(Class), order)
             names == InitSubclass(bodies, order, bases, members)
         IN  /\ Members(members) /\ HookList(bodies, mros, order, names)
             /\ OwnOrder(members, names)
<1> DEFINE c == Cardinality(Class)
<1> DEFINE bodies == With(body, c, members)
<1> DEFINE order == <<c>> \o Linear(bases)
<1> DEFINE inherited == Inherited(bases)
<1> DEFINE own == Own(inherited, members)
<1> DEFINE mros == With(mro, c, order)
<1> DEFINE names == Filter(bodies, order, own)
<1>0. names = InitSubclass(bodies, order, bases, members)
  BY DEF InitSubclass
<1>1. Members(members)
  <2>1. members \in Seq(Method) /\ DOMAIN members = 1..Len(members)
    BY BodyAssumption
  <2> QED
    BY <2>1, BodyAssumption DEF Members
<1>2. c \in Nat /\ Class = 0..c - 1 /\ HaveHooks(bases) /\ bases \in Seq(Class)
  BY BasesAre DEF HaveMros
<1>3. /\ inherited \in Seq(Name) /\ Unique(inherited)
      /\ \A x : In(x, inherited) <=> \E i \in 1..Len(bases) : In(x, hooks[bases[i]])
  BY <1>2, InheritedKeeps
<1> HIDE DEF inherited
<1>4. /\ own \in Seq(Name) /\ Unique(own)
      /\ \A x : In(x, own) <=>
             \/ \E k \in 1..Len(members) : members[k].name = x /\ members[k].marked
             \/ In(x, inherited) /\ \A k \in 1..Len(members) : members[k].name # x
      /\ OwnOrder(members, own)
  BY <1>1, <1>3, OwnKeeps DEF Members, OwnOrder
<1> HIDE DEF own
<1>5. /\ names \in Seq(Name) /\ Unique(names)
      /\ \A x : In(x, names) <=> In(x, own) /\ ResolvedIsHook(bodies, order, x)
      /\ \A x, y : Earlier(x, y, names) => Earlier(x, y, own)
  <2> DEFINE S == {n \in ToSet(own) : ResolvedIsHook(bodies, order, n)}
  <2>1. names = Only(own, S)
    BY DEF Filter
  <2>2. \A x : In(x, own) => (x \in S <=> ResolvedIsHook(bodies, order, x))
    <3>1. \A x : x \in ToSet(own) <=> In(x, own)
      BY <1>4, InIsMember
    <3> QED
      BY <3>1
  <2> HIDE DEF S, names, bodies, order, mros
  <2>3. /\ Only(own, S) \in Seq(Name) /\ Unique(Only(own, S))
        /\ \A x : In(x, Only(own, S)) <=> In(x, own) /\ x \in S
        /\ \A x, y : Earlier(x, y, Only(own, S)) => Earlier(x, y, own)
    BY <1>4, OnlyKeeps, OnlyUnique
  <2> QED
    BY <2>1, <2>2, <2>3
<1>6. ASSUME NEW n \in Name, FromSubsystem(bodies, mros, order, n) PROVE In(n, own)
  <2>0. ResolvedIsHook(bodies, order, n)
    BY <1>6 DEF FromSubsystem
  <2>1. CASE Has(members, n)
    <3>1. order \in Seq(0..c) /\ Len(order) \in Nat /\ 1 \in 1..Len(order) /\ order[1] = c
      <4>1. order \in Seq(0..c) /\ order[1] = c /\ Linear(bases) \in Seq(0..c - 1)
            /\ Len(order) = Len(Linear(bases)) + 1
        BY OrderOfNew
      <4>2. Len(Linear(bases)) \in Nat
        BY <4>1
      <4> HIDE DEF order
      <4> QED
        BY <4>1, <4>2
    <3>2. bodies[c] = members
      <4> HIDE DEF c
      <4> QED
        BY DEF With
    <3> HIDE DEF bodies, order, c, mros
    <3>3. Has(bodies[order[1]], n) /\ Len(order) # 0
      BY <2>1, <3>1, <3>2
    <3>4. OwnerIn(bodies, order, n) = order[1]
      BY <3>1, <3>3, OwnFirst
    <3>5. [name |-> n, marked |-> TRUE] \in ToSet(members)
      BY <3>1, <3>2, <3>4, <2>0 DEF ResolvedIsHook
    <3>6. In([name |-> n, marked |-> TRUE], members)
      BY <3>5, <1>1, InIsMember DEF Members
    <3>7. \E k \in 1..Len(members) : members[k].name = n /\ members[k].marked
      BY <3>6 DEF In
    <3> QED
      BY <3>7, <1>4
  <2>2. CASE ~Has(members, n)
    <3>1. \E i \in 1..Len(bases) : In(n, hooks[bases[i]])
      BY <2>2, <1>6, HookOfBase
    <3>2. \A k \in 1..Len(members) : members[k].name # n
      <4>1. DOMAIN members = 1..Len(members)
        BY <1>1 DEF Members
      <4> QED
        BY <4>1, <2>2 DEF Has
    <3> QED
      BY <3>1, <3>2, <1>3, <1>4
  <2> QED
    BY <2>1, <2>2
<1> HIDE DEF bodies, order, mros, names
<1>7. HookList(bodies, mros, order, names)
  <2>1. \A n \in Name : FromSubsystem(bodies, mros, order, n) => ResolvedIsHook(bodies, order, n)
    BY DEF FromSubsystem
  <2> QED
    BY <2>1, <1>5, <1>6 DEF HookList
<1>8. OwnOrder(members, names)
  BY <1>4, <1>5 DEF OwnOrder
<1> QED
  BY <1>0, <1>1, <1>7, <1>8 DEF bodies, order, mros

\* A class that is no Subsystem has none, and needs none.
LEMMA HooksOfPlain ==
  ASSUME NEW bodies, NEW mros, NEW T, NEW order \in Seq(T), NEW members,
         SubsystemUp(mros, order), ~IsSubsystem(order)
  PROVE  HookList(bodies, mros, order, <<>>) /\ OwnOrder(members, <<>>)
<1>1. ASSUME NEW n, FromSubsystem(bodies, mros, order, n) PROVE FALSE
  <2>1. /\ Owners(bodies, order, n) # {}
        /\ IsSubsystem(mros[OwnerIn(bodies, order, n)])
    BY <1>1 DEF FromSubsystem, ResolvedIsHook
  <2>2. PICK q \in 1..Len(order) :
          /\ OwnerIn(bodies, order, n) = order[q] /\ Has(bodies[order[q]], n)
          /\ \A p \in 1..q - 1 : ~Has(bodies[order[p]], n)
    <3>1. Owners(bodies, order, n) # {}
      BY <2>1
    <3> QED
      BY <3>1, FirstOwner
  <2> QED
    BY <2>1, <2>2 DEF SubsystemUp
<1>2. <<>> \in Seq(Name) /\ Len(<<>>) = 0
  OBVIOUS
<1>3. Unique(<<>>) /\ (\A n : ~In(n, <<>>)) /\ \A x, y : ~Earlier(x, y, <<>>)
  BY <1>2 DEF Unique, In, Earlier
<1> QED
  BY <1>1, <1>2, <1>3 DEF HookList, OwnOrder

LEMMA HookInvStep == HookInv /\ [HookNext]_hookVars => HookInv'
<1> SUFFICES ASSUME HookInv, [HookNext]_hookVars PROVE HookInv'
  OBVIOUS
<1>1. CASE UNCHANGED hookVars
  BY <1>1 DEF HookInv, hookVars, Class
<1>2. ASSUME NEW bases \in BaseLists, NEW members \in Body, DefineClass(bases, members)
      PROVE  HookInv'
  <2> DEFINE c == Cardinality(Class)
  <2> DEFINE bodies == With(body, c, members)
  <2> DEFINE order == <<c>> \o Linear(bases)
  <2> DEFINE mros == With(mro, c, order)
  <2> DEFINE names == IF IsSubsystem(order) THEN InitSubclass(bodies, order, bases, members)
                                            ELSE <<>>
  <2>1. /\ Linearizable(bases)
        /\ body' = bodies /\ mro' = mros /\ hooks' = With(hooks, c, names)
    BY <1>2 DEF DefineClass
  <2>2. c \in Nat /\ Class = 0..c - 1
    BY BasesAre
  <2>3. /\ Members(members) /\ HookList(bodies, mros, order, names)
        /\ OwnOrder(members, names) /\ SubsystemUp(mros, order)
    <3>1. /\ Members(members)
          /\ HookList(bodies, mros, order, InitSubclass(bodies, order, bases, members))
          /\ OwnOrder(members, InitSubclass(bodies, order, bases, members))
      BY <2>1, HooksOfNew
    <3>2. SubsystemUp(mros, order)
      BY <2>1, SubsystemUpNew
    <3>3. order \in Seq(0..c)
      BY OrderOfNew
    <3> HIDE DEF bodies, order, mros
    <3>4. CASE IsSubsystem(order)
      BY <3>1, <3>2, <3>4
    <3>5. CASE ~IsSubsystem(order)
      BY <3>1, <3>2, <3>3, <3>5, HooksOfPlain
    <3> QED
      BY <3>4, <3>5
  <2>4. Order(c, order)
    <3>1. /\ order \in Seq(0..c) /\ Linear(bases) \in Seq(0..c - 1)
          /\ Len(order) = Len(Linear(bases)) + 1 /\ order[1] = c
      BY OrderOfNew
    <3>2. Len(Linear(bases)) \in Nat
      BY <3>1
    <3> HIDE DEF order, c
    <3> QED
      BY <3>1, <3>2 DEF Order
  <2> HIDE DEF c, order, mros, names
  <2>5. /\ DOMAIN body' = Class \cup {c} /\ DOMAIN mro' = Class \cup {c}
        /\ DOMAIN hooks' = Class \cup {c}
        /\ body'[c] = members /\ mro'[c] = order /\ hooks'[c] = names
    BY <2>1 DEF With, mros
  <2>6. \A d \in Class : body'[d] = body[d] /\ mro'[d] = mro[d] /\ hooks'[d] = hooks[d]
    <3>1. c \notin Class
      BY <2>2
    <3> QED
      BY <2>1, <3>1 DEF With, mros
  <2>7. Class' = Class \cup {c} /\ Class \cup {c} = 0..(c + 1) - 1
    <3>1. Class' = DOMAIN body'
      BY DEF Class
    <3>2. Class \cup {c} = 0..(c + 1) - 1
      BY <2>2
    <3> QED
      BY <3>1, <3>2, <2>5
  <2>8. ASSUME NEW d \in Class
        PROVE  HookList(body', mro', mro[d], hooks[d]) /\ SubsystemUp(mro', mro[d])
    <3>1. /\ Order(d, mro[d]) /\ HookList(body, mro, mro[d], hooks[d])
          /\ SubsystemUp(mro, mro[d])
      BY DEF HookInv
    <3>2. mro[d] \in Seq(0..d) /\ 0..d \subseteq Class
      BY <3>1, <2>2 DEF Order
    <3>3. \A i \in 1..Len(mro[d]) : /\ body[mro[d][i]] = body'[mro[d][i]]
                                    /\ mro[mro[d][i]] = mro'[mro[d][i]]
      <4> DEFINE o == mro[d]
      <4>1. o \in Seq(Class)
        BY <3>2, LongerSeq
      <4> HIDE DEF o
      <4>2. \A i \in 1..Len(o) : o[i] \in Class
        BY <4>1
      <4>3. \A i \in 1..Len(o) : body[o[i]] = body'[o[i]] /\ mro[o[i]] = mro'[o[i]]
        BY <4>2, <2>6
      <4> QED
        BY <4>3 DEF o
    <3>4. \A n : ResolvedIsHook(body, mro[d], n) <=> ResolvedIsHook(body', mro[d], n)
      BY <3>2, <3>3, ResolvedSame
    <3>5. ASSUME NEW n, FromSubsystem(body', mro', mro[d], n)
          PROVE  FromSubsystem(body, mro, mro[d], n)
      <4>1. /\ ResolvedIsHook(body', mro[d], n) /\ Owners(body', mro[d], n) # {}
            /\ IsSubsystem(mro'[OwnerIn(body', mro[d], n)])
        BY <3>5 DEF FromSubsystem, ResolvedIsHook
      <4>2. OwnerIn(body, mro[d], n) = OwnerIn(body', mro[d], n)
        BY <3>2, <3>3, OwnerSame
      <4>3. PICK q \in 1..Len(mro[d]) :
              /\ OwnerIn(body', mro[d], n) = mro[d][q] /\ Has(body'[mro[d][q]], n)
              /\ \A p \in 1..q - 1 : ~Has(body'[mro[d][p]], n)
        <5>1. mro[d] \in Seq(0..d) /\ Owners(body', mro[d], n) # {}
          BY <3>2, <4>1
        <5> QED
          BY <5>1, FirstOwner
      <4>4. mro'[mro[d][q]] = mro[mro[d][q]]
        BY <3>3
      <4>5. IsSubsystem(mro[OwnerIn(body, mro[d], n)])
        BY <4>1, <4>2, <4>3, <4>4
      <4>6. ResolvedIsHook(body, mro[d], n)
        BY <3>4, <4>1
      <4> QED
        BY <4>5, <4>6 DEF FromSubsystem
    <3>6. SubsystemUp(mro', mro[d])
      BY <3>1, <3>3 DEF SubsystemUp
    <3> QED
      BY <3>1, <3>4, <3>5, <3>6 DEF HookList
  <2>9. ASSUME NEW d \in Class'
        PROVE  /\ Members(body'[d]) /\ Order(d, mro'[d]) /\ SubsystemUp(mro', mro'[d])
               /\ HookList(body', mro', mro'[d], hooks'[d]) /\ OwnOrder(body'[d], hooks'[d])
    <3>1. CASE d = c
      BY <3>1, <2>1, <2>3, <2>4, <2>5
    <3>2. CASE d \in Class
      BY <3>2, <2>6, <2>8 DEF HookInv
    <3> QED
      BY <3>1, <3>2, <2>7
  <2>10. \E k \in Nat : k # 0 /\ Class' = 0..k - 1
    <3>1. c + 1 \in Nat /\ c + 1 # 0
      BY <2>2
    <3>2. Class' = 0..(c + 1) - 1
      BY <2>7
    <3> QED
      BY <3>1, <3>2
  <2>11. DOMAIN mro' = Class' /\ DOMAIN hooks' = Class'
    BY <2>5, <2>7
  <2> QED
    BY <2>9, <2>10, <2>11 DEF HookInv
<1> QED
  BY <1>1, <1>2 DEF HookNext

LEMMA HookInvAlways == HookSpec => []HookInv
  BY HookInvInit, HookInvStep, PTL DEF HookSpec

-----------------------------------------------------------------------------
(* What an instance runs.                                                  *)

LEMMA HooksResolved == HookInv => HooksResolve
<1> SUFFICES ASSUME HookInv, NEW c \in Class
             PROVE  LET resolved == {n \in Name : ResolvedIsHook(body, mro[c], n)}
                    IN  /\ ToSet(hooks[c]) \subseteq resolved
                        /\ {n \in resolved : IsSubsystem(mro[Owner(c, n)])} \subseteq ToSet(hooks[c])
                        /\ Len(hooks[c]) = Cardinality(ToSet(hooks[c]))
  BY DEF HooksResolve
<1> DEFINE names == hooks[c]
<1>1. /\ names \in Seq(Name) /\ Unique(names)
      /\ \A n : In(n, names) => ResolvedIsHook(body, mro[c], n)
      /\ \A n \in Name : FromSubsystem(body, mro, mro[c], n) => In(n, names)
  BY DEF HookInv, HookList
<1> HIDE DEF names
<1>2. \A n : n \in ToSet(names) <=> In(n, names)
  BY <1>1, InIsMember
<1>3. \A n : In(n, names) => n \in Name
  BY <1>1 DEF In
<1>4. Len(names) = Cardinality(ToSet(names))
  BY <1>1, UniqueCount
<1>5. \A n \in Name : ResolvedIsHook(body, mro[c], n) /\ IsSubsystem(mro[Owner(c, n)])
                    => n \in ToSet(names)
  BY <1>1, <1>2 DEF FromSubsystem, Owner
<1> QED
  BY <1>1, <1>2, <1>3, <1>4, <1>5 DEF names

\* Whatever the hierarchy, the hooks of every class are marked methods that
\* lookup selects, each listed once, and those among the selected ones that come
\* from a Subsystem class are all listed: __init_subclass__ computes from the
\* lists of the bases what a search of the Subsystem classes above would find.
THEOREM HooksAreResolved == HookSpec => []HooksResolve
<1>1. HookSpec => []HookInv
  BY HookInvAlways
<1>2. HookInv => HooksResolve
  BY HooksResolved
<1> QED
  BY <1>1, <1>2, PTL

LEMMA OwnAreLast == HookInv => OwnLast
<1> SUFFICES ASSUME HookInv, NEW c \in Class, NEW m \in Name, NEW n \in Name,
                    Before(c, m, n), Owner(c, m) = c
             PROVE  /\ Owner(c, n) = c
                    /\ \E i, j \in DOMAIN body[c] :
                         i < j /\ body[c][i].name = m /\ body[c][j].name = n
  BY DEF OwnLast
<1> DEFINE names == hooks[c]
<1> DEFINE order == mro[c]
<1> DEFINE members == body[c]
<1>1. /\ names \in Seq(Name) /\ OwnOrder(members, names)
      /\ \A x : In(x, names) => ResolvedIsHook(body, order, x)
      /\ order \in Seq(0..c) /\ Len(order) # 0 /\ order[1] = c
      /\ members \in Seq(Method)
  BY DEF HookInv, HookList, Order, Members
<1>2. OwnerIn(body, order, m) = c
  BY DEF Owner
<1>3. \E i, j \in DOMAIN names : i < j /\ names[i] = m /\ names[j] = n
  BY DEF Before
<1> HIDE DEF names, order
<1>4. Earlier(m, n, names) /\ In(m, names)
  <2>1. DOMAIN names = 1..Len(names)
    BY <1>1
  <2> QED
    BY <2>1, <1>3 DEF Earlier, In
<1>5. Has(members, m)
  <2>1. Owners(body, order, m) # {}
    BY <1>1, <1>4 DEF ResolvedIsHook
  <2>2. PICK q \in 1..Len(order) : OwnerIn(body, order, m) = order[q] /\ Has(body[order[q]], m)
    BY <2>1, <1>1, FirstOwner
  <2> QED
    BY <2>2, <1>2
<1>6. DOMAIN members = 1..Len(members)
  BY <1>1
<1>7. PICK k \in 1..Len(members) : members[k].name = m
  BY <1>5, <1>6 DEF Has
<1>8. PICK l \in 1..Len(members) : k < l /\ members[l].name = n
  <2>1. OwnOrder(members, names) /\ Earlier(members[k].name, n, names)
    BY <1>1, <1>4, <1>7
  <2> HIDE DEF members
  <2> QED
    BY <2>1 DEF OwnOrder
<1>9. Has(body[order[1]], n)
  BY <1>1, <1>6, <1>8 DEF Has
<1>10. OwnerIn(body, order, n) = order[1]
  BY <1>1, <1>9, OwnFirst
<1>11. Owner(c, n) = c
  BY <1>1, <1>10 DEF Owner, order
<1> QED
  BY <1>6, <1>7, <1>8, <1>11

\* The hooks that a class defines run after those it inherits, in the order of
\* its body, whatever they override.
THEOREM OwnHooksLast == HookSpec => []OwnLast
<1>1. HookSpec => []HookInv
  BY HookInvAlways
<1>2. HookInv => OwnLast
  BY OwnAreLast
<1> QED
  BY <1>1, <1>2, PTL
=============================================================================
