------------------------------ MODULE Assembly ------------------------------
(***************************************************************************)
(* The life of an Acacia system: a metaprogram declares subsystems and     *)
(* clients, a terminal action (write_xml_file, make_config_structs)        *)
(* assembles the system - every subsystem runs its build hooks, then       *)
(* physical addresses are allocated - and the result is emitted.           *)
(*                                                                         *)
(* Build hooks are user code: while one runs it may do what HookDoes       *)
(* allows, and it may raise.  The metaprogram may catch the error and call *)
(* a terminal action again.  Addresses themselves are in PaddrAlloc and    *)
(* identifiers in IdPool; here allocation succeeds or raises.              *)
(***************************************************************************)
EXTENDS Integers, Sequences

CONSTANTS
  Subsystem,    \* the Subsystem objects the metaprogram may create
  NoClients,    \* those created with clients_allowed=False
  PD,           \* the protection domains
  Hooks,        \* the number of build hooks of a subsystem
  ConnectHook,  \* the one that connects the clients
  HookDoes,     \* what hooks may do: subset of {"pd","client","subsystem"}
  MaxErrors     \* bound on the errors raised in a behaviour

ASSUME HooksAssumption ==
  /\ Hooks \in Nat
  /\ ConnectHook \in 1..Hooks

VARIABLES
  state,      \* System.state, what the *_allowed properties read
  stage,      \* System.stage, what assemble() writes
  subs,       \* System.subsystems, in the order they were declared
  pds,        \* System.pds
  clients,    \* Subsystem.clients (a list without duplicates)
  built,      \* the subsystems whose built flag is set
  runs,       \* runs[s][k]: how often hook k of s has run to its end
  connected,  \* the clients that the connecting hook of s has seen
  pc,         \* what the interpreter is doing
  caller,     \* who called build(): the metaprogram or resolve_subsystems
  cur,        \* the subsystem being built
  idx,        \* the position of the loop of resolve_subsystems
  hook,       \* the position of the loop of build()
  errors      \* the number of errors raised so far

call == <<pc, caller, cur, idx, hook>>
objects == <<subs, pds, clients>>
progress == <<built, runs, connected>>
vars == <<state, stage, objects, progress, call, errors>>

Declared == {subs[i] : i \in DOMAIN subs}

Init ==
  /\ state = "specification" /\ stage = "none"
  /\ subs = <<>> /\ pds = {}
  /\ clients = [s \in Subsystem |-> {}]
  /\ built = {}
  /\ runs = [s \in Subsystem |-> [k \in 1..Hooks |-> 0]]
  /\ connected = [s \in Subsystem |-> {}]
  /\ pc = "user" /\ caller = "user" /\ idx = 1 /\ hook = 1 /\ errors = 0
  /\ cur \in Subsystem

-----------------------------------------------------------------------------
\* What the metaprogram does, and a build hook if HookDoes says so.

InHook == pc = "hook" /\ hook <= Hooks

Runs(what) == pc = "user" \/ (InHook /\ what \in HookDoes)

\* manual_alloc_allowed
ManualAllowed == state = "specification"

\* ProtectionDomain.__init__ registers itself and asks nothing of the system.
NewPd(p) ==
  /\ Runs("pd")
  /\ p \notin pds
  /\ pds' = pds \cup {p}
  /\ UNCHANGED <<state, stage, subs, clients, progress, call, errors>>

NewSubsystem(s) ==
  /\ Runs("subsystem")
  /\ state = "specification"
  /\ s \notin Declared
  /\ subs' = Append(subs, s)
  /\ UNCHANGED <<state, stage, pds, clients, progress, call, errors>>

\* Wrong on purpose: without the test of built.
AddClientAnyTime(s, p) ==
  /\ Runs("client")
  /\ s \in Declared \ NoClients /\ p \in pds
  /\ clients' = [clients EXCEPT ![s] = @ \cup {p}]
  /\ UNCHANGED <<state, stage, subs, pds, progress, call, errors>>

AddClient(s, p) ==
  /\ Runs("client")
  /\ s \in Declared \ NoClients /\ p \in pds
  /\ s \notin built
  /\ clients' = [clients EXCEPT ![s] = @ \cup {p}]
  /\ UNCHANGED <<state, stage, subs, pds, progress, call, errors>>

-----------------------------------------------------------------------------
\* An error leaves every loop and ends in the metaprogram.
Raise ==
  /\ errors < MaxErrors
  /\ errors' = errors + 1
  /\ pc' = "user" /\ caller' = "user" /\ idx' = 1 /\ hook' = 1
  /\ UNCHANGED cur

StartBuild(s, who) ==
  /\ pc' = "hook" /\ caller' = who /\ cur' = s /\ hook' = 1
  /\ UNCHANGED <<state, stage, objects, progress, errors>>

\* build() is public: the metaprogram may call it before assembly.
UserBuilds(s) ==
  /\ pc = "user" /\ s \in Declared \ built
  /\ StartBuild(s, "user")
  /\ idx' = 1

\* A hook runs to its end; the connecting one connects the clients of then.
HookReturns ==
  /\ InHook
  /\ runs' = [runs EXCEPT ![cur][hook] = @ + 1]
  /\ connected' = IF hook = ConnectHook
                  THEN [connected EXCEPT ![cur] = @ \cup clients[cur]]
                  ELSE connected
  /\ hook' = hook + 1
  /\ UNCHANGED <<state, stage, objects, built, pc, caller, cur, idx, errors>>

\* Wrong on purpose: the error is printed and the next subsystem built.
HookFailsQuietly ==
  /\ InHook
  /\ errors < MaxErrors
  /\ errors' = errors + 1
  /\ hook' = 1
  /\ IF caller = "user"
     THEN pc' = "user" /\ UNCHANGED <<caller, idx>>
     ELSE pc' = "resolve" /\ caller' = "user" /\ idx' = idx + 1
  /\ UNCHANGED <<state, stage, objects, progress, cur>>

HookFails ==
  /\ InHook
  /\ Raise
  /\ UNCHANGED <<state, stage, objects, progress>>

\* Wrong on purpose: built is never set.
FinishUnbuilt ==
  /\ pc = "hook" /\ hook = Hooks + 1
  /\ pc' = IF caller = "user" THEN "user" ELSE "resolve"
  /\ idx' = IF caller = "user" THEN 1 ELSE idx + 1
  /\ caller' = "user" /\ hook' = 1
  /\ UNCHANGED <<state, stage, objects, progress, cur, errors>>

FinishBuild ==
  /\ pc = "hook" /\ hook = Hooks + 1
  /\ built' = built \cup {cur}
  /\ pc' = IF caller = "user" THEN "user" ELSE "resolve"
  /\ idx' = IF caller = "user" THEN 1 ELSE idx + 1
  /\ caller' = "user" /\ hook' = 1
  /\ UNCHANGED <<state, stage, objects, runs, connected, cur, errors>>

-----------------------------------------------------------------------------
\* render() and make_config_structs() assemble a system that is not final.
TerminalAction ==
  /\ pc = "user"
  /\ IF state = "final"
     THEN pc' = "emit" /\ UNCHANGED stage
     ELSE pc' = "resolve" /\ stage' = "assembly"
  /\ idx' = 1
  /\ UNCHANGED <<state, objects, progress, caller, cur, hook, errors>>

\* Wrong on purpose: ends one subsystem early.
LastReached == idx >= Len(subs)

\* resolve_subsystems: the loop reads the list itself, so it also reaches
\* the subsystems that were appended after it started.
Resolved == idx > Len(subs)

\* Wrong on purpose: a built subsystem is skipped without moving on.
SkipWaits ==
  /\ pc = "resolve" /\ ~Resolved /\ subs[idx] \in built
  /\ UNCHANGED vars

SkipBuilt ==
  /\ pc = "resolve" /\ ~Resolved /\ subs[idx] \in built
  /\ idx' = idx + 1
  /\ UNCHANGED <<state, stage, objects, progress, pc, caller, cur, hook, errors>>

BuildNext ==
  /\ pc = "resolve" /\ ~Resolved /\ subs[idx] \notin built
  /\ StartBuild(subs[idx], "resolve")
  /\ UNCHANGED idx

EndResolve ==
  /\ pc = "resolve" /\ Resolved
  /\ pc' = "allocate" /\ stage' = "allocation" /\ idx' = 1
  /\ UNCHANGED <<state, objects, progress, caller, cur, hook, errors>>

Allocated ==
  /\ pc = "allocate"
  /\ state' = "final" /\ pc' = "emit"
  /\ UNCHANGED <<stage, objects, progress, caller, cur, idx, hook, errors>>

AllocationFails ==
  /\ pc = "allocate"
  /\ Raise
  /\ UNCHANGED <<state, stage, objects, progress>>

\* The XML or the config structs are written from the objects of the system.
Emit ==
  /\ pc = "emit"
  /\ pc' = "user"
  /\ UNCHANGED <<state, stage, objects, progress, caller, cur, idx, hook, errors>>

-----------------------------------------------------------------------------
Declare ==
  \/ \E p \in PD : NewPd(p)
  \/ \E s \in Subsystem : NewSubsystem(s)
  \/ \E s \in Subsystem, p \in PD : AddClient(s, p)

Running ==
  \/ HookReturns \/ HookFails \/ FinishBuild
  \/ SkipBuilt \/ BuildNext \/ EndResolve
  \/ Allocated \/ AllocationFails \/ Emit

Next ==
  \/ Declare
  \/ \E s \in Subsystem : UserBuilds(s)
  \/ TerminalAction
  \/ Running

Spec == Init /\ [][Next]_vars

\* Python goes on with a call it has started, and hooks return or raise; the
\* metaprogram may stop declaring and need never call a terminal action.
FairSpec == Spec /\ WF_vars(Running)

-----------------------------------------------------------------------------
TypeOK ==
  /\ state \in {"specification", "final"}
  /\ stage \in {"none", "assembly", "allocation"}
  /\ subs \in Seq(Subsystem)
  /\ pds \subseteq PD
  /\ clients \in [Subsystem -> SUBSET PD]
  /\ built \subseteq Subsystem
  /\ runs \in [Subsystem -> [1..Hooks -> Nat]]
  /\ connected \in [Subsystem -> SUBSET PD]
  /\ pc \in {"user", "resolve", "hook", "allocate", "emit"}
  /\ caller \in {"user", "resolve"}
  /\ cur \in Subsystem
  /\ idx \in Nat \ {0} /\ hook \in 1..Hooks + 1
  /\ errors \in Nat

\* A final system has run every hook of every declared subsystem, those
\* declared by a hook during assembly included, whatever was raised and
\* retried on the way (docs/fundamentals.md: all subsystems are constructed).
FinalMeansBuilt ==
  state = "final" =>
    \A s \in Declared : s \in built /\ \A k \in 1..Hooks : runs[s][k] >= 1

\* A final system has connected every client of every subsystem: none was
\* accepted after the hook that connects them, if that hook is the last.
ClientsConnected ==
  state = "final" => \A s \in Declared : clients[s] = connected[s]

\* While resolve_subsystems builds one subsystem, all those declared before it
\* are built (docs/subsystems.md: assembled in the order they are declared).
InDeclarationOrder ==
  pc = "hook" /\ caller = "resolve" =>
    /\ idx <= Len(subs) /\ cur = subs[idx]
    /\ \A i \in 1..idx - 1 : subs[i] \in built

\* What the loops know while they run: a built subsystem has run its hooks,
\* the one being built those before the current, and resolve_subsystems
\* has built every subsystem it has passed, so that allocation finds them all
\* built.  Subsystems are only appended, which is why the loop misses none.
LoopInv ==
  /\ \A s \in built : s \in Declared /\ \A k \in 1..Hooks : runs[s][k] >= 1
  /\ pc = "hook" => /\ cur \in Declared
                    /\ \A k \in 1..hook - 1 : runs[cur][k] >= 1
  /\ pc = "resolve" => idx <= Len(subs) + 1 /\ \A i \in 1..idx - 1 : subs[i] \in built
  /\ pc = "allocate" \/ state = "final" => Declared \subseteq built
  /\ state = "final" => pc \in {"user", "emit"}
  /\ pc = "emit" => state = "final"

\* The invariant of the module: typing, the loops and the order of building.
AssemblyInv == TypeOK /\ LoopInv /\ InDeclarationOrder

\* A subsystem whose last hook has returned is built or about to be, and one
\* that is being built is not built yet: why no hook runs after the build.
DoneInv ==
  /\ pc = "hook" => cur \notin built
  /\ \A s \in Subsystem : runs[s][Hooks] > 0 =>
       s \in built \/ (pc = "hook" /\ cur = s /\ hook = Hooks + 1)

\* The clients of a built subsystem, and of one whose last hook has returned,
\* are those its connecting hook has seen, when that hook is the last.
ClientInv ==
  /\ \A s \in Subsystem : connected[s] \subseteq clients[s]
  /\ \A s \in built : clients[s] = connected[s]
  /\ pc = "hook" /\ hook = Hooks + 1 => clients[cur] = connected[cur]

\* A subsystem whose hooks have all run never runs one again, however often a
\* terminal action is called and whether the allocation after it raised or
\* not (docs/fundamentals.md: calling both never causes a repeated build).
NoRepeatedBuild ==
  [][\A s \in Subsystem : runs[s][Hooks] > 0 => runs'[s] = runs[s]]_vars

\* A terminal action comes back to the metaprogram, with a result or an error.
TerminalEnds == pc # "user" ~> pc = "user"

-----------------------------------------------------------------------------
\* What the documentation says and the code does not do.

\* docs/subsystems.md: manual allocation of addresses and IDs is disabled
\* while the assembly phase runs the build hooks.
ManualDisabled == pc = "hook" /\ caller = "resolve" => ~ManualAllowed
=============================================================================
