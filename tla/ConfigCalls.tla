----------------------------- MODULE ConfigCalls -----------------------------
(***************************************************************************)
(* make_config_structs: a new ConfigStructResolver collects the config     *)
(* structs of all subsystems, dumps the programs they belong to, and then  *)
(* writes one file per struct.  Any step may raise, and the metaprogram    *)
(* may fix a struct and call again; files of earlier calls stay.           *)
(*                                                                         *)
(* How a struct becomes bytes, and which programs can be dumped, does not  *)
(* matter here; ConfigEmit says it.                                        *)
(***************************************************************************)
EXTENDS Integers, Sequences

CONSTANTS
  Struct,       \* the config structs subsystems may return: records with
                \* target, section, type ("" if missing) and value
  Programs,     \* the programs whose dump resolves
  Serialise(_), \* the bytes of a struct, or NoBlob if that raises
  NoBlob,
  PathOf,       \* the name of the file for a target and a section
  MaxStructs,   \* bound: structs collected in one call
  MaxCalls      \* bound: calls of make_config_structs

VARIABLES
  structs,    \* ConfigStructResolver.config_structs
  seen,       \* history: the structs the subsystems returned in this call
  dir,        \* the build directory: the struct and the blob in each file
  dump,       \* the dump argument of the call
  json,       \* the struct described by the JSON file next to each blob
  pc,         \* what the call is doing
  next,       \* the position of the loop of resolve_and_create_all
  outcome,    \* how the last call ended
  calls       \* the number of calls so far

vars == <<structs, seen, dir, dump, json, pc, next, outcome, calls>>

Complete(s) == s.target # "" /\ s.section # "" /\ s.type # ""

Dumped(s) == s.target \in Programs

\* The files of the structs that may get that far.
PathFor(s) == PathOf[<<s.target, s.section>>]
Path == {PathFor(s) : s \in {t \in Struct : Complete(t)}}

NoStruct == [target |-> "", section |-> "", type |-> ""]
Nothing == [struct |-> NoStruct, blob |-> NoBlob]

Init ==
  /\ structs = <<>> /\ seen = <<>> /\ next = 1
  /\ dir = [p \in Path |-> Nothing]
  /\ json = [p \in Path |-> NoStruct]
  /\ dump = FALSE
  /\ pc = "user" /\ outcome = "" /\ calls = 0

\* make_config_structs on an assembled system.
Begin(d) ==
  /\ pc = "user" /\ calls < MaxCalls
  /\ structs' = <<>> /\ seen' = <<>> /\ next' = 1 /\ dump' = d
  /\ pc' = "add" /\ outcome' = "" /\ calls' = calls + 1
  /\ UNCHANGED <<dir, json>>

Raise ==
  /\ pc' = "user" /\ outcome' = "error"
  /\ UNCHANGED <<structs, dir, dump, json, next, calls>>

\* add_struct, for the next struct that a subsystem returns.
AddStruct(s) ==
  /\ pc = "add" /\ Len(seen) < MaxStructs
  /\ Complete(s) /\ Dumped(s)
  /\ structs' = Append(structs, s) /\ seen' = Append(seen, s)
  /\ UNCHANGED <<dir, dump, json, pc, next, outcome, calls>>

AddFails(s) ==
  /\ pc = "add" /\ Len(seen) < MaxStructs
  /\ ~(Complete(s) /\ Dumped(s))
  /\ seen' = Append(seen, s)
  /\ Raise

EndAdd ==
  /\ pc = "add"
  /\ pc' = "emit"
  /\ UNCHANGED <<structs, seen, dir, dump, json, next, outcome, calls>>

\* Wrong on purpose: a file that is there already is not written again.
EmitMissing ==
  /\ pc = "emit" /\ next <= Len(structs)
  /\ LET s == structs[next] IN
       /\ Serialise(s) # NoBlob
       /\ dir' = IF dir[PathFor(s)] = Nothing
                 THEN [dir EXCEPT ![PathFor(s)] = [struct |-> s, blob |-> Serialise(s)]]
                 ELSE dir
       /\ json' = IF dump THEN [json EXCEPT ![PathFor(s)] = s] ELSE json
  /\ next' = next + 1
  /\ UNCHANGED <<structs, seen, dump, pc, outcome, calls>>

\* One iteration of resolve_and_create_all.
Emit ==
  /\ pc = "emit" /\ next <= Len(structs)
  /\ LET s == structs[next] IN
       /\ Serialise(s) # NoBlob
       /\ dir' = [dir EXCEPT ![PathFor(s)] = [struct |-> s, blob |-> Serialise(s)]]
       /\ json' = IF dump THEN [json EXCEPT ![PathFor(s)] = s] ELSE json
  /\ next' = next + 1
  /\ UNCHANGED <<structs, seen, dump, pc, outcome, calls>>

EmitFails ==
  /\ pc = "emit" /\ next <= Len(structs)
  /\ Serialise(structs[next]) = NoBlob
  /\ Raise
  /\ UNCHANGED seen

EndEmit ==
  /\ pc = "emit" /\ next > Len(structs)
  /\ pc' = "user" /\ outcome' = "ok"
  /\ UNCHANGED <<structs, seen, dir, dump, json, next, calls>>

Next ==
  \/ \E d \in BOOLEAN : Begin(d)
  \/ \E s \in Struct : AddStruct(s) \/ AddFails(s)
  \/ EndAdd
  \/ Emit \/ EmitFails \/ EndEmit

Spec == Init /\ [][Next]_vars

-----------------------------------------------------------------------------
Written == {p \in Path : dir[p] # Nothing}

\* When a call ends without an error, the files hold the structs that the
\* subsystems returned in this call - of two that share a file, the last -
\* and so does the JSON next to them if a dump was asked for: nothing is left
\* out and nothing is left over from an earlier call.
LastFor(i) == \A j \in i + 1..Len(seen) : PathFor(seen[j]) # PathFor(seen[i])
OkMeansWritten ==
  pc = "user" /\ outcome = "ok" =>
    \A i \in DOMAIN seen : Complete(seen[i]) /\ (LastFor(i) =>
      /\ dir[PathFor(seen[i])].struct = seen[i]
      /\ dump => json[PathFor(seen[i])] = seen[i])
=============================================================================
