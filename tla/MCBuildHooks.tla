---------------------------- MODULE MCBuildHooks ----------------------------
(* Finite instances of BuildHooks: two method names. *)
EXTENDS BuildHooks

Hook(n) == [name |-> n, marked |-> TRUE]
Plain(n) == [name |-> n, marked |-> FALSE]

\* One method is marked, or overridden without the mark, or the other is marked
\* after it.
Bodies == { <<>>, <<Hook("g")>>, <<Plain("g")>>, <<Hook("g"), Hook("h")>> }
=============================================================================
