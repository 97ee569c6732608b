----------------------------- MODULE MCAssembly -----------------------------
(* Assembly on three subsystems (one of which takes no clients), a          *)
(* protection domain and two hooks, the second of which connects.           *)
EXTENDS Assembly

CONSTANTS s1, s2, s3, p1

Everything == {"pd", "client", "subsystem"}
=============================================================================
