----------------------------- MODULE MCSystemXml -----------------------------
(***************************************************************************)
(* Three PDs, identifiers 0 and 1 in the pool, 1 may be asked for; one     *)
(* region with one valid map, which several entities may share; capability *)
(* maps for slots 0 and 1; one machine with scheduling properties, which   *)
(* only x86 would refuse.                                                  *)
(***************************************************************************)
EXTENDS SystemXml, TLC

CONSTANTS p1, p2, p3, r1, s1, c1, v1

Maps == {[mr |-> r1, vaddr |-> 1, size |-> 1, perms |-> {"r", "w"}],
         [mr |-> r1, vaddr |-> 5, size |-> 1, perms |-> {"w"}]}
IoMaps == {[mr |-> r1, perms |-> {"w"}], [mr |-> r1, perms |-> {}]}
Vcpus == {<<0, 2>>, <<1, 1>>, <<3>>, <<0, 1, 2>>}
Caps == [slot : {0, 1}, obj : PD]

Symmetry == Permutations(PD)
=============================================================================
