------------------------------- MODULE MCVSpace -------------------------------
(***************************************************************************)
(* Finite instances of VSpace.  A large page is four small ones.           *)
(***************************************************************************)
EXTENDS VSpace

MCSize == {1, 3, 4, 6}          \* below, at and above a large page
MCVaddr == {0, 3, 8} \cup 14 .. 20  \* far below, at and above Start
=============================================================================
