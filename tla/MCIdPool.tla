------------------------------- MODULE MCIdPool -------------------------------
(***************************************************************************)
(* Finite instances of IdPool.                                             *)
(***************************************************************************)
EXTENDS IdPool, TLC

CONSTANTS p1, p2, p3, a1, a2, b1, b2, c1, c2, i1, i2, o1, o2

\* Channels within a PD, across PDs, over one object twice and over an end
\* that was used before.
ThreeEnds == {a1, a2, b1}
ThreeEndPd == a1 :> p1 @@ a2 :> p1 @@ b1 :> p2

\* Two ends on each of three PDs: enough for a cycle of protected procedure
\* calls through two or three PDs.
SixEnds == {a1, a2, b1, b2, c1, c2}
SixEndPd == a1 :> p1 @@ a2 :> p1 @@ b1 :> p2 @@ b2 :> p2 @@ c1 :> p3 @@ c2 :> p3

Symmetry == Permutations({i1, i2}) \cup Permutations({o1, o2})

\* Of six ends, PDs are alike with their ends and may be exchanged.
SixSymmetry ==
    Permutations({o1, o2}) \cup
    { p1 :> p2 @@ p2 :> p1 @@ a1 :> b1 @@ b1 :> a1 @@ a2 :> b2 @@ b2 :> a2,
      p2 :> p3 @@ p3 :> p2 @@ b1 :> c1 @@ c1 :> b1 @@ b2 :> c2 @@ c2 :> b2 }
=============================================================================
