---------------------------- MODULE MCPaddrAlloc ----------------------------
(***************************************************************************)
(* Finite instances of PaddrAlloc.  A page is two units, so that an odd    *)
(* address is one inside a page; a large page is two pages.                *)
(***************************************************************************)
EXTENDS PaddrAlloc

MCRegion == 1..3

\* One page and three; three are rounded up to four when the address
\* allows large pages.
MCSize == {2, 6}

\* Addresses at the bottom, inside, inside a page, across and above PaddrTop.
MCAddr == {0, 3, 4, 8, 10, 12}
=============================================================================
