----------------------------- MODULE MCUserAlloc -----------------------------
(***************************************************************************)
(* The memory area for TLC: three variables, requests of nothing, of less  *)
(* than a page, a page and more than one, and an area of up to three       *)
(* pages.  Nothing depends on which variable is which.                     *)
(***************************************************************************)
EXTENDS UserAlloc, TLC

CONSTANTS r1, r2, r3

MCRgid == {r1, r2, r3}
MCSizes == 0..3
MCPageSize == 2
MCGarbage == {Region(1, 4)}

Symmetry == Permutations(MCRgid)

=============================================================================
