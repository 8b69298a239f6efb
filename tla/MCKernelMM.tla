----------------------------- MODULE MCKernelMM -----------------------------
(***************************************************************************)
(* krnl->mm for TLC: three CPUs, which differ in nothing but their names.  *)
(***************************************************************************)
EXTENDS KernelMM, TLC

CONSTANTS c1, c2, c3

MCCPU == {c1, c2, c3}

Symmetry == Permutations(MCCPU)

=============================================================================
