------------------------------ MODULE MCMemory ------------------------------
(***************************************************************************)
(* The memory of a program for TLC: two variables of one process, requests *)
(* of less than a frame and of more, and another process that grows and    *)
(* writes too.  There are frames for two growths and one to spare.         *)
(***************************************************************************)
EXTENDS Memory, TLC

CONSTANTS m1, m2, r1, r2

Processes == {m1, m2}
Variables == {r1, r2}

Symmetry == Permutations(Variables)

\* Nothing is promised of what comes after a replacement.  Two free regions
\* beside the empty one are as many as there are variables.
FewRegions == ~replaced /\ Len(vm_freerg_list) <= 3

=============================================================================
