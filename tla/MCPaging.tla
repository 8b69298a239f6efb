------------------------------ MODULE MCPaging ------------------------------
(* Two processes on small memories; they differ in nothing but their names. *)
EXTENDS Paging, TLC

CONSTANTS m1, m2

Processes == {m1, m2}

Symmetry == Permutations(Processes)

=============================================================================
