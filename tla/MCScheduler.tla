----------------------------- MODULE MCScheduler -----------------------------
(***************************************************************************)
(* The scheduler for TLC: three levels, with budgets 3, 2 and 1. Two       *)
(* levels have two processes each; on one of them the two differ in the    *)
(* field priority, on the other they do not.                               *)
(***************************************************************************)
EXTENDS MLQPolicy

CONSTANTS c1, c2

MCCPU == {c1, c2}
MCProc == 1..5
MCPrio == <<0, 0, 1, 2, 2>>
MCPriority == <<1, 1, 12, 20, 7>>

Symmetry == Permutations(MCCPU)

=============================================================================
