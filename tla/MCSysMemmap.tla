----------------------------- MODULE MCSysMemmap -----------------------------
(***************************************************************************)
(* The search of the running list for TLC: two CPUs and two processes of   *)
(* one level, with room in the running list for both.                      *)
(***************************************************************************)
EXTENDS SysMemmap

CONSTANTS c1, c2, p1, p2

MCCPU == {c1, c2}
MCProc == {p1, p2}
MCPrio == [p \in MCProc |-> 0]
MCPriority == [p \in MCProc |-> 1]

=============================================================================
