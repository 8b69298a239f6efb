------------------------------- MODULE MCOsSim -------------------------------
(***************************************************************************)
(* The whole simulator for TLC: two CPUs and three processes on two        *)
(* levels, in every configuration of two arrival times and one, two or     *)
(* five instructions a process, so that they are preempted, finish at the  *)
(* end of a quantum and within one, and arrive while others run.           *)
(***************************************************************************)
EXTENDS OsSim

CONSTANTS c1, c2

MCCPU == {c1, c2}
MCProc == 1..3
MCPrio == <<1, 0, 1>>
MCPriority == <<7, 12, 12>>
MCConfigs == [start_time : [MCProc -> {0, 2}], size : [MCProc -> {1, 2, 5}]]

=============================================================================
