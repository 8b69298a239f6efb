------------------------------ MODULE SysMemmap ------------------------------
(***************************************************************************)
(* src/src/sys_mem.c: how the system call sys_memmap looks for the process *)
(* that makes it.  It goes through the running list entry by entry, and    *)
(* does not take queue_lock, while the other CPUs call the scheduler.      *)
(*                                                                         *)
(* The scheduler changes the list under its lock, each time in one action. *)
(* In the middle of purgequeue an entry may be there twice, at its old     *)
(* place and its new one, but never at neither, so that a search that      *)
(* looks then sees no less than one before or after.                       *)
(***************************************************************************)
EXTENDS Scheduler

VARIABLES
  memmap,  \* memmap[c]: whether CPU c is in sys_memmap, and with what caller
  index    \* index[c]: the local variable i, from 1 up

searchVars == <<vars, memmap, index>>

SearchInit ==
  /\ Init
  /\ memmap = [c \in CPU |-> "outside"]
  /\ index = [c \in CPU |-> 1]

\* The process on CPU c allocates memory and its area has to grow.
EnterSysMemmap(c) ==
  /\ memmap[c] = "outside" /\ proc[c] # NULL
  /\ memmap' = [memmap EXCEPT ![c] = "search"]
  /\ index' = [index EXCEPT ![c] = 1]
  /\ UNCHANGED vars

\* One round of the loop: rl->proc[i]->pid == pid.
Look(c) ==
  /\ memmap[c] = "search" /\ index[c] <= Len(running_list)
  /\ IF running_list[index[c]] = proc[c]
     THEN memmap' = [memmap EXCEPT ![c] = "found"] /\ UNCHANGED index
     ELSE index' = [index EXCEPT ![c] = @ + 1] /\ UNCHANGED memmap
  /\ UNCHANGED vars

\* A stub stands in for the caller, and SYSMEM_INC_OP does nothing.
TakeStub(c) ==
  /\ memmap[c] = "search" /\ index[c] > Len(running_list)
  /\ memmap' = [memmap EXCEPT ![c] = "stub"]
  /\ UNCHANGED <<vars, index>>

\* Either way the call returns 0.
Return(c) ==
  /\ memmap[c] \in {"found", "stub"}
  /\ memmap' = [memmap EXCEPT ![c] = "outside"]
  /\ UNCHANGED <<vars, index>>

\* A CPU calls the scheduler between two instructions only.
CallScheduler(c) ==
  /\ memmap[c] = "outside"
  /\ GetProc(c) \/ PutProc(c) \/ FreeProc(c)
  /\ UNCHANGED <<memmap, index>>

SearchNext ==
  \/ \E c \in CPU :
       \/ CallScheduler(c)
       \/ EnterSysMemmap(c) \/ Look(c) \/ TakeStub(c) \/ Return(c)
  \/ \E p \in Proc : AddProc(p) /\ UNCHANGED <<memmap, index>>

SearchSpec == SearchInit /\ [][SearchNext]_searchVars

(***************************************************************************)
(* Correctness                                                             *)
(***************************************************************************)
\* "Find the actual caller PCB from the running_list", sys_mem.c:30: a process
\* that runs is found there, whatever the scheduler does on other CPUs meanwhile
\* (__sys_memmap against put_mlq_proc).
SearchFindsCaller == \A c \in CPU : memmap[c] # "stub"

=============================================================================
