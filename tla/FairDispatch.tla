---------------------------- MODULE FairDispatch ----------------------------
(***************************************************************************)
(* What the scheduler promises the CPU threads: a process is in one place  *)
(* at a time and never forgotten; of the processes of a level the one with *)
(* the smallest priority goes first; and while a level waits, every other  *)
(* level may be preferred to it as often as its budget says, and no more.  *)
(* Which level goes next is not promised; module Scheduler decides it as   *)
(* sched.c does.                                                           *)
(***************************************************************************)
EXTENDS Integers

CONSTANTS
  CPU, Proc, NULL,
  Level,     \* the levels
  prio,      \* the level of a process
  priority,  \* its rank within the level
  budget     \* budget[l]: how often level l may be preferred to another one

VARIABLES
  waiting,   \* the processes that want a CPU
  holds,     \* holds[c]: the process on CPU c
  ended,     \* the processes that have run to their end
  preferred  \* preferred[w][l]: how often level l was, since level w waits

dispatchVars == <<waiting, holds, ended, preferred>>

Waits(w) == \E p \in waiting : prio[p] = w

OnCpu(p) == \E c \in CPU : holds[c] = p

Never == [l \in Level |-> 0]

DispatchInit ==
  /\ waiting = {} /\ ended = {}
  /\ holds = [c \in CPU |-> NULL]
  /\ preferred = [w \in Level |-> Never]

Admit(p) ==
  /\ p \notin waiting \union ended /\ ~OnCpu(p)
  /\ waiting' = waiting \union {p}
  /\ UNCHANGED <<holds, ended, preferred>>

Dispatch(c, p) ==
  LET l == prio[p] IN
  /\ holds[c] = NULL
  /\ p \in waiting
  /\ \A q \in waiting : prio[q] = l => priority[p] <= priority[q]
  /\ \A w \in Level \ {l} : Waits(w) => preferred[w][l] < budget[l]
  /\ waiting' = waiting \ {p}
  /\ holds' = [holds EXCEPT ![c] = p]
  /\ preferred' = [w \in Level |->
       IF w # l /\ Waits(w) THEN [preferred[w] EXCEPT ![l] = @ + 1] ELSE Never]
  /\ UNCHANGED ended

Preempt(c) ==
  /\ holds[c] # NULL
  /\ waiting' = waiting \union {holds[c]}
  /\ holds' = [holds EXCEPT ![c] = NULL]
  /\ UNCHANGED <<ended, preferred>>

End(c) ==
  /\ holds[c] # NULL
  /\ ended' = ended \union {holds[c]}
  /\ holds' = [holds EXCEPT ![c] = NULL]
  /\ UNCHANGED <<waiting, preferred>>

DispatchNext ==
  \/ \E p \in Proc : Admit(p)
  \/ \E c \in CPU : Preempt(c) \/ End(c) \/ \E p \in Proc : Dispatch(c, p)

DispatchSpec == DispatchInit /\ [][DispatchNext]_dispatchVars

=============================================================================
