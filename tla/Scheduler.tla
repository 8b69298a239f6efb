------------------------------ MODULE Scheduler ------------------------------
(***************************************************************************)
(* src/src/sched.c as built with MLQ_SCHED: the multilevel ready queue,    *)
(* the position of its round over the levels, and the running list.  Every *)
(* operation holds queue_lock from its first access to its last, so it is  *)
(* one action.  Its callers are the CPU threads of os.c, whose variable    *)
(* proc is the process they hold, and the loader.                          *)
(*                                                                         *)
(* Here the callers call in any order that their own code allows; OsSim    *)
(* has that order.                                                         *)
(***************************************************************************)
EXTENDS ProcQueue, Integers, FiniteSets

CONSTANTS
  CPU,      \* the CPU threads
  Proc,     \* the processes of the configuration file
  NULL,     \* proc of a CPU that holds no process
  MaxPrio,  \* MAX_PRIO, the number of levels
  prio      \* the prio field of a pcb: its level

Level == 0..(MaxPrio - 1)

ASSUME SchedulerAssumption ==
  /\ MaxPrio \in Nat \ {0}
  /\ MaxQueueSize \in Nat \ {0}
  /\ IsFiniteSet(Proc) /\ NULL \notin Proc
  /\ priority \in [Proc -> Nat]
  /\ prio \in [Proc -> Level]

VARIABLES
  mlq_ready_queue,  \* one queue for each level
  running_list,
  curr_prio,        \* the level being served
  curr_slot_cnt,    \* how often it was served since the round came to it
  loaded,           \* the processes given to add_proc so far
  finished,         \* the processes whose pcb has been freed
  proc              \* proc[c]: the process CPU thread c holds

schedVars == <<mlq_ready_queue, running_list, curr_prio, curr_slot_cnt>>
vars == <<schedVars, loaded, finished, proc>>

Queued(p) == \E l \in Level : p \in ToSet(mlq_ready_queue[l])
Held(p)   == \E c \in CPU : proc[c] = p

\* slot[p] of init_scheduler.
slot(l) == MaxPrio - l

Init ==
  /\ mlq_ready_queue = [l \in Level |-> <<>>]
  /\ running_list = <<>>
  /\ curr_prio = 0 /\ curr_slot_cnt = 0
  /\ loaded = {} /\ finished = {}
  /\ proc = [c \in CPU |-> NULL]

\* add_mlq_proc: the loader admits a new process.
AddProc(p) ==
  /\ p \notin loaded
  /\ loaded' = loaded \union {p}
  /\ mlq_ready_queue' = [mlq_ready_queue EXCEPT ![prio[p]] = Enqueue(@, p)]
  /\ UNCHANGED <<running_list, curr_prio, curr_slot_cnt, finished, proc>>

(***************************************************************************)
(* get_mlq_proc.  It goes round the levels, starting at curr_prio, up to   *)
(* the first one that has a process.                                       *)
(***************************************************************************)
NextLevel(l) == IF l + 1 = MaxPrio THEN 0 ELSE l + 1

\* How many levels the round passes before it comes to level l.
Distance(l) == IF l >= curr_prio THEN l - curr_prio ELSE l + MaxPrio - curr_prio

Serves(l) ==
  /\ mlq_ready_queue[l] # <<>>
  /\ \A m \in Level : mlq_ready_queue[m] # <<>> => Distance(l) <= Distance(m)

NoneReady == \A l \in Level : mlq_ready_queue[l] = <<>>

Take(c, l) ==
  LET p == mlq_ready_queue[l][Best(mlq_ready_queue[l])] IN
  /\ mlq_ready_queue' = [mlq_ready_queue EXCEPT ![l] = Dequeued(@)]
  /\ running_list' = Enqueue(running_list, p)
  /\ proc' = [proc EXCEPT ![c] = p]

\* The counter as it is after the levels on the way to l have reset it.
Count(l) == (IF l = curr_prio THEN curr_slot_cnt ELSE 0) + 1

\* Mutant: the slot counter is not reset when its budget is exhausted.
ServeNoReset(c, l) ==
  /\ Serves(l)
  /\ Take(c, l)
  /\ curr_prio' = IF Count(l) >= slot(l) THEN NextLevel(l) ELSE l
  /\ curr_slot_cnt' = Count(l)
  /\ UNCHANGED <<loaded, finished>>

\* Mutant: the budget is exceeded by one.
ServeOneMore(c, l) ==
  /\ Serves(l)
  /\ Take(c, l)
  /\ IF Count(l) > slot(l)
     THEN curr_prio' = NextLevel(l) /\ curr_slot_cnt' = 0
     ELSE curr_prio' = l /\ curr_slot_cnt' = Count(l)
  /\ UNCHANGED <<loaded, finished>>

\* The budget of a level is used up, or there is some left for the next call.
Serve(c, l) ==
  /\ Serves(l)
  /\ Take(c, l)
  /\ IF Count(l) >= slot(l)
     THEN curr_prio' = NextLevel(l) /\ curr_slot_cnt' = 0
     ELSE curr_prio' = l /\ curr_slot_cnt' = Count(l)
  /\ UNCHANGED <<loaded, finished>>

\* No process at all: the round is back where it began.
GetNothing ==
  /\ NoneReady
  /\ curr_slot_cnt' = 0
  /\ UNCHANGED <<mlq_ready_queue, running_list, curr_prio, loaded, finished, proc>>

GetProc(c) ==
  /\ proc[c] = NULL
  /\ GetNothing \/ \E l \in Level : Serve(c, l)

\* put_mlq_proc: CPU c gives back the process it holds.
PutProc(c) ==
  /\ proc[c] # NULL
  /\ running_list' = Purged(running_list, proc[c])
  /\ mlq_ready_queue' =
       [mlq_ready_queue EXCEPT ![prio[proc[c]]] = Enqueue(@, proc[c])]
  /\ proc' = [proc EXCEPT ![c] = NULL]
  /\ UNCHANGED <<curr_prio, curr_slot_cnt, loaded, finished>>

\* cpu_routine frees a process that has run to its end.  The running list
\* keeps its pointer.
FreeProc(c) ==
  /\ proc[c] # NULL
  /\ finished' = finished \union {proc[c]}
  /\ proc' = [proc EXCEPT ![c] = NULL]
  /\ UNCHANGED <<schedVars, loaded>>

Next ==
  \/ \E p \in Proc : AddProc(p)
  \/ \E c \in CPU : GetProc(c) \/ PutProc(c) \/ FreeProc(c)

Spec == Init /\ [][Next]_vars

(***************************************************************************)
(* Correctness                                                             *)
(***************************************************************************)
TypeOK ==
  /\ mlq_ready_queue \in [Level -> Seq(Proc)]
  /\ \A l \in Level : Len(mlq_ready_queue[l]) <= MaxQueueSize
  /\ running_list \in Seq(Proc) /\ Len(running_list) <= MaxQueueSize
  /\ curr_prio \in Level
  /\ curr_slot_cnt \in 0..(slot(curr_prio) - 1)
  /\ loaded \subseteq Proc /\ finished \subseteq Proc
  /\ proc \in [CPU -> Proc \union {NULL}]

\* The processes fit into one queue.  add_mlq_proc, put_mlq_proc and
\* get_mlq_proc do not look whether enqueue dropped the process.
Fits == Cardinality(Proc) <= MaxQueueSize

\* No process is forgotten between add_proc and its end: it is ready, on a CPU,
\* or finished (enqueue and dequeue on one array, purgequeue on the other).
NoProcessLost ==
  Fits => \A p \in loaded : Queued(p) \/ Held(p) \/ p \in finished

\* No process is in two places: it waits once, at its own level, or it is on
\* one CPU, or it is finished, so two CPUs never run the same process and no
\* CPU gets a process that was freed.
OnePlace ==
  /\ \A l \in Level :
       /\ IsInjective(mlq_ready_queue[l])
       /\ \A p \in ToSet(mlq_ready_queue[l]) :
            prio[p] = l /\ p \in loaded /\ ~Held(p) /\ p \notin finished
  /\ \A c, d \in CPU : proc[c] # NULL =>
       /\ proc[c] \in loaded /\ proc[c] \notin finished
       /\ proc[c] = proc[d] => c = d
  /\ finished \subseteq loaded

\* What sys_memmap finds in the running list it searches for its caller: every
\* process on a CPU, once, none that waits, and besides those only freed ones,
\* which nothing ever purges.
RunningListExact ==
  Fits => /\ IsInjective(running_list)
          /\ ToSet(running_list) = {p \in Proc : Held(p)} \union finished

=============================================================================
