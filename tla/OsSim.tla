-------------------------------- MODULE OsSim --------------------------------
(***************************************************************************)
(* src/src/os.c: the CPU threads and the loader thread, which share the    *)
(* scheduler and advance together, slot by slot, on the timer.             *)
(*                                                                         *)
(* The timer is the slot clock that module Timer implements.  A call of    *)
(* the scheduler is one action of module Scheduler.  What a thread does    *)
(* between two such calls touches no shared state but the flag done, so it *)
(* is taken together with the call before or after it; next_slot and       *)
(* detach_event are taken together with the step before them, since they   *)
(* only enable the tick.                                                   *)
(***************************************************************************)
EXTENDS Scheduler

CONSTANTS
  Loader,      \* the loader thread
  time_slot,   \* the quantum of the configuration file, in slots
  Configs,     \* the configuration and process files there may be
  TimeCap      \* _time is counted up to here

ASSUME OsSimAssumption ==
  /\ Proc = 1..Cardinality(Proc)      \* pids, in the order of the configuration
  /\ IsFiniteSet(CPU) /\ Loader \notin CPU
  /\ time_slot \in Nat \ {0}
  /\ TimeCap \in Nat
  /\ Configs \subseteq [start_time : [Proc -> 0..TimeCap], size : [Proc -> Nat]]

VARIABLES
  config,              \* what read_config and load read
  now, arrived, left,  \* the slot clock
  done,                \* set by the loader at its end
  at,                  \* at[c]: where CPU thread c is in its loop
  time_left,           \* time_left[c]
  pc                   \* pc[p]: the field pc of a pcb

start_time(p) == config.start_time[p]   \* when process p arrives
size(p)       == config.size[p]         \* code->size, its number of instructions

Device == CPU \union {Loader}

Clock == INSTANCE SlotClock

clockVars == <<now, arrived, left>>
osVars == <<config, vars, clockVars, done, at, time_left, pc>>

OsInit ==
  /\ config \in Configs
  /\ Init
  /\ Clock!ClockInit
  /\ done = FALSE
  /\ at = [c \in CPU |-> "top"]
  /\ time_left = [c \in CPU |-> 0]
  /\ pc = [p \in Proc |-> 0]

Goto(c, there) == at' = [at EXCEPT ![c] = there]

(***************************************************************************)
(* cpu_routine.  At the "top" of the loop the CPU looks at its process; at *)
(* "next" it has parted with it and asks for another; at "recheck" it got  *)
(* none.                                                                   *)
(***************************************************************************)
Ready(c, there) == at[c] = there /\ Clock!Working(c)

\* Mutant: time_left is not set at a dispatch.
QuantumUnset(c) == time_left[c]

\* A dispatched process gets a whole quantum.
Quantum(c) == IF time_left[c] = 0 THEN time_slot ELSE time_left[c]

\* run(p) steps over one instruction, if there is one, whether it succeeds or
\* not.  What else it changes is no part of this module.
Stepped(p) == IF pc[p] < size(p) THEN pc[p] + 1 ELSE pc[p]

\* run(p), time_left-- and next_slot.
Run(c, p) ==
  /\ pc' = [pc EXCEPT ![p] = Stepped(p)]
  /\ time_left' = [time_left EXCEPT ![c] = Quantum(c) - 1]
  /\ Goto(c, "top")
  /\ Clock!Arrive(c)
  /\ UNCHANGED done

\* get_proc found a process.
Dispatch(c) == proc'[c] # NULL /\ Run(c, proc'[c])

\* "No process is running, the we load new process from ready queue".
LoadFirst(c) ==
  /\ Ready(c, "top") /\ proc[c] = NULL
  /\ GetProc(c)
  /\ \/ Dispatch(c)
     \/ /\ proc'[c] = NULL   \* next_slot and continue
        /\ Clock!Arrive(c)
        /\ UNCHANGED <<done, at, time_left, pc>>

Finished(c) == proc[c] # NULL /\ pc[proc[c]] = size(proc[c])

\* Mutant: time_left is not reset when a process finishes.
FreeFinishedNoReset(c) ==
  /\ Ready(c, "top") /\ Finished(c)
  /\ FreeProc(c)
  /\ Goto(c, "next")
  /\ UNCHANGED <<clockVars, done, time_left, pc>>

\* The process is at its end: free(proc).
FreeFinished(c) ==
  /\ Ready(c, "top") /\ Finished(c)
  /\ FreeProc(c)
  /\ time_left' = [time_left EXCEPT ![c] = 0]
  /\ Goto(c, "next")
  /\ UNCHANGED <<clockVars, done, pc>>

\* The quantum is over.
PutBack(c) ==
  /\ Ready(c, "top") /\ proc[c] # NULL /\ ~Finished(c) /\ time_left[c] = 0
  /\ PutProc(c)
  /\ Goto(c, "next")
  /\ UNCHANGED <<clockVars, done, time_left, pc>>

\* The get_proc after free or put_proc.
LoadNext(c) ==
  /\ Ready(c, "next")
  /\ GetProc(c)
  /\ \/ Dispatch(c)
     \/ /\ proc'[c] = NULL
        /\ Goto(c, "recheck")
        /\ UNCHANGED <<clockVars, done, time_left, pc>>

\* Mutant: the CPU stops whether the loader is done or not.
RecheckUnconditional(c) ==
  /\ Ready(c, "recheck")
  /\ Clock!Leave(c) /\ Goto(c, "stopped")
  /\ UNCHANGED <<vars, done, time_left, pc>>

\* Mutant: the CPU skips the slot whether the loader is done or not.
RecheckNever(c) ==
  /\ Ready(c, "recheck")
  /\ Clock!Arrive(c) /\ Goto(c, "top")
  /\ UNCHANGED <<vars, done, time_left, pc>>

\* "Recheck process status after loading new process": the CPU stops if the
\* loader is done, and skips the slot otherwise.
Recheck(c) ==
  /\ Ready(c, "recheck")
  /\ IF done THEN Clock!Leave(c) /\ Goto(c, "stopped")
             ELSE Clock!Arrive(c) /\ Goto(c, "top")
  /\ UNCHANGED <<vars, done, time_left, pc>>

\* The process goes on in this slot.
Continue(c) ==
  /\ Ready(c, "top") /\ proc[c] # NULL /\ ~Finished(c) /\ time_left[c] # 0
  /\ Run(c, proc[c])
  /\ UNCHANGED vars

CpuStep(c) ==
  \/ LoadFirst(c) \/ FreeFinished(c) \/ PutBack(c) \/ LoadNext(c)
  \/ Recheck(c) \/ Continue(c)

(***************************************************************************)
(* ld_routine                                                              *)
(***************************************************************************)
\* The process that process number i of the configuration becomes.
Pending == Cardinality(loaded) + 1

\* while (current_time() < start_time[i]) next_slot.
AwaitStart ==
  /\ Clock!Working(Loader) /\ Pending \in Proc /\ now < start_time(Pending)
  /\ Clock!Arrive(Loader)
  /\ UNCHANGED <<vars, done, at, time_left, pc>>

\* Mutant: no next_slot after add_proc.
LoadProcUnpaced ==
  /\ Clock!Working(Loader) /\ Pending \in Proc /\ now >= start_time(Pending)
  /\ AddProc(Pending)
  /\ UNCHANGED <<clockVars, done, at, time_left, pc>>

\* Mutant: done = 1 as soon as the last process is added.
LoadProcAndDone ==
  /\ Clock!Working(Loader) /\ Pending \in Proc /\ now >= start_time(Pending)
  /\ AddProc(Pending)
  /\ Clock!Arrive(Loader)
  /\ done' = (Pending + 1 \notin Proc)
  /\ UNCHANGED <<at, time_left, pc>>

\* One process a slot: add_proc and next_slot.
LoadProc ==
  /\ Clock!Working(Loader) /\ Pending \in Proc /\ now >= start_time(Pending)
  /\ AddProc(Pending)
  /\ Clock!Arrive(Loader)
  /\ UNCHANGED <<done, at, time_left, pc>>

\* done = 1 and detach_event.
LoaderDone ==
  /\ Clock!Working(Loader) /\ Pending \notin Proc
  /\ done' = TRUE
  /\ Clock!Leave(Loader)
  /\ UNCHANGED <<vars, at, time_left, pc>>

LoaderStep == AwaitStart \/ LoadProc \/ LoaderDone

\* The timer thread.
TimerTick == Clock!Tick /\ UNCHANGED <<vars, done, at, time_left, pc>>

\* All threads have left and main returns.
AllLeft == left = Device
Terminated == AllLeft /\ UNCHANGED osVars

OsNext ==
  /\ \/ \E c \in CPU : CpuStep(c)
     \/ LoaderStep
     \/ TimerTick
     \/ Terminated
  /\ UNCHANGED config

\* No thread waits for anything but the tick, and Timer shows that the tick
\* comes.
OsFairness ==
  /\ \A c \in CPU : WF_osVars(CpuStep(c) /\ UNCHANGED config)
  /\ WF_osVars(LoaderStep /\ UNCHANGED config)
  /\ WF_osVars(TimerTick /\ UNCHANGED config /\ arrived # {})

OsSpec == OsInit /\ [][OsNext]_osVars /\ OsFairness

(***************************************************************************)
(* Correctness                                                             *)
(***************************************************************************)
OsTypeOK ==
  /\ config \in Configs
  /\ TypeOK
  /\ Clock!ClockTypeOK
  /\ done \in BOOLEAN
  /\ at \in [CPU -> {"top", "next", "recheck", "stopped"}]
  /\ time_left \in [CPU -> 0..time_slot]
  /\ pc \in [Proc -> Nat] /\ \A p \in Proc : pc[p] <= size(p)

Unfinished == loaded \ finished
Stopped    == CPU \intersect left

\* A CPU stops only when it is not needed any more: there are never more
\* unfinished processes than CPUs still in their loop, and none is still to
\* come.  Between a get_proc that finds nothing and the test of done other
\* CPUs put processes back and the loader goes on; the next_slot between the
\* last add_proc and done = 1 (os.c:147-154) is what keeps them apart.
NoCpuStopsEarly ==
  Stopped # {} => /\ Pending \notin Proc
                  /\ Cardinality(Unfinished) <= Cardinality(CPU \ Stopped)

\* No CPU idles through a slot while work piles up: when the slot ends with an
\* idle CPU at most one process is left waiting, the one the loader brought
\* after that CPU had looked.
NoIdlingBesideWork ==
  (arrived \union left = Device /\ \E c \in CPU \intersect arrived : proc[c] = NULL)
     => Cardinality({p \in Proc : Queued(p)}) <= 1

\* A process is preempted only at the end of a whole quantum: one that waits
\* has run time_slot instructions in each turn it had, on whichever CPU and
\* whatever that CPU ran before (time_left in cpu_routine is a CPU's, not a
\* process's, and survives get_proc).
WholeQuanta == \A p \in Proc : Queued(p) => pc[p] % time_slot = 0

\* Every process of the configuration is loaded and runs to its end.
EveryProcessFinishes == \A p \in Proc : <>(p \in finished)

\* A CPU that holds a process when the loader is done stops.
BusyCpuStops == \A c \in CPU : done /\ proc[c] # NULL ~> c \in left

\* main waits "for CPU and loader finishing" (os.c:280), and the expected
\* output of every configuration shows each CPU stopping.
AllThreadsFinish == <>AllLeft

=============================================================================
