----------------------------- MODULE OsSimProofs -----------------------------
(***************************************************************************)
(* The threads of os.c on the scheduler and the slot clock, for any number *)
(* of CPUs, processes and levels, any quantum and every configuration: the *)
(* threads use the scheduler as module Scheduler expects, processes run in *)
(* whole quanta, and no CPU stops or idles while there is work for it.     *)
(***************************************************************************)
EXTENDS OsSim, SchedulerProofs

(***************************************************************************)
(* What a step does to the scheduler.                                      *)
(***************************************************************************)
\* Every step is a step of one thread.
LEMMA OsStepCases ==
  ASSUME [OsNext]_osVars, NEW ACTION G,
         ASSUME NEW c \in CPU, LoadFirst(c) PROVE G,
         ASSUME NEW c \in CPU, FreeFinished(c) PROVE G,
         ASSUME NEW c \in CPU, PutBack(c) PROVE G,
         ASSUME NEW c \in CPU, LoadNext(c) PROVE G,
         ASSUME NEW c \in CPU, Recheck(c) PROVE G,
         ASSUME NEW c \in CPU, Continue(c) PROVE G,
         ASSUME AwaitStart PROVE G,
         ASSUME LoadProc PROVE G,
         ASSUME LoaderDone PROVE G,
         ASSUME TimerTick PROVE G,
         ASSUME UNCHANGED <<vars, clockVars, done, at, time_left, pc>> PROVE G
  PROVE  G
BY DEF OsNext, CpuStep, LoaderStep, Terminated, osVars

\* The threads of os.c call the scheduler as module Scheduler lets its callers.
LEMMA SchedulerStep == [OsNext]_osVars => [Next]_vars
<1> SUFFICES ASSUME [OsNext]_osVars PROVE [Next]_vars
  OBVIOUS
<1>1. ASSUME NEW c \in CPU, GetProc(c) \/ PutProc(c) \/ FreeProc(c)
      PROVE  Next
  BY <1>1 DEF Next
<1>2. ASSUME AddProc(Pending), Pending \in Proc
      PROVE  Next
  BY <1>2 DEF Next
<1> QED BY <1>1, <1>2, OsStepCases
        DEF LoadFirst, FreeFinished, PutBack, LoadNext, Recheck, Continue,
            AwaitStart, LoadProc, LoaderDone, TimerTick

\* What is proved of the scheduler holds of the simulator.
THEOREM ImplementsScheduler == OsSpec => Spec
<1>1. OsInit => Init
  BY DEF OsInit
<1> QED BY <1>1, SchedulerStep, PTL DEF OsSpec, Spec

LEMMA SchedulerFacts ==
  OsSpec => []TypeOK /\ []OnePlace /\ []NoProcessLost
BY ImplementsScheduler, TypeCorrect, InOnePlace, NothingLost, PTL

\* The processes that wait.
Waiting == {p \in Proc : Queued(p)}

\* get_proc takes a process off the queues, or finds none there.
LEMMA GetEffect ==
  ASSUME TypeOK, OnePlace, NEW c \in CPU, GetProc(c)
  PROVE  /\ proc[c] = NULL /\ loaded' = loaded /\ finished' = finished
         /\ \/ proc' = proc /\ Waiting = {} /\ Waiting' = {}
            \/ \E p \in Waiting : /\ proc' = [proc EXCEPT ![c] = p]
                                  /\ Waiting' = Waiting \ {p}
<1>1. CASE GetNothing
  <2>1. ASSUME NEW p, Queued(p) PROVE FALSE
    <3>1. PICK l \in Level : p \in ToSet(mlq_ready_queue[l])
      BY <2>1 DEF Queued
    <3>2. mlq_ready_queue[l] = <<>>
      BY <1>1 DEF GetNothing, NoneReady
    <3> QED BY <3>1, <3>2, EmptySeq DEF ToSet
  <2>2. Waiting' = Waiting
    BY <1>1 DEF GetNothing, Waiting, Queued
  <2> QED BY <1>1, <2>1, <2>2 DEF GetNothing, GetProc, Waiting
<1>2. ASSUME NEW l \in Level, Serve(c, l)
      PROVE  /\ loaded' = loaded /\ finished' = finished
             /\ \E p \in Waiting : /\ proc' = [proc EXCEPT ![c] = p]
                                   /\ Waiting' = Waiting \ {p}
  <2>0. mlq_ready_queue \in [Level -> Seq(Proc)]
    BY DEF TypeOK
  <2>1. PICK p \in Proc, q \in Seq(Proc) :
          /\ p \in ToSet(mlq_ready_queue[l])
          /\ ToSet(q) = ToSet(mlq_ready_queue[l]) \ {p}
          /\ mlq_ready_queue' = [mlq_ready_queue EXCEPT ![l] = q]
          /\ proc' = [proc EXCEPT ![c] = p]
    BY <1>2, TakeEffect DEF Serve, Serves, OnePlace
  <2>2. \A m \in Level : p \in ToSet(mlq_ready_queue[m]) => m = l
    BY <2>1 DEF OnePlace
  <2>3. ASSUME NEW x \in Proc
        PROVE  Queued(x)' <=> Queued(x) /\ x # p
    <3>1. \A m \in Level : ToSet(mlq_ready_queue'[m]) =
                             IF m = l THEN ToSet(mlq_ready_queue[l]) \ {p}
                                      ELSE ToSet(mlq_ready_queue[m])
      BY <2>0, <2>1
    <3> QED BY <2>2, <3>1 DEF Queued
  <2>4. p \in Waiting /\ Waiting' = Waiting \ {p}
    BY <2>1, <2>3 DEF Waiting, Queued
  <2> QED BY <1>2, <2>1, <2>4 DEF Serve
<1> QED BY <1>1, <1>2 DEF GetProc

\* add_proc and put_proc let one process more wait.
LEMMA EnqueueWaiting ==
  ASSUME TypeOK, NEW p \in Proc,
         mlq_ready_queue' = [mlq_ready_queue EXCEPT ![prio[p]] = Enqueue(@, p)]
  PROVE  Waiting' \subseteq Waiting \union {p}
<1>1. mlq_ready_queue \in [Level -> Seq(Proc)] /\ prio[p] \in Level
  BY SchedulerAssumption DEF TypeOK
<1>2. \A l \in Level :
        ToSet(mlq_ready_queue'[l]) \subseteq ToSet(mlq_ready_queue[l]) \union {p}
  BY <1>1, EnqueueEffect
<1> QED BY <1>2 DEF Waiting, Queued

(***************************************************************************)
(* The inductive invariant.                                                *)
(***************************************************************************)
\* Where a thread is in its loop, against the clock and what it holds.
ThreadInv ==
  /\ arrived \intersect left = {}
  /\ \A c \in CPU : at[c] \in {"next", "recheck"} => c \notin arrived
  /\ \A c \in CPU : at[c] \in {"next", "recheck", "stopped"} => proc[c] = NULL
  /\ \A c \in CPU : at[c] = "stopped" <=> c \in left
  /\ Stopped # {} => done
  /\ done => Loader \in left /\ Pending \notin Proc

Whole(n) == \E k \in Nat : n = k * time_slot

\* The part of a quantum that a process has run and the part that is left to
\* its CPU make it whole, until the process comes to its end.
QuantumInv ==
  /\ \A c \in CPU : proc[c] = NULL => time_left[c] = 0
  /\ \A c \in CPU : proc[c] # NULL =>
       pc[proc[c]] = size(proc[c]) \/ Whole(pc[proc[c]] + time_left[c])
  /\ \A p \in Proc \ loaded : pc[p] = 0
  /\ \A p \in Waiting : Whole(pc[p])

\* The CPUs that found nothing and are to stop or have stopped.
Parting == {c \in CPU : at[c] \in {"recheck", "stopped"}}

\* The loader has added its last process in an earlier slot.
LoaderQuiet == Pending \notin Proc /\ Loader \notin arrived

\* Each process that is left has a CPU that is not parting.
PartInv ==
  Parting # {} /\ LoaderQuiet =>
    Cardinality(Unfinished) <= Cardinality(CPU \ Parting)

Asking == {c \in CPU : at[c] = "next"}
Idle(c) == at[c] = "recheck" \/ (c \in arrived /\ proc[c] = NULL)
Brought == IF Loader \in arrived THEN 1 ELSE 0

\* Beside a CPU that idles only those wait that a CPU has just put back, and will
\* take one for, and the one that the loader has brought in this slot.
IdleInv ==
  (\E c \in CPU : Idle(c)) =>
    Cardinality(Waiting) <= Cardinality(Asking) + Brought

(***************************************************************************)
(* Types, and the places of the threads.                                   *)
(***************************************************************************)
LEMMA Quanta ==
  ASSUME OsTypeOK, NEW c \in CPU
  PROVE  /\ time_slot \in Nat \ {0} /\ Quantum(c) - 1 \in 0..time_slot
         /\ Quantum(c) = IF time_left[c] = 0 THEN time_slot ELSE time_left[c]
BY OsSimAssumption DEF OsTypeOK, Quantum

LEMMA RunTypes ==
  ASSUME OsTypeOK, NEW c \in CPU, NEW p \in Proc, Run(c, p), config' = config
  PROVE  /\ at' \in [CPU -> {"top", "next", "recheck", "stopped"}]
         /\ time_left' \in [CPU -> 0..time_slot]
         /\ pc' \in [Proc -> Nat] /\ \A q \in Proc : pc'[q] <= size(q)'
<1>1. config \in [start_time : [Proc -> 0..TimeCap], size : [Proc -> Nat]]
  BY OsSimAssumption DEF OsTypeOK
<1>2. \A q \in Proc : size(q)' = size(q) /\ size(q) \in Nat
  BY <1>1 DEF size
<1>3. /\ pc' = [pc EXCEPT ![p] = IF @ < size(p) THEN @ + 1 ELSE @]
      /\ pc \in [Proc -> Nat] /\ \A q \in Proc : pc[q] <= size(q)
  BY DEF Run, Stepped, OsTypeOK
<1>4. pc' \in [Proc -> Nat] /\ \A q \in Proc : pc'[q] <= size(q)'
  BY <1>2, <1>3
<1> QED BY <1>4, Quanta DEF Run, Goto, OsTypeOK

LEMMA ClockTypes ==
  ASSUME Clock!ClockTypeOK, NEW d \in Device,
         Clock!Arrive(d) \/ Clock!Leave(d) \/ Clock!Tick \/ UNCHANGED clockVars
  PROVE  Clock!ClockTypeOK'
<1>1. TimeCap \in Nat
  BY OsSimAssumption
<1> QED BY <1>1 DEF Clock!ClockTypeOK, Clock!Arrive, Clock!Leave, Clock!Tick,
                    Clock!NextTime, clockVars

\* Every variable of the simulator has its type, no CPU has more time left than
\* a quantum, and no process is run past its last instruction.
LEMMA OsTypes == OsTypeOK /\ TypeOK' /\ [OsNext]_osVars => OsTypeOK'
<1> SUFFICES ASSUME OsTypeOK, TypeOK', [OsNext]_osVars PROVE OsTypeOK'
  OBVIOUS
<1>0. config' = config
  BY DEF OsNext, osVars
<1> DEFINE Rest == /\ done' \in BOOLEAN
                   /\ at' \in [CPU -> {"top", "next", "recheck", "stopped"}]
                   /\ time_left' \in [CPU -> 0..time_slot]
                   /\ pc' \in [Proc -> Nat] /\ \A p \in Proc : pc'[p] <= size(p)'
           ClockStep == \E d \in Device : \/ Clock!Arrive(d) \/ Clock!Leave(d)
                                         \/ Clock!Tick \/ UNCHANGED clockVars
<1>1. ASSUME Rest, ClockStep PROVE OsTypeOK'
  BY <1>0, <1>1, ClockTypes DEF OsTypeOK
<1>2. \A p \in Proc : size(p)' = size(p)
  BY <1>0 DEF size
<1>3. Loader \in Device /\ \A c \in CPU : c \in Device
  BY DEF Device
<1>4. ASSUME NEW c \in CPU, NEW p \in Proc, Run(c, p) PROVE OsTypeOK'
  <2>1. Rest
    BY <1>0, <1>4, RunTypes DEF Run, OsTypeOK
  <2> QED BY <1>1, <1>3, <1>4, <2>1 DEF Run
<1>5. ASSUME NEW c \in CPU, GetProc(c), Dispatch(c) PROVE OsTypeOK'
  <2>1. proc'[c] \in Proc
    BY <1>5 DEF Dispatch, TypeOK
  <2> QED BY <1>4, <1>5, <2>1 DEF Dispatch
<1>6. ASSUME NEW c \in CPU, LoadFirst(c) PROVE OsTypeOK'
  BY <1>1, <1>2, <1>3, <1>5, <1>6 DEF LoadFirst, OsTypeOK
<1>7. ASSUME NEW c \in CPU, FreeFinished(c) PROVE OsTypeOK'
  BY <1>1, <1>2, <1>3, <1>7, OsSimAssumption DEF FreeFinished, Goto, OsTypeOK
<1>8. ASSUME NEW c \in CPU, PutBack(c) PROVE OsTypeOK'
  BY <1>1, <1>2, <1>3, <1>8 DEF PutBack, Goto, OsTypeOK
<1>9. ASSUME NEW c \in CPU, LoadNext(c) PROVE OsTypeOK'
  BY <1>1, <1>2, <1>3, <1>5, <1>9 DEF LoadNext, Goto, OsTypeOK
<1>10. ASSUME NEW c \in CPU, Recheck(c) PROVE OsTypeOK'
  BY <1>1, <1>2, <1>3, <1>10 DEF Recheck, Goto, OsTypeOK
<1>11. ASSUME NEW c \in CPU, Continue(c) PROVE OsTypeOK'
  BY <1>4, <1>11 DEF Continue, OsTypeOK, TypeOK
<1>12. ASSUME AwaitStart PROVE OsTypeOK'
  BY <1>1, <1>2, <1>3, <1>12 DEF AwaitStart, OsTypeOK
<1>13. ASSUME LoadProc PROVE OsTypeOK'
  BY <1>1, <1>2, <1>3, <1>13 DEF LoadProc, OsTypeOK
<1>14. ASSUME LoaderDone PROVE OsTypeOK'
  BY <1>1, <1>2, <1>3, <1>14 DEF LoaderDone, OsTypeOK
<1>15. ASSUME TimerTick PROVE OsTypeOK'
  BY <1>1, <1>2, <1>3, <1>15 DEF TimerTick, OsTypeOK
<1>16. ASSUME UNCHANGED <<vars, clockVars, done, at, time_left, pc>>
       PROVE  OsTypeOK'
  BY <1>1, <1>2, <1>3, <1>16 DEF OsTypeOK
<1> HIDE DEF Rest, ClockStep
<1> QED BY <1>6, <1>7, <1>8, <1>9, <1>10, <1>11, <1>12, <1>13, <1>14, <1>15, <1>16,
           OsStepCases

\* An operation of the scheduler by CPU c changes what c holds, and nothing of
\* the other CPUs.
LEMMA OwnProc ==
  ASSUME TypeOK, NEW c \in CPU, GetProc(c) \/ PutProc(c) \/ FreeProc(c)
  PROVE  /\ loaded' = loaded
         /\ \A d \in CPU \ {c} : proc'[d] = proc[d]
         /\ ~GetProc(c) => proc'[c] = NULL
BY DEF TypeOK, GetProc, GetNothing, Serve, Take, PutProc, FreeProc, schedVars

LEMMA Threads == OsTypeOK /\ ThreadInv /\ [OsNext]_osVars => ThreadInv'
<1> SUFFICES ASSUME OsTypeOK, ThreadInv, [OsNext]_osVars PROVE ThreadInv'
  OBVIOUS
<1>1. /\ TypeOK /\ at \in [CPU -> {"top", "next", "recheck", "stopped"}]
      /\ done \in BOOLEAN /\ Loader \notin CPU
  BY OsSimAssumption DEF OsTypeOK
<1>2. /\ arrived \intersect left = {}
      /\ \A d \in CPU : at[d] \in {"next", "recheck"} => d \notin arrived
      /\ \A d \in CPU : at[d] \in {"next", "recheck", "stopped"} => proc[d] = NULL
      /\ \A d \in CPU : at[d] = "stopped" <=> d \in left
      /\ (\E d \in CPU : d \in left) => done
      /\ done => Loader \in left /\ Cardinality(loaded) + 1 \notin Proc
  BY DEF ThreadInv, Stopped, Pending
<1> DEFINE Goal ==
      /\ arrived' \intersect left' = {}
      /\ \A d \in CPU : at'[d] \in {"next", "recheck"} => d \notin arrived'
      /\ \A d \in CPU : at'[d] \in {"next", "recheck", "stopped"} => proc'[d] = NULL
      /\ \A d \in CPU : at'[d] = "stopped" <=> d \in left'
      /\ (\E d \in CPU : d \in left') => done'
      /\ done' => Loader \in left' /\ Cardinality(loaded') + 1 \notin Proc
<1>3. Goal => ThreadInv'
  BY DEF ThreadInv, Stopped, Pending
<1> USE DEF Goto, Clock!Working, Clock!Arrive, Clock!Leave
<1>4. ASSUME NEW c \in CPU, LoadFirst(c) PROVE Goal
  <2>1. loaded' = loaded /\ \A d \in CPU \ {c} : proc'[d] = proc[d]
    BY <1>1, <1>4, OwnProc DEF LoadFirst
  <2>2. at[c] = "top" /\ at'[c] = "top" /\ \A d \in CPU : at'[d] = at[d]
    BY <1>1, <1>4 DEF LoadFirst, Ready, Dispatch, Run
  <2>3. arrived' = arrived \union {c} /\ c \notin left /\ UNCHANGED <<left, done>>
    BY <1>4 DEF LoadFirst, Ready, Dispatch, Run
  <2> QED BY <1>1, <1>2, <2>1, <2>2, <2>3
<1>5. ASSUME NEW c \in CPU, FreeFinished(c) PROVE Goal
  <2>1. /\ loaded' = loaded /\ proc'[c] = NULL
        /\ \A d \in CPU \ {c} : proc'[d] = proc[d]
    <3>1. proc[c] # NULL /\ FreeProc(c)
      BY <1>5 DEF FreeFinished, Finished
    <3>2. ~GetProc(c)
      BY <3>1 DEF GetProc
    <3> QED BY <1>1, <3>1, <3>2, OwnProc
  <2>2. at'[c] = "next" /\ \A d \in CPU \ {c} : at'[d] = at[d]
    BY <1>1, <1>5 DEF FreeFinished
  <2>3. c \notin arrived /\ c \notin left /\ UNCHANGED <<arrived, left, done>>
    BY <1>5 DEF FreeFinished, Ready, clockVars
  <2> QED BY <1>1, <1>2, <2>1, <2>2, <2>3
<1>6. ASSUME NEW c \in CPU, PutBack(c) PROVE Goal
  <2>1. /\ loaded' = loaded /\ proc'[c] = NULL
        /\ \A d \in CPU \ {c} : proc'[d] = proc[d]
    <3>1. proc[c] # NULL /\ PutProc(c)
      BY <1>6 DEF PutBack
    <3>2. ~GetProc(c)
      BY <3>1 DEF GetProc
    <3> QED BY <1>1, <3>1, <3>2, OwnProc
  <2>2. at'[c] = "next" /\ \A d \in CPU \ {c} : at'[d] = at[d]
    BY <1>1, <1>6 DEF PutBack
  <2>3. c \notin arrived /\ c \notin left /\ UNCHANGED <<arrived, left, done>>
    BY <1>6 DEF PutBack, Ready, clockVars
  <2> QED BY <1>1, <1>2, <2>1, <2>2, <2>3
<1>7. ASSUME NEW c \in CPU, LoadNext(c) PROVE Goal
  <2>1. loaded' = loaded /\ \A d \in CPU \ {c} : proc'[d] = proc[d]
    BY <1>1, <1>7, OwnProc DEF LoadNext
  <2>2. CASE Dispatch(c)
    BY <1>1, <1>2, <1>7, <2>1, <2>2 DEF LoadNext, Ready, Dispatch, Run
  <2>3. CASE proc'[c] = NULL /\ Goto(c, "recheck") /\ UNCHANGED <<clockVars, done>>
    BY <1>1, <1>2, <1>7, <2>1, <2>3 DEF LoadNext, Ready, clockVars
  <2> QED BY <1>7, <2>2, <2>3 DEF LoadNext
<1>8. ASSUME NEW c \in CPU, Recheck(c) PROVE Goal
  BY <1>1, <1>2, <1>8 DEF Recheck, Ready, vars
<1>9. ASSUME NEW c \in CPU, Continue(c) PROVE Goal
  BY <1>1, <1>2, <1>9 DEF Continue, Ready, Run, vars
<1>10. ASSUME AwaitStart PROVE Goal
  BY <1>1, <1>2, <1>10 DEF AwaitStart, vars
<1>11. ASSUME LoadProc PROVE Goal
  BY <1>1, <1>2, <1>11 DEF LoadProc, AddProc
<1>12. ASSUME LoaderDone PROVE Goal
  BY <1>1, <1>2, <1>12 DEF LoaderDone, vars, Pending
<1>13. ASSUME TimerTick PROVE Goal
  BY <1>1, <1>2, <1>13 DEF TimerTick, Clock!Tick, vars
<1>14. ASSUME UNCHANGED <<vars, clockVars, done, at, time_left, pc>> PROVE Goal
  BY <1>1, <1>2, <1>14 DEF vars, clockVars
<1> HIDE DEF Goal
<1> QED BY <1>3, <1>4, <1>5, <1>6, <1>7, <1>8, <1>9, <1>10, <1>11, <1>12, <1>13,
           <1>14, OsStepCases

(***************************************************************************)
(* Whole quanta.                                                           *)
(***************************************************************************)
LEMMA Multiple ==
  ASSUME NEW t \in Nat \ {0}, NEW k \in Nat
  PROVE  /\ 0 = 0 * t /\ k * t \in Nat /\ (k * t) % t = 0
         /\ (k + 1) * t = k * t + t
OBVIOUS

LEMMA WholeSum ==
  ASSUME NEW n \in Nat
  PROVE  /\ Whole(0) /\ (Whole(n) => Whole(n + time_slot))
         /\ Whole(n) => n % time_slot = 0
<1>0. time_slot \in Nat \ {0}
  BY OsSimAssumption
<1>1. Whole(0)
  <2>1. 0 \in Nat
    OBVIOUS
  <2> QED BY <1>0, <2>1, Multiple DEF Whole
<1>2. ASSUME Whole(n) PROVE Whole(n + time_slot) /\ n % time_slot = 0
  <2>1. PICK k \in Nat : n = k * time_slot
    BY <1>2 DEF Whole
  <2>2. k + 1 \in Nat
    OBVIOUS
  <2>3. n + time_slot = (k + 1) * time_slot /\ n % time_slot = 0
    BY <1>0, <2>1, Multiple
  <2> QED BY <2>2, <2>3 DEF Whole
<1> QED BY <1>1, <1>2

\* The sum of what a process has run and what its CPU has left stays whole, or
\* the process comes to its end.
LEMMA RunWhole ==
  ASSUME OsTypeOK, NEW c \in CPU, NEW p \in Proc, Run(c, p),
         \/ time_left[c] # 0 /\ (pc[p] = size(p) \/ Whole(pc[p] + time_left[c]))
         \/ time_left[c] = 0 /\ Whole(pc[p])
  PROVE  /\ pc'[p] = size(p) \/ Whole(pc'[p] + time_left'[c])
         /\ \A q \in Proc \ {p} : pc'[q] = pc[q]
         /\ \A d \in CPU \ {c} : time_left'[d] = time_left[d]
<1> DEFINE Q == Quantum(c)
<1>0. /\ time_slot \in Nat \ {0} /\ time_left \in [CPU -> 0..time_slot]
      /\ Q = IF time_left[c] = 0 THEN time_slot ELSE time_left[c]
  BY Quanta DEF OsTypeOK
<1>1. config \in [start_time : [Proc -> 0..TimeCap], size : [Proc -> Nat]]
  BY OsSimAssumption DEF OsTypeOK
<1>2. pc \in [Proc -> Nat] /\ pc[p] <= size(p) /\ size(p) \in Nat
  BY <1>1 DEF OsTypeOK, size
<1>3. time_left' = [time_left EXCEPT ![c] = Q - 1]
  BY DEF Run
<1>4. pc' = [pc EXCEPT ![p] = IF pc[p] < size(p) THEN pc[p] + 1 ELSE pc[p]]
  BY DEF Run, Stepped
<1> HIDE DEF Q
<1>5. Q \in Nat \ {0} /\ (pc[p] = size(p) \/ Whole(pc[p] + Q))
  BY <1>0, <1>2, WholeSum
<1>6. CASE pc[p] = size(p)
  <2>1. pc'[p] = size(p)
    BY <1>2, <1>4, <1>6
  <2> QED BY <1>0, <1>2, <1>3, <1>4, <2>1
<1>7. CASE pc[p] # size(p)
  <2>1. pc'[p] = pc[p] + 1
    BY <1>2, <1>4, <1>7
  <2>2. time_left'[c] = Q - 1
    BY <1>0, <1>3
  <2>3. pc'[p] + time_left'[c] = pc[p] + Q
    BY <1>2, <1>5, <2>1, <2>2
  <2>4. Whole(pc'[p] + time_left'[c])
    BY <1>5, <1>7, <2>3
  <2> QED BY <1>0, <1>2, <1>3, <1>4, <2>4
<1> QED BY <1>6, <1>7

\* A process that waits is on no CPU, and a process on a CPU is on no other.
LEMMA Places ==
  ASSUME TypeOK, OnePlace
  PROVE  /\ Waiting \subseteq Proc /\ Waiting \subseteq loaded
         /\ \A c \in CPU : /\ proc[c] \notin Waiting
                           /\ proc[c] # NULL => proc[c] \in loaded /\ proc[c] \in Proc
         /\ \A c, d \in CPU : proc[c] # NULL /\ proc[c] = proc[d] => c = d
<1>1. \A p \in Waiting : p \in Proc /\ p \in loaded /\ ~Held(p)
  BY DEF Waiting, Queued, OnePlace
<1>2. \A c \in CPU : Held(proc[c])
  BY DEF Held
<1> QED BY <1>1, <1>2 DEF OnePlace, TypeOK

LEMMA QuantumRun ==
  ASSUME OsTypeOK, OnePlace, QuantumInv, NEW c \in CPU, NEW p \in loaded,
         Run(c, p), config' = config, proc' = [proc EXCEPT ![c] = p],
         loaded' = loaded, Waiting' \subseteq Waiting, p \notin Waiting',
         \A d \in CPU \ {c} : proc[d] # p,
         \/ p = proc[c] /\ time_left[c] # 0
         \/ p \in Waiting /\ proc[c] = NULL
  PROVE  QuantumInv'
<1>1. /\ p \in Proc /\ p # NULL /\ TypeOK
      /\ proc \in [CPU -> Proc \union {NULL}] /\ pc \in [Proc -> Nat]
  BY SchedulerAssumption DEF OsTypeOK, TypeOK
<1>2. \A q \in Proc : size(q)' = size(q)
  BY DEF size
<1>3. /\ \A d \in CPU : proc[d] = NULL => time_left[d] = 0
      /\ \A d \in CPU : proc[d] # NULL =>
           pc[proc[d]] = size(proc[d]) \/ Whole(pc[proc[d]] + time_left[d])
      /\ \A q \in Proc \ loaded : pc[q] = 0
      /\ \A q \in Waiting : Whole(pc[q])
  BY DEF QuantumInv
<1>4. /\ pc'[p] = size(p) \/ Whole(pc'[p] + time_left'[c])
      /\ \A q \in Proc \ {p} : pc'[q] = pc[q]
      /\ \A d \in CPU \ {c} : time_left'[d] = time_left[d]
  <2>1. \/ time_left[c] # 0 /\ (pc[p] = size(p) \/ Whole(pc[p] + time_left[c]))
        \/ time_left[c] = 0 /\ Whole(pc[p])
    BY <1>1, <1>3
  <2> QED BY <1>1, <2>1, RunWhole
<1>5. proc'[c] = p /\ \A d \in CPU \ {c} : proc'[d] = proc[d]
  BY <1>1
<1>6. \A d \in CPU : proc'[d] = NULL => time_left'[d] = 0
  BY <1>1, <1>3, <1>4, <1>5
<1>7. ASSUME NEW d \in CPU, proc'[d] # NULL
      PROVE  pc'[proc'[d]] = size(proc'[d]) \/ Whole(pc'[proc'[d]] + time_left'[d])
  <2>1. CASE d = c
    BY <1>1, <1>2, <1>4, <1>5, <2>1
  <2>2. CASE d # c
    <3>1. /\ proc'[d] = proc[d] /\ proc[d] \in Proc \ {p}
          /\ pc'[proc[d]] = pc[proc[d]] /\ time_left'[d] = time_left[d]
      BY <1>1, <1>4, <1>5, <1>7, <2>2
    <3>2. pc[proc[d]] = size(proc[d]) \/ Whole(pc[proc[d]] + time_left[d])
      BY <1>3, <3>1, <1>7
    <3> QED BY <3>1, <3>2
  <2> QED BY <2>1, <2>2
<1>8. \A q \in Proc \ loaded' : pc'[q] = 0
  BY <1>3, <1>4
<1>9. \A q \in Waiting' : Whole(pc'[q])
  <2>1. Waiting' \subseteq Proc \ {p}
    BY DEF Waiting
  <2> QED BY <1>3, <1>4, <2>1
<1> QED BY <1>6, <1>7, <1>8, <1>9 DEF QuantumInv, Whole, size

LEMMA QuantumStep ==
  OsTypeOK /\ OnePlace /\ QuantumInv /\ [OsNext]_osVars => QuantumInv'
<1> SUFFICES ASSUME OsTypeOK, OnePlace, QuantumInv, [OsNext]_osVars
             PROVE  QuantumInv'
  OBVIOUS
<1>0. config' = config
  BY DEF OsNext, osVars
<1>1. /\ TypeOK /\ proc \in [CPU -> Proc \union {NULL}] /\ NULL \notin Proc
      /\ pc \in [Proc -> Nat] /\ time_left \in [CPU -> 0..time_slot]
  BY SchedulerAssumption DEF OsTypeOK, TypeOK
<1>2. /\ \A d \in CPU : proc[d] = NULL => time_left[d] = 0
      /\ \A d \in CPU : proc[d] # NULL =>
           pc[proc[d]] = config.size[proc[d]] \/ Whole(pc[proc[d]] + time_left[d])
      /\ \A p \in Proc \ loaded : pc[p] = 0
      /\ \A p \in Waiting : Whole(pc[p])
  BY DEF QuantumInv, size
<1>3. /\ Waiting \subseteq Proc /\ Waiting \subseteq loaded
      /\ \A d \in CPU : /\ proc[d] \notin Waiting
                        /\ proc[d] # NULL => proc[d] \in loaded /\ proc[d] \in Proc
      /\ \A d, e \in CPU : proc[d] # NULL /\ proc[d] = proc[e] => d = e
  BY <1>1, Places
<1>4. ASSUME UNCHANGED <<loaded, time_left, pc, proc>>, Waiting' \subseteq Waiting
      PROVE  QuantumInv'
  BY <1>0, <1>2, <1>4 DEF QuantumInv, size
<1>5. ASSUME UNCHANGED <<vars, time_left, pc>>
      PROVE  QuantumInv'
  <2>1. Waiting' = Waiting
    BY <1>5 DEF Waiting, Queued, vars, schedVars
  <2> QED BY <1>4, <1>5, <2>1 DEF vars
<1>6. ASSUME NEW c \in CPU, GetProc(c), Dispatch(c)
      PROVE  QuantumInv'
  <2>1. proc[c] = NULL /\ loaded' = loaded
    BY <1>1, <1>6, GetEffect
  <2>2. PICK p \in Waiting : proc' = [proc EXCEPT ![c] = p] /\ Waiting' = Waiting \ {p}
    BY <1>1, <1>6, <2>1, GetEffect DEF Dispatch
  <2>3. Run(c, p)
    BY <1>1, <1>6, <2>2 DEF Dispatch
  <2> QED BY <1>0, <1>3, <2>1, <2>2, <2>3, QuantumRun
<1>7. ASSUME NEW c \in CPU, GetProc(c), proc'[c] = NULL, UNCHANGED <<time_left, pc>>
      PROVE  QuantumInv'
  <2>1. loaded' = loaded /\ proc' = proc /\ Waiting' \subseteq Waiting
    BY <1>1, <1>3, <1>7, GetEffect
  <2> QED BY <1>4, <1>7, <2>1
<1>8. ASSUME NEW c \in CPU, LoadFirst(c) PROVE QuantumInv'
  BY <1>6, <1>7, <1>8 DEF LoadFirst
<1>9. ASSUME NEW c \in CPU, LoadNext(c) PROVE QuantumInv'
  BY <1>6, <1>7, <1>9 DEF LoadNext
<1>10. ASSUME NEW c \in CPU, FreeFinished(c) PROVE QuantumInv'
  <2>1. /\ proc' = [proc EXCEPT ![c] = NULL] /\ time_left' = [time_left EXCEPT ![c] = 0]
        /\ loaded' = loaded /\ pc' = pc
    BY <1>10 DEF FreeFinished, FreeProc
  <2>2. Waiting' = Waiting
    BY <1>10 DEF FreeFinished, FreeProc, schedVars, Waiting, Queued
  <2>3. \A d \in CPU : d # c => proc'[d] = proc[d] /\ time_left'[d] = time_left[d]
    BY <1>1, <2>1
  <2>4. proc'[c] = NULL /\ time_left'[c] = 0
    BY <1>1, <2>1
  <2> QED BY <1>0, <1>2, <2>1, <2>2, <2>3, <2>4 DEF QuantumInv, size
<1>11. ASSUME NEW c \in CPU, PutBack(c) PROVE QuantumInv'
  <2> DEFINE p == proc[c]
  <2>1. p \in Proc /\ p \in loaded /\ p # NULL
    BY <1>3, <1>11 DEF PutBack
  <2>2. /\ proc' = [proc EXCEPT ![c] = NULL] /\ UNCHANGED <<loaded, time_left, pc>>
        /\ mlq_ready_queue' = [mlq_ready_queue EXCEPT ![prio[p]] = Enqueue(@, p)]
    BY <1>11 DEF PutBack, PutProc
  <2>3. Waiting' \subseteq Waiting \union {p}
    BY <1>1, <2>1, <2>2, EnqueueWaiting
  <2>4. time_left[c] = 0 /\ pc[p] # config.size[p] /\ pc[p] + time_left[c] = pc[p]
    BY <1>1, <1>11, <2>1 DEF PutBack, Finished, size
  <2>5. Whole(pc[p])
    BY <1>2, <2>1, <2>4
  <2>6. \A d \in CPU : d # c => proc'[d] = proc[d]
    BY <1>1, <2>2
  <2>7. proc'[c] = NULL
    BY <1>1, <2>2
  <2> QED BY <1>0, <1>2, <2>2, <2>3, <2>4, <2>5, <2>6, <2>7 DEF QuantumInv, size
<1>12. ASSUME NEW c \in CPU, Continue(c) PROVE QuantumInv'
  <2>1. /\ UNCHANGED vars /\ Run(c, proc[c]) /\ proc[c] # NULL /\ time_left[c] # 0
        /\ loaded' = loaded /\ proc' = proc
    BY <1>12 DEF Continue, vars
  <2>2. Waiting' = Waiting
    BY <2>1 DEF Waiting, Queued, vars, schedVars
  <2>3. proc' = [proc EXCEPT ![c] = proc[c]]
    BY <1>1, <2>1
  <2>4. /\ proc[c] \in loaded /\ proc[c] \notin Waiting
        /\ \A d \in CPU \ {c} : proc[d] # proc[c]
    BY <1>3, <2>1
  <2> QED BY <1>0, <2>1, <2>2, <2>3, <2>4, QuantumRun
<1>13. ASSUME LoadProc PROVE QuantumInv'
  <2> DEFINE p == Pending
  <2>1. p \in Proc /\ AddProc(p) /\ UNCHANGED <<time_left, pc>>
    BY <1>13 DEF LoadProc
  <2>2. /\ p \notin loaded /\ loaded' = loaded \union {p} /\ proc' = proc
        /\ mlq_ready_queue' = [mlq_ready_queue EXCEPT ![prio[p]] = Enqueue(@, p)]
    BY <2>1 DEF AddProc
  <2> HIDE DEF p
  <2>3. Waiting' \subseteq Waiting \union {p}
    BY <1>1, <2>1, <2>2, EnqueueWaiting
  <2>4. pc[p] = 0
    BY <1>2, <2>1, <2>2
  <2>5. Whole(pc[p])
    BY <2>4, WholeSum
  <2> QED BY <1>0, <1>2, <2>1, <2>2, <2>3, <2>5 DEF QuantumInv, size
<1> QED BY <1>5, <1>8, <1>9, <1>10, <1>11, <1>12, <1>13, OsStepCases
        DEF Recheck, AwaitStart, LoaderDone, TimerTick, vars

LEMMA QuantaAreWhole == OsTypeOK /\ QuantumInv => WholeQuanta
<1> SUFFICES ASSUME OsTypeOK, QuantumInv, NEW p \in Proc, Queued(p)
             PROVE  pc[p] % time_slot = 0
  BY DEF WholeQuanta
<1>1. pc[p] \in Nat /\ Whole(pc[p])
  BY DEF OsTypeOK, QuantumInv, Waiting
<1> QED BY <1>1, WholeSum


(***************************************************************************)
(* No CPU idles while work piles up.                                       *)
(***************************************************************************)
LEMMA Sizes ==
  ASSUME NEW S, IsFiniteSet(S), NEW T, NEW x
  PROVE  /\ Cardinality(S) \in Nat
         /\ T \subseteq S => IsFiniteSet(T) /\ Cardinality(T) <= Cardinality(S)
         /\ T \subseteq S \union {x} => Cardinality(T) <= Cardinality(S) + 1
         /\ x \notin S => Cardinality(S \union {x}) = Cardinality(S) + 1
         /\ x \in S => Cardinality(S \ {x}) = Cardinality(S) - 1
<1>1. Cardinality(S) \in Nat
  BY FS_CardinalityType
<1>2. T \subseteq S => IsFiniteSet(T) /\ Cardinality(T) <= Cardinality(S)
  BY FS_Subset
<1>3. IsFiniteSet(S \union {x}) /\ (x \notin S => Cardinality(S \union {x}) = Cardinality(S) + 1)
  BY FS_AddElement
<1>4. Cardinality(S \union {x}) <= Cardinality(S) + 1
  <2>1. CASE x \in S
    <3>1. S \union {x} = S
      BY <2>1
    <3> QED BY <1>1, <3>1
  <2> QED BY <1>1, <1>3, <2>1
<1>5. ASSUME T \subseteq S \union {x} PROVE Cardinality(T) <= Cardinality(S) + 1
  <2>1. /\ IsFiniteSet(T) /\ Cardinality(T) \in Nat
        /\ Cardinality(T) <= Cardinality(S \union {x})
        /\ Cardinality(S \union {x}) \in Nat
    BY <1>3, <1>5, FS_Subset, FS_CardinalityType
  <2> QED BY <1>1, <1>4, <2>1
<1>6. x \in S => Cardinality(S \ {x}) = Cardinality(S) - 1
  BY FS_RemoveElement
<1> QED BY <1>1, <1>2, <1>3, <1>5, <1>6

\* The sets that are counted are finite.
CountsOK ==
  /\ IsFiniteSet(Waiting) /\ IsFiniteSet(Asking) /\ Brought \in 0..1
  /\ Cardinality(Waiting) \in Nat /\ Cardinality(Asking) \in Nat

LEMMA Counts == TypeOK => CountsOK
<1> SUFFICES ASSUME TypeOK PROVE CountsOK
  OBVIOUS
<1>1. /\ IsFiniteSet(Proc) /\ Waiting \subseteq Proc
      /\ IsFiniteSet(CPU) /\ Asking \subseteq CPU
  BY SchedulerAssumption, OsSimAssumption DEF Waiting, Asking
<1>2. IsFiniteSet(Waiting) /\ IsFiniteSet(Asking)
  BY <1>1, Sizes
<1>3. Cardinality(Waiting) \in Nat /\ Cardinality(Asking) \in Nat
  BY <1>2, Sizes
<1> QED BY <1>2, <1>3 DEF CountsOK, Brought

LEMMA Balance ==
  ASSUME NEW w \in Nat, NEW a \in Nat, NEW b \in Nat,
         NEW w1 \in Nat, NEW a1 \in Nat, NEW b1 \in Nat,
         \/ w1 <= w /\ a1 = a /\ b <= b1
         \/ w1 <= w + 1 /\ a1 = a + 1 /\ b1 = b
         \/ w1 <= w + 1 /\ a1 = a /\ b1 = b + 1
  PROVE  w1 + a + b <= w + a1 + b1
OBVIOUS

LEMMA IdleStep ==
  OsTypeOK /\ TypeOK' /\ ThreadInv /\ OnePlace /\ IdleInv /\ [OsNext]_osVars => IdleInv'
<1> SUFFICES ASSUME OsTypeOK, TypeOK', ThreadInv, OnePlace, IdleInv, [OsNext]_osVars
             PROVE  IdleInv'
  OBVIOUS
<1> DEFINE W == Cardinality(Waiting)
           A == Cardinality(Asking)
<1>1. /\ TypeOK /\ proc \in [CPU -> Proc \union {NULL}] /\ NULL \notin Proc
      /\ at \in [CPU -> {"top", "next", "recheck", "stopped"}] /\ Loader \notin CPU
  BY SchedulerAssumption, OsSimAssumption DEF OsTypeOK, TypeOK
<1>2. /\ W \in Nat /\ A \in Nat /\ Brought \in Nat
      /\ IsFiniteSet(Waiting) /\ IsFiniteSet(Asking)
  BY <1>1, Counts DEF CountsOK, Brought
<1>3. W' \in Nat /\ A' \in Nat /\ Brought' \in Nat
  <2>1. CountsOK'
    BY Counts, PTL
  <2> QED BY <2>1 DEF CountsOK, Brought
<1>4. ASSUME Waiting' = {} PROVE IdleInv'
  <2>1. W' = 0
    BY <1>4, FS_EmptySet
  <2> QED BY <1>3, <2>1 DEF IdleInv
<1> HIDE DEF W, A
<1>5. ASSUME (\E d \in CPU : Idle(d))' => \E d \in CPU : Idle(d),
             W' + A + Brought <= W + A' + Brought'
      PROVE  IdleInv'
  BY <1>2, <1>3, <1>5 DEF IdleInv, W, A
<1> USE DEF Goto, Clock!Working, Clock!Arrive, Clock!Leave
\* A step that leaves the queues and the places of the CPUs in their loops.
<1>6. ASSUME UNCHANGED <<mlq_ready_queue, at>>, Brought <= Brought',
             (\E d \in CPU : Idle(d))' => \E d \in CPU : Idle(d)
      PROVE  IdleInv'
  <2>1. W' = W /\ A' = A
    BY <1>6 DEF W, A, Waiting, Queued, Asking
  <2>2. W' + A + Brought <= W + A' + Brought'
    <3>1. W' <= W
      BY <1>2, <2>1
    <3> QED BY <1>2, <1>3, <1>6, <2>1, <3>1, Balance
  <2> QED BY <1>5, <1>6, <2>2
<1>7. ASSUME NEW c \in CPU, LoadFirst(c) PROVE IdleInv'
  <2>1. CASE Waiting' = {}
    BY <1>4, <2>1
  <2>2. CASE Waiting' # {}
    <3>1. PICK p \in Waiting : proc' = [proc EXCEPT ![c] = p] /\ Waiting' = Waiting \ {p}
      BY <1>1, <1>7, <2>2, GetEffect DEF LoadFirst
    <3>2. W' = W - 1
      BY <1>2, <3>1, Sizes DEF W
    <3>3. /\ p \in Proc /\ proc'[c] = p /\ at' = at
          /\ \A d \in CPU \ {c} : proc'[d] = proc[d]
          /\ arrived' = arrived \union {c} /\ at[c] = "top"
      BY <1>1, <1>7, <3>1 DEF LoadFirst, Ready, Dispatch, Run, Waiting
    <3>4. A' = A /\ Brought' = Brought
      BY <1>1, <3>3 DEF A, Asking, Brought
    <3>5. ASSUME NEW d \in CPU, Idle(d)' PROVE Idle(d)
      BY <1>1, <3>3, <3>5 DEF Idle
    <3> QED BY <1>2, <1>5, <3>2, <3>4, <3>5
  <2> QED BY <2>1, <2>2
<1>8. ASSUME NEW c \in CPU, LoadNext(c) PROVE IdleInv'
  <2>1. CASE Waiting' = {}
    BY <1>4, <2>1
  <2>2. CASE Waiting' # {}
    <3>1. PICK p \in Waiting : proc' = [proc EXCEPT ![c] = p] /\ Waiting' = Waiting \ {p}
      BY <1>1, <1>8, <2>2, GetEffect DEF LoadNext
    <3>2. W' = W - 1
      BY <1>2, <3>1, Sizes DEF W
    <3>3. /\ p \in Proc /\ proc'[c] = p /\ at[c] = "next"
          /\ at' = [at EXCEPT ![c] = "top"]
          /\ \A d \in CPU \ {c} : proc'[d] = proc[d]
          /\ arrived' = arrived \union {c}
      BY <1>1, <1>8, <3>1 DEF LoadNext, Ready, Dispatch, Run, Waiting
    <3>4. c \in Asking /\ Asking' = Asking \ {c} /\ Brought' = Brought
      BY <1>1, <3>3 DEF Asking, Brought
    <3>5. A' = A - 1
      BY <1>2, <3>4, Sizes DEF A
    <3>6. ASSUME NEW d \in CPU, Idle(d)' PROVE Idle(d)
      BY <1>1, <3>3, <3>6 DEF Idle
    <3> QED BY <1>2, <1>5, <3>2, <3>4, <3>5, <3>6
  <2> QED BY <2>1, <2>2
<1>9. ASSUME NEW c \in CPU, FreeFinished(c) \/ PutBack(c) PROVE IdleInv'
  <2>1. /\ at[c] = "top" /\ at' = [at EXCEPT ![c] = "next"] /\ c \notin arrived
        /\ arrived' = arrived
    BY <1>9 DEF FreeFinished, PutBack, Ready, clockVars
  <2>2. c \notin Asking /\ Asking' = Asking \union {c} /\ Brought' = Brought
    BY <1>1, <2>1 DEF Asking, Brought
  <2>3. A' = A + 1
    BY <1>2, <2>2, Sizes DEF A
  <2>4. proc[c] # NULL /\ proc' = [proc EXCEPT ![c] = NULL]
    BY <1>9 DEF FreeFinished, PutBack, Finished, FreeProc, PutProc
  <2>5. \E x : Waiting' \subseteq Waiting \union {x}
    <3>1. CASE FreeFinished(c)
      BY <3>1 DEF FreeFinished, FreeProc, schedVars, Waiting, Queued
    <3>2. CASE PutBack(c)
      <4>1. proc[c] \in Proc
        BY <1>1, <2>4
      <4> QED BY <1>1, <3>2, <4>1, EnqueueWaiting DEF PutBack, PutProc
    <3> QED BY <1>9, <3>1, <3>2
  <2>6. W' <= W + 1
    BY <1>2, <2>5, Sizes DEF W
  <2>7. ASSUME NEW d \in CPU, Idle(d)' PROVE Idle(d)
    BY <1>1, <2>1, <2>4, <2>7 DEF Idle
  <2>8. W' + A + Brought <= W + A' + Brought'
    BY <1>2, <1>3, <2>2, <2>3, <2>6, Balance
  <2> QED BY <1>5, <2>7, <2>8
<1>10. ASSUME NEW c \in CPU, Recheck(c) PROVE IdleInv'
  <2>1. /\ at[c] = "recheck" /\ Idle(c) /\ UNCHANGED <<mlq_ready_queue, proc>>
        /\ Brought' = Brought
    BY <1>1, <1>10 DEF Recheck, Ready, Idle, Brought, vars, schedVars
  <2>2. Asking' = Asking /\ Waiting' = Waiting
    BY <1>1, <1>10, <2>1 DEF Recheck, Asking, Waiting, Queued
  <2> QED BY <1>2, <1>5, <2>1, <2>2 DEF W, A
<1>11. ASSUME NEW c \in CPU, Continue(c) PROVE IdleInv'
  <2>1. /\ at[c] = "top" /\ proc[c] # NULL /\ arrived' = arrived \union {c}
        /\ UNCHANGED <<mlq_ready_queue, proc, at>>
    BY <1>1, <1>11 DEF Continue, Ready, Run, vars, schedVars
  <2>2. Brought' = Brought
    BY <1>1, <2>1 DEF Brought
  <2>3. ASSUME NEW d \in CPU, Idle(d)' PROVE Idle(d)
    BY <2>1, <2>3 DEF Idle
  <2> QED BY <1>2, <1>6, <2>1, <2>2, <2>3
<1>12. ASSUME LoadProc PROVE IdleInv'
  <2> DEFINE p == Pending
  <2>1. /\ p \in Proc /\ UNCHANGED <<at, proc>> /\ Loader \notin arrived
        /\ arrived' = arrived \union {Loader}
        /\ mlq_ready_queue' = [mlq_ready_queue EXCEPT ![prio[p]] = Enqueue(@, p)]
    BY <1>12 DEF LoadProc, AddProc
  <2> HIDE DEF p
  <2>2. Waiting' \subseteq Waiting \union {p}
    BY <1>1, <2>1, EnqueueWaiting
  <2>3. W' <= W + 1
    BY <1>2, <2>2, Sizes DEF W
  <2>4. A' = A /\ Brought' = Brought + 1
    BY <2>1 DEF A, Asking, Brought
  <2>5. ASSUME NEW d \in CPU, Idle(d)' PROVE Idle(d)
    BY <1>1, <2>1, <2>5 DEF Idle
  <2>6. W' + A + Brought <= W + A' + Brought'
    BY <1>2, <1>3, <2>3, <2>4, Balance
  <2> QED BY <1>5, <2>5, <2>6
<1>13. ASSUME AwaitStart \/ LoaderDone PROVE IdleInv'
  <2>1. /\ UNCHANGED <<mlq_ready_queue, at, proc>>
        /\ arrived' \subseteq arrived \union {Loader} /\ arrived \subseteq arrived'
    BY <1>13 DEF AwaitStart, LoaderDone, vars, schedVars
  <2>2. Brought <= Brought'
    BY <2>1 DEF Brought
  <2>3. ASSUME NEW d \in CPU, Idle(d)' PROVE Idle(d)
    BY <1>1, <2>1, <2>3 DEF Idle
  <2> QED BY <1>6, <2>1, <2>2, <2>3
<1>14. ASSUME TimerTick PROVE IdleInv'
  <2>1. ASSUME NEW d \in CPU, Idle(d)' PROVE FALSE
    <3>1. at[d] = "recheck" /\ d \in arrived \union left
      BY <1>14, <2>1 DEF TimerTick, Clock!Tick, Idle, Device
    <3> QED BY <3>1 DEF ThreadInv
  <2> QED BY <2>1 DEF IdleInv
<1>15. ASSUME UNCHANGED <<vars, clockVars, done, at, time_left, pc>> PROVE IdleInv'
  <2>1. Brought' = Brought /\ ((\E d \in CPU : Idle(d))' => \E d \in CPU : Idle(d))
    BY <1>15 DEF vars, clockVars, Brought, Idle
  <2> QED BY <1>2, <1>6, <1>15, <2>1 DEF vars, schedVars
<1> QED BY <1>7, <1>8, <1>9, <1>10, <1>11, <1>12, <1>13, <1>14, <1>15, OsStepCases

LEMMA NoneIdles == OsTypeOK /\ ThreadInv /\ IdleInv => NoIdlingBesideWork
<1> SUFFICES ASSUME OsTypeOK, ThreadInv, IdleInv, arrived \union left = Device,
                    NEW c \in CPU, c \in arrived, proc[c] = NULL
             PROVE  Cardinality(Waiting) <= 1
  BY DEF NoIdlingBesideWork, Waiting
<1>1. Cardinality(Waiting) <= Cardinality(Asking) + Brought
  BY DEF IdleInv, Idle
<1>2. Asking = {}
  BY DEF Asking, ThreadInv, Device
<1>3. Cardinality(Asking) = 0
  BY <1>2, FS_EmptySet
<1> QED BY <1>1, <1>3, Counts DEF OsTypeOK, CountsOK


(***************************************************************************)
(* No CPU stops early.                                                     *)
(***************************************************************************)
\* When none waits, each unfinished process is on a CPU of its own.
LEMMA OnePerCpu ==
  ASSUME TypeOK, OnePlace, NoProcessLost, Fits, Waiting = {},
         NEW T \in SUBSET CPU, \A d \in CPU \ T : proc[d] = NULL
  PROVE  Cardinality(Unfinished) <= Cardinality(T)
<1>1. /\ IsFiniteSet(Unfinished) /\ IsFiniteSet(T)
      /\ Cardinality(Unfinished) \in Nat /\ Cardinality(T) \in Nat
  <2>1. Unfinished \subseteq Proc
    BY DEF Unfinished, TypeOK
  <2> QED BY <2>1, Sizes, SchedulerAssumption, OsSimAssumption
<1>2. \A p \in Unfinished : p \in Proc /\ \E d \in CPU : proc[d] = p
  BY DEF NoProcessLost, Unfinished, Waiting, Held, TypeOK
<1>3. \A p \in Unfinished : p # NULL /\ \E d \in T : proc[d] = p
  BY <1>2, SchedulerAssumption
<1> DEFINE f == [p \in Unfinished |-> CHOOSE d \in T : proc[d] = p]
<1>4. f \in [Unfinished -> T] /\ \A p \in Unfinished : proc[f[p]] = p
  BY <1>3
<1> HIDE DEF f
<1>5. ~(\E p, q \in Unfinished : p # q /\ f[p] = f[q])
  BY <1>4
<1>6. ~(Cardinality(T) < Cardinality(Unfinished))
  BY <1>1, <1>4, <1>5, FS_PigeonHole
<1> QED BY <1>1, <1>6

LEMMA PartStep ==
  /\ OsTypeOK /\ ThreadInv /\ OnePlace /\ NoProcessLost /\ Fits /\ PartInv
  /\ [OsNext]_osVars
  => PartInv'
<1> SUFFICES ASSUME OsTypeOK, ThreadInv, OnePlace, NoProcessLost, Fits, PartInv,
                    [OsNext]_osVars
             PROVE  PartInv'
  OBVIOUS
<1>1. /\ TypeOK /\ proc \in [CPU -> Proc \union {NULL}] /\ NULL \notin Proc
      /\ at \in [CPU -> {"top", "next", "recheck", "stopped"}] /\ Loader \notin CPU
  BY SchedulerAssumption, OsSimAssumption DEF OsTypeOK, TypeOK
<1> DEFINE Left == Cardinality(Unfinished)
           Room == Cardinality(CPU \ Parting)
<1>2. ASSUME Parting' \subseteq Parting, Unfinished' \subseteq Unfinished,
             Parting' # {} /\ LoaderQuiet' => LoaderQuiet
      PROVE  PartInv'
  <2>1. IsFiniteSet(Unfinished) /\ IsFiniteSet((CPU \ Parting)')
    <3>1. Unfinished \subseteq Proc /\ (CPU \ Parting)' \subseteq CPU
      BY <1>1 DEF Unfinished, TypeOK
    <3> QED BY <3>1, Sizes, SchedulerAssumption, OsSimAssumption
  <2>2. Left' <= Left /\ Room <= Room'
    <3>1. CPU \ Parting \subseteq (CPU \ Parting)'
      BY <1>2
    <3> QED BY <1>2, <2>1, <3>1, Sizes
  <2>3. Left \in Nat /\ Left' \in Nat /\ Room \in Nat /\ Room' \in Nat
    <3>1. IsFiniteSet(Unfinished') /\ IsFiniteSet(CPU \ Parting)
      <4>1. CPU \ Parting \subseteq CPU
        OBVIOUS
      <4> QED BY <1>2, <2>1, <4>1, Sizes, OsSimAssumption
    <3> QED BY <2>1, <3>1, Sizes
  <2> HIDE DEF Left, Room
  <2>4. ASSUME Parting' # {} /\ LoaderQuiet' PROVE Left' <= Room'
    <3>1. Left <= Room
      BY <1>2, <2>4 DEF PartInv, Left, Room
    <3>2. \A l, l1, r, r1 \in Nat : l1 <= l /\ l <= r /\ r <= r1 => l1 <= r1
      OBVIOUS
    <3> QED BY <2>2, <2>3, <3>1, <3>2
  <2> QED BY <2>4 DEF PartInv, Left, Room
<1> HIDE DEF Left, Room
<1> USE DEF Goto, Clock!Working, Clock!Arrive, Clock!Leave
\* A step at which no CPU comes to part.
<1>3. ASSUME loaded' = loaded, finished \subseteq finished', Parting' \subseteq Parting,
             (Loader \in arrived) => Loader \in arrived'
      PROVE  PartInv'
  BY <1>2, <1>3 DEF Unfinished, LoaderQuiet, Pending
<1>4. ASSUME NEW c \in CPU, GetProc(c), Dispatch(c) PROVE PartInv'
  <2>1. loaded' = loaded /\ finished' = finished
    BY <1>1, <1>4, GetEffect
  <2>2. Parting' \subseteq Parting /\ arrived' = arrived \union {c}
    BY <1>1, <1>4 DEF Dispatch, Run, Parting
  <2> QED BY <1>3, <2>1, <2>2
<1>5. ASSUME NEW c \in CPU, LoadFirst(c) PROVE PartInv'
  <2>1. CASE Dispatch(c)
    BY <1>4, <1>5, <2>1 DEF LoadFirst
  <2>2. CASE UNCHANGED at /\ Clock!Arrive(c)
    <3>1. loaded' = loaded /\ finished' = finished
      BY <1>1, <1>5, GetEffect DEF LoadFirst
    <3> QED BY <1>3, <2>2, <3>1 DEF Parting
  <2> QED BY <1>5, <2>1, <2>2 DEF LoadFirst
<1>6. ASSUME NEW c \in CPU, LoadNext(c) PROVE PartInv'
  <2>1. CASE Dispatch(c)
    BY <1>4, <1>6, <2>1 DEF LoadNext
  <2>2. CASE proc'[c] = NULL /\ at' = [at EXCEPT ![c] = "recheck"]
    <3>1. /\ proc[c] = NULL /\ loaded' = loaded /\ finished' = finished
          /\ Waiting = {}
      <4>1. ASSUME NEW p \in Waiting, proc' = [proc EXCEPT ![c] = p] PROVE FALSE
        BY <1>1, <2>2, <4>1 DEF Waiting
      <4> QED BY <1>1, <1>6, <4>1, GetEffect DEF LoadNext
    <3>2. \A d \in CPU : d \in Parting' <=> d \in Parting \/ d = c
      BY <1>1, <2>2 DEF Parting
    <3>3. \A d \in Parting : proc[d] = NULL
      BY DEF ThreadInv, Parting
    <3>4. Parting' \subseteq CPU
      BY DEF Parting
    <3> DEFINE T == CPU \ Parting'
    <3>5. \A d \in CPU \ T : proc[d] = NULL
      BY <3>1, <3>2, <3>3
    <3>6. Cardinality(Unfinished) <= Cardinality(T)
      BY <1>1, <3>1, <3>5, OnePerCpu
    <3>7. Unfinished' = Unfinished
      BY <3>1 DEF Unfinished
    <3> QED BY <3>6, <3>7 DEF PartInv
  <2> QED BY <1>6, <2>1, <2>2 DEF LoadNext
<1>7. ASSUME NEW c \in CPU, FreeFinished(c) \/ PutBack(c) PROVE PartInv'
  <2>1. loaded' = loaded /\ finished \subseteq finished' /\ arrived' = arrived
    BY <1>7 DEF FreeFinished, PutBack, FreeProc, PutProc, clockVars
  <2>2. Parting' \subseteq Parting
    BY <1>1, <1>7 DEF FreeFinished, PutBack, Parting
  <2> QED BY <1>3, <2>1, <2>2
<1>8. ASSUME NEW c \in CPU, Recheck(c) PROVE PartInv'
  <2>1. loaded' = loaded /\ finished' = finished /\ arrived \subseteq arrived'
    BY <1>8 DEF Recheck, vars
  <2>2. Parting' \subseteq Parting
    BY <1>1, <1>8 DEF Recheck, Ready, Parting
  <2> QED BY <1>3, <2>1, <2>2
<1>9. ASSUME NEW c \in CPU, Continue(c) PROVE PartInv'
  <2>1. loaded' = loaded /\ finished' = finished /\ arrived \subseteq arrived'
    BY <1>9 DEF Continue, Run, vars
  <2>2. Parting' \subseteq Parting
    BY <1>1, <1>9 DEF Continue, Run, Ready, Parting
  <2> QED BY <1>3, <2>1, <2>2
<1>10. ASSUME AwaitStart \/ LoadProc PROVE PartInv'
  BY <1>10 DEF AwaitStart, LoadProc, PartInv, LoaderQuiet
<1>11. ASSUME LoaderDone PROVE PartInv'
  BY <1>3, <1>11 DEF LoaderDone, vars, Parting
<1>12. ASSUME TimerTick PROVE PartInv'
  <2>1. /\ UNCHANGED <<vars, at>> /\ arrived \union left = Device
    BY <1>12 DEF TimerTick, Clock!Tick
  <2>2. Parting' = Parting /\ Unfinished' = Unfinished /\ Pending' = Pending
    BY <2>1 DEF Parting, Unfinished, Pending, vars
  <2>3. ASSUME Parting # {}, LoaderQuiet' PROVE LoaderQuiet
    <3>1. PICK d \in CPU : at[d] \in {"recheck", "stopped"}
      BY <2>3 DEF Parting
    <3>2. d \in arrived \union left
      BY <2>1 DEF Device
    <3>3. d \in Stopped
      BY <3>1, <3>2 DEF ThreadInv, Stopped
    <3>4. Loader \notin arrived
      BY <3>3 DEF ThreadInv
    <3> QED BY <2>2, <2>3, <3>4 DEF LoaderQuiet
  <2> QED BY <1>2, <2>2, <2>3
<1>13. ASSUME UNCHANGED <<vars, clockVars, done, at, time_left, pc>> PROVE PartInv'
  BY <1>3, <1>13 DEF vars, clockVars, Parting
<1> QED BY <1>5, <1>6, <1>7, <1>8, <1>9, <1>10, <1>11, <1>12, <1>13, OsStepCases

LEMMA NoneStopsEarly == OsTypeOK /\ ThreadInv /\ PartInv => NoCpuStopsEarly
<1> SUFFICES ASSUME OsTypeOK, ThreadInv, PartInv, Stopped # {}
             PROVE  /\ Pending \notin Proc
                    /\ Cardinality(Unfinished) <= Cardinality(CPU \ Stopped)
  BY DEF NoCpuStopsEarly
<1>1. done /\ Loader \in left /\ Pending \notin Proc /\ Loader \notin arrived
  BY DEF ThreadInv
<1>2. Stopped \subseteq Parting /\ Parting # {}
  BY DEF ThreadInv, Stopped, Parting
<1>3. Cardinality(Unfinished) <= Cardinality(CPU \ Parting)
  BY <1>1, <1>2 DEF PartInv, LoaderQuiet
<1>4. /\ IsFiniteSet(Unfinished) /\ IsFiniteSet(CPU \ Stopped)
      /\ CPU \ Parting \subseteq CPU \ Stopped
  <2>1. Unfinished \subseteq Proc /\ CPU \ Stopped \subseteq CPU
    BY DEF OsTypeOK, TypeOK, Unfinished
  <2> QED BY <1>2, <2>1, Sizes, SchedulerAssumption, OsSimAssumption
<1>5. /\ Cardinality(CPU \ Parting) <= Cardinality(CPU \ Stopped)
      /\ Cardinality(Unfinished) \in Nat /\ Cardinality(CPU \ Stopped) \in Nat
      /\ Cardinality(CPU \ Parting) \in Nat
  BY <1>4, Sizes
<1>6. \A l, r, r1 \in Nat : l <= r /\ r <= r1 => l <= r1
  OBVIOUS
<1> QED BY <1>1, <1>3, <1>5, <1>6

(***************************************************************************)
(* The theorems.                                                           *)
(***************************************************************************)
IInv == OsTypeOK /\ ThreadInv /\ QuantumInv /\ IdleInv

LEMMA OsInitially == OsInit /\ TypeOK => IInv /\ PartInv
<1> SUFFICES ASSUME OsInit, TypeOK PROVE IInv /\ PartInv
  OBVIOUS
<1>1. /\ config \in Configs /\ Init /\ now = 0 /\ arrived = {} /\ left = {} /\ done = FALSE
      /\ at = [c \in CPU |-> "top"] /\ time_left = [c \in CPU |-> 0]
      /\ pc = [p \in Proc |-> 0]
  BY DEF OsInit, Clock!ClockInit
<1>2. Waiting = {} /\ loaded = {} /\ \A c \in CPU : proc[c] = NULL
  <2>1. \A l \in Level : mlq_ready_queue[l] = <<>>
    BY <1>1 DEF Init
  <2>2. \A p : p \notin ToSet(<<>>)
    BY EmptySeq DEF ToSet
  <2> QED BY <1>1, <2>1, <2>2 DEF Init, Waiting, Queued
<1>3. OsTypeOK
  <2>1. time_slot \in Nat /\ TimeCap \in Nat
        /\ config \in [start_time : [Proc -> 0..TimeCap], size : [Proc -> Nat]]
    BY <1>1, OsSimAssumption
  <2>2. pc \in [Proc -> Nat] /\ \A p \in Proc : pc[p] <= config.size[p]
    <3>1. \A p \in Proc : pc[p] = 0 /\ config.size[p] \in Nat
      BY <1>1, <2>1
    <3> QED BY <1>1, <3>1
  <2>3. Clock!ClockTypeOK
    BY <1>1, <2>1 DEF Clock!ClockTypeOK
  <2>4. time_left \in [CPU -> 0..time_slot]
    BY <1>1, <2>1
  <2> QED BY <1>1, <2>2, <2>3, <2>4 DEF OsTypeOK, size
<1>4. ThreadInv
  BY <1>1 DEF ThreadInv, Stopped
<1>5. QuantumInv
  BY <1>1, <1>2 DEF QuantumInv
<1>6. IdleInv
  BY <1>1 DEF IdleInv, Idle
<1>7. PartInv
  BY <1>1 DEF PartInv, Parting
<1> QED BY <1>3, <1>4, <1>5, <1>6, <1>7 DEF IInv


LEMMA OsInvariant == OsSpec => []IInv
<1>1. IInv /\ TypeOK' /\ OnePlace /\ [OsNext]_osVars => IInv'
  BY OsTypes, Threads, QuantumStep, IdleStep DEF IInv
<1> QED BY <1>1, OsInitially, SchedulerFacts, PTL DEF OsSpec

\* Every variable of the simulator has its type: no CPU has more time left than
\* a quantum, and no process is run past its last instruction (cpu_routine).
THEOREM OsTypeCorrect == OsSpec => []OsTypeOK
<1>1. IInv => OsTypeOK
  BY DEF IInv
<1> QED BY <1>1, OsInvariant, PTL

\* Processes are preempted only at the end of a whole quantum (cpu_routine).
THEOREM QuantaWhole == OsSpec => []WholeQuanta
<1>1. IInv => WholeQuanta
  BY QuantaAreWhole DEF IInv
<1> QED BY <1>1, OsInvariant, PTL

\* No CPU idles through a slot beside more waiting processes than the one the
\* loader has just brought (cpu_routine and ld_routine).
THEOREM NoIdling == OsSpec => []NoIdlingBesideWork
<1>1. IInv => NoIdlingBesideWork
  BY NoneIdles DEF IInv
<1> QED BY <1>1, OsInvariant, PTL

\* If the processes fit into a queue, no CPU stops while there may be work for
\* it: the test of done after a get_proc that finds nothing is safe.
THEOREM NoEarlyStop ==
  ASSUME Fits
  PROVE  OsSpec => []NoCpuStopsEarly
<1>1. /\ IInv /\ OnePlace /\ NoProcessLost /\ PartInv /\ [OsNext]_osVars
      => PartInv'
  BY PartStep DEF IInv
<1>2. IInv /\ PartInv => NoCpuStopsEarly
  BY NoneStopsEarly DEF IInv
<1> QED BY <1>1, <1>2, OsInitially, OsInvariant, SchedulerFacts, PTL DEF OsSpec

=============================================================================
