-------------------------------- MODULE Timer --------------------------------
(***************************************************************************)
(* src/src/timer.c: the thread that drives simulated time, and the calls   *)
(* next_slot and detach_event with which the CPU and loader threads        *)
(* synchronise with it, down to the two mutexes and the two condition      *)
(* variables of every device.  The main thread of os.c, which attaches the *)
(* devices, starts the timer, joins the device threads and stops the       *)
(* timer, is here because the life of the shared containers depends on it. *)
(*                                                                         *)
(* A critical section is one action from the step that takes its mutex to  *)
(* the step that ends it, and the two are separate actions, so that a      *)
(* thread can be observed about to touch what another one is touching.     *)
(***************************************************************************)
EXTENDS Integers

CONSTANTS
  N,        \* the number of devices: num_cpus + 1
  TimeCap   \* where the counting of _time saturates

ASSUME TimerAssumption == N \in Nat \ {0} /\ TimeCap \in Nat

\* A device is named by its place in dev_list.  attach_event puts a container
\* at the head of the list, so the device attached first is device N.
Device == 1..N
NULL   == N + 1     \* the end of dev_list
Timer  == 0         \* the timer thread, as the owner of a mutex
NoOne  == -1        \* a free mutex

VARIABLES
  dev_list,      \* the first container of the list
  timer_started,
  timer_stop,
  _time,
  done,          \* done[d]: container d's flags
  fsh,
  event_lock,    \* event_lock[d]: the owner of container d's mutexes
  timer_lock,
  dpc,           \* dpc[d]: where device thread d is
  tpc,           \* where the timer thread is
  temp,          \* the container the timer thread is at
  fshCount,      \* its local variables fsh and event
  eventCount,
  mpc            \* where the main thread is

globalVars == <<dev_list, timer_started, timer_stop>>
flagVars   == <<done, fsh>>
lockVars   == <<event_lock, timer_lock>>
timerVars  == <<tpc, temp, fshCount, eventCount>>
vars == <<globalVars, _time, flagVars, lockVars, dpc, timerVars, mpc>>

DeviceAt == {"unborn", "work", "arrive", "waitTimer", "checkDone", "waiting",
             "woken", "detach", "exited"}
TimerAt  == {"unborn", "checkStop", "lockEvent", "checkEvent", "waiting",
             "woken", "tick", "lockTimer", "clear", "exited"}
MainAt   == {"attach", "joinDevices", "joinTimer", "destroy", "returned"}

Init ==
  /\ dev_list = NULL
  /\ timer_started = FALSE /\ timer_stop = FALSE
  /\ _time = 0
  /\ done = [d \in Device |-> FALSE] /\ fsh = [d \in Device |-> FALSE]
  /\ event_lock = [d \in Device |-> NoOne]
  /\ timer_lock = [d \in Device |-> NoOne]
  /\ dpc = [d \in Device |-> "unborn"]
  /\ tpc = "unborn" /\ temp = NULL /\ fshCount = 0 /\ eventCount = 0
  /\ mpc = "attach"

(***************************************************************************)
(* A device thread.  Between two calls it is at "work".                    *)
(***************************************************************************)
Goto(d, there) == dpc' = [dpc EXCEPT ![d] = there]

\* pthread_cond_signal on event_cond of container d: only the timer thread
\* ever waits there.
SignalEvent(d) ==
  tpc' = IF tpc = "waiting" /\ temp = d THEN "woken" ELSE tpc

\* next_slot and detach_event begin by taking the container's event_lock.
EnterNextSlot(d) ==
  /\ dpc[d] = "work" /\ event_lock[d] = NoOne
  /\ event_lock' = [event_lock EXCEPT ![d] = d]
  /\ Goto(d, "arrive")
  /\ UNCHANGED <<globalVars, _time, flagVars, timer_lock, timerVars, mpc>>

EnterDetach(d) ==
  /\ dpc[d] = "work" /\ event_lock[d] = NoOne
  /\ event_lock' = [event_lock EXCEPT ![d] = d]
  /\ Goto(d, "detach")
  /\ UNCHANGED <<globalVars, _time, flagVars, timer_lock, timerVars, mpc>>

\* Mutant: next_slot forgets to signal event_cond.
SetDoneSilently(d) ==
  /\ dpc[d] = "arrive"
  /\ done' = [done EXCEPT ![d] = TRUE]
  /\ event_lock' = [event_lock EXCEPT ![d] = NoOne]
  /\ Goto(d, "waitTimer")
  /\ UNCHANGED <<globalVars, _time, fsh, timer_lock, timerVars, mpc>>

\* Tell the timer that the job of this slot is done.
SetDone(d) ==
  /\ dpc[d] = "arrive"
  /\ done' = [done EXCEPT ![d] = TRUE]
  /\ SignalEvent(d)
  /\ event_lock' = [event_lock EXCEPT ![d] = NoOne]
  /\ Goto(d, "waitTimer")
  /\ UNCHANGED <<globalVars, _time, fsh, timer_lock, temp, fshCount,
                 eventCount, mpc>>

\* Mutant: detach_event forgets to signal event_cond.
SetFshSilently(d) ==
  /\ dpc[d] = "detach"
  /\ fsh' = [fsh EXCEPT ![d] = TRUE]
  /\ event_lock' = [event_lock EXCEPT ![d] = NoOne]
  /\ Goto(d, "exited")
  /\ UNCHANGED <<globalVars, _time, done, timer_lock, timerVars, mpc>>

\* detach_event, after which the thread returns.
SetFsh(d) ==
  /\ dpc[d] = "detach"
  /\ fsh' = [fsh EXCEPT ![d] = TRUE]
  /\ SignalEvent(d)
  /\ event_lock' = [event_lock EXCEPT ![d] = NoOne]
  /\ Goto(d, "exited")
  /\ UNCHANGED <<globalVars, _time, done, timer_lock, temp, fshCount,
                 eventCount, mpc>>

\* Take timer_lock, at first or on the way out of pthread_cond_wait.
LockTimer(d) ==
  /\ dpc[d] \in {"waitTimer", "woken"} /\ timer_lock[d] = NoOne
  /\ timer_lock' = [timer_lock EXCEPT ![d] = d]
  /\ Goto(d, "checkDone")
  /\ UNCHANGED <<globalVars, _time, flagVars, event_lock, timerVars, mpc>>

\* while (done) pthread_cond_wait(timer_cond): either way the mutex is free.
CheckDone(d) ==
  /\ dpc[d] = "checkDone"
  /\ timer_lock' = [timer_lock EXCEPT ![d] = NoOne]
  /\ Goto(d, IF done[d] THEN "waiting" ELSE "work")
  /\ UNCHANGED <<globalVars, _time, flagVars, event_lock, timerVars, mpc>>

\* POSIX lets pthread_cond_wait return without a signal.
SpuriousWakeup(d) ==
  /\ dpc[d] = "waiting"
  /\ Goto(d, "woken")
  /\ UNCHANGED <<globalVars, _time, flagVars, lockVars, timerVars, mpc>>

DeviceStep(d) ==
  \/ EnterNextSlot(d) \/ EnterDetach(d) \/ SetDone(d) \/ SetFsh(d)
  \/ LockTimer(d) \/ CheckDone(d)

(***************************************************************************)
(* timer_routine                                                           *)
(***************************************************************************)
\* Mutant: fsh and event are declared outside the loop, and never reset.
CheckStopNoReset ==
  /\ tpc = "checkStop"
  /\ tpc' = IF timer_stop THEN "exited" ELSE "lockEvent"
  /\ temp' = dev_list
  /\ UNCHANGED <<globalVars, _time, flagVars, lockVars, dpc, fshCount,
                 eventCount, mpc>>

\* while (!timer_should_stop()), and the start of the first scan of dev_list.
CheckStop ==
  /\ tpc = "checkStop"
  /\ tpc' = IF timer_stop THEN "exited" ELSE "lockEvent"
  /\ temp' = dev_list
  /\ fshCount' = 0 /\ eventCount' = 0
  /\ UNCHANGED <<globalVars, _time, flagVars, lockVars, dpc, mpc>>

LockEvent ==
  /\ tpc \in {"lockEvent", "woken"} /\ event_lock[temp] = NoOne
  /\ event_lock' = [event_lock EXCEPT ![temp] = Timer]
  /\ tpc' = "checkEvent"
  /\ UNCHANGED <<globalVars, _time, flagVars, timer_lock, dpc, temp, fshCount,
                 eventCount, mpc>>

\* while (!done && !fsh) pthread_cond_wait(event_cond).
WaitEvent ==
  /\ tpc = "checkEvent" /\ ~done[temp] /\ ~fsh[temp]
  /\ event_lock' = [event_lock EXCEPT ![temp] = NoOne]
  /\ tpc' = "waiting"
  /\ UNCHANGED <<globalVars, _time, flagVars, timer_lock, dpc, temp, fshCount,
                 eventCount, mpc>>

AdvanceEvent ==
  /\ event_lock' = [event_lock EXCEPT ![temp] = NoOne]
  /\ eventCount' = eventCount + 1
  /\ temp' = temp + 1
  /\ tpc' = IF temp + 1 = NULL THEN "tick" ELSE "lockEvent"
  /\ UNCHANGED <<globalVars, _time, flagVars, timer_lock, dpc, mpc>>

CountFsh == fshCount' = IF fsh[temp] THEN fshCount + 1 ELSE fshCount

\* Mutant: "if" instead of "while" around pthread_cond_wait, so that a
\* spurious wakeup passes for the signal.
PassEventUntested ==
  /\ tpc = "checkEvent"
  /\ CountFsh
  /\ AdvanceEvent

\* Mutant: a device that is done with the slot counts as finished.
PassEventAllFinished ==
  /\ tpc = "checkEvent" /\ (done[temp] \/ fsh[temp])
  /\ fshCount' = fshCount + 1
  /\ AdvanceEvent

\* The device is done with the slot, or gone: on to the next container.
PassEvent ==
  /\ tpc = "checkEvent" /\ (done[temp] \/ fsh[temp])
  /\ CountFsh
  /\ AdvanceEvent

SpuriousTimerWakeup ==
  /\ tpc = "waiting"
  /\ tpc' = "woken"
  /\ UNCHANGED <<globalVars, _time, flagVars, lockVars, dpc, temp, fshCount,
                 eventCount, mpc>>

\* _time++, a counter of 64 bits; its counting saturates at TimeCap here.
NextTime(t) == IF t < TimeCap THEN t + 1 ELSE t

Tick ==
  /\ tpc = "tick"
  /\ _time' = NextTime(_time)
  /\ temp' = dev_list
  /\ tpc' = "lockTimer"
  /\ UNCHANGED <<globalVars, flagVars, lockVars, dpc, fshCount, eventCount, mpc>>

LockForClear ==
  /\ tpc = "lockTimer" /\ timer_lock[temp] = NoOne
  /\ timer_lock' = [timer_lock EXCEPT ![temp] = Timer]
  /\ tpc' = "clear"
  /\ UNCHANGED <<globalVars, _time, flagVars, event_lock, dpc, temp, fshCount,
                 eventCount, mpc>>

\* Mutant: timer_routine forgets to signal timer_cond.
ClearDoneSilently ==
  /\ tpc = "clear"
  /\ done' = [done EXCEPT ![temp] = FALSE]
  /\ timer_lock' = [timer_lock EXCEPT ![temp] = NoOne]
  /\ temp' = temp + 1
  /\ tpc' = IF temp + 1 # NULL THEN "lockTimer"
            ELSE IF fshCount = eventCount THEN "exited" ELSE "checkStop"
  /\ UNCHANGED <<globalVars, _time, fsh, event_lock, dpc, fshCount,
                 eventCount, mpc>>

\* done = 0 and signal timer_cond; after the last container, stop if every
\* device was found finished.
ClearDone ==
  /\ tpc = "clear"
  /\ done' = [done EXCEPT ![temp] = FALSE]
  /\ dpc' = [dpc EXCEPT ![temp] = IF @ = "waiting" THEN "woken" ELSE @]
  /\ timer_lock' = [timer_lock EXCEPT ![temp] = NoOne]
  /\ temp' = temp + 1
  /\ tpc' = IF temp + 1 # NULL THEN "lockTimer"
            ELSE IF fshCount = eventCount THEN "exited" ELSE "checkStop"
  /\ UNCHANGED <<globalVars, _time, fsh, event_lock, fshCount, eventCount, mpc>>

TimerStep ==
  \/ CheckStop \/ LockEvent \/ WaitEvent \/ PassEvent
  \/ Tick \/ LockForClear \/ ClearDone

(***************************************************************************)
(* The main thread of os.c, as far as it uses the timer.                   *)
(***************************************************************************)
\* attach_event, once for every CPU and once for the loader.
AttachEvent ==
  /\ mpc = "attach" /\ ~timer_started /\ dev_list # 1
  /\ dev_list' = dev_list - 1
  /\ done' = [done EXCEPT ![dev_list - 1] = FALSE]
  /\ fsh' = [fsh EXCEPT ![dev_list - 1] = FALSE]
  /\ UNCHANGED <<timer_started, timer_stop, _time, lockVars, dpc, timerVars, mpc>>

\* start_timer, and the creation of the loader and CPU threads.
StartTimer ==
  /\ mpc = "attach" /\ dev_list = 1
  /\ timer_started' = TRUE /\ timer_stop' = FALSE /\ _time' = 0
  /\ tpc' = "checkStop"
  /\ dpc' = [d \in Device |-> "work"]
  /\ mpc' = "joinDevices"
  /\ UNCHANGED <<dev_list, flagVars, lockVars, temp, fshCount, eventCount>>

\* The joins of main, then stop_timer up to its own join.
RequestStop ==
  /\ mpc = "joinDevices" /\ \A d \in Device : dpc[d] = "exited"
  /\ timer_stop' = TRUE
  /\ mpc' = "joinTimer"
  /\ UNCHANGED <<dev_list, timer_started, _time, flagVars, lockVars, dpc, timerVars>>

JoinTimer ==
  /\ mpc = "joinTimer" /\ tpc = "exited"
  /\ mpc' = "destroy"
  /\ UNCHANGED <<globalVars, _time, flagVars, lockVars, dpc, timerVars>>

\* stop_timer destroys and frees the containers one by one.
DestroyEvent ==
  /\ mpc = "destroy" /\ dev_list # NULL
  /\ dev_list' = dev_list + 1
  /\ mpc' = IF dev_list + 1 = NULL THEN "returned" ELSE "destroy"
  /\ UNCHANGED <<timer_started, timer_stop, _time, flagVars, lockVars, dpc, timerVars>>

MainStep ==
  AttachEvent \/ StartTimer \/ RequestStop \/ JoinTimer \/ DestroyEvent

\* main has returned, and with it the whole program.
Terminated == mpc = "returned" /\ UNCHANGED vars

Next ==
  \/ MainStep
  \/ TimerStep
  \/ SpuriousTimerWakeup
  \/ \E d \in Device : DeviceStep(d) \/ SpuriousWakeup(d)
  \/ Terminated

(***************************************************************************)
(* Every thread that can run runs, and a mutex that comes free again and   *)
(* again is at last given to the thread that wants it: the rival comes     *)
(* back for it only on a spurious wakeup, which POSIX allows but does not  *)
(* repeat for ever.  A spurious wakeup itself need never happen.           *)
(***************************************************************************)
Fairness ==
  /\ WF_vars(MainStep)
  /\ WF_vars(TimerStep) /\ SF_vars(LockForClear)
  /\ \A d \in Device :
       WF_vars(DeviceStep(d)) /\ SF_vars(EnterNextSlot(d) \/ EnterDetach(d))

Safety == Init /\ [][Next]_vars
Spec == Safety /\ Fairness

(***************************************************************************)
(* Correctness                                                             *)
(***************************************************************************)
TypeOK ==
  /\ dev_list \in 1..NULL
  /\ timer_started \in BOOLEAN /\ timer_stop \in BOOLEAN
  /\ _time \in 0..TimeCap
  /\ done \in [Device -> BOOLEAN] /\ fsh \in [Device -> BOOLEAN]
  /\ event_lock \in [Device -> Device \union {Timer, NoOne}]
  /\ timer_lock \in [Device -> Device \union {Timer, NoOne}]
  /\ dpc \in [Device -> DeviceAt]
  /\ tpc \in TimerAt /\ temp \in 1..NULL
  /\ fshCount \in 0..N /\ eventCount \in 0..N
  /\ mpc \in MainAt

\* The flag done of a container is written under event_lock by the device and
\* under timer_lock by the timer thread, so that no single mutex protects it.
\* Still no thread is ever about to write a flag that another is about to
\* read or write (next_slot, detach_event and both loops of timer_routine).
NoDataRace ==
  \A d \in Device : temp = d =>
    /\ tpc = "clear" => dpc[d] \notin {"arrive", "checkDone"}
    /\ tpc = "checkEvent" => dpc[d] \notin {"arrive", "detach"}

\* Nobody sleeps on a condition variable whose condition already holds: a
\* signal is not lost between the test of a flag and pthread_cond_wait.
NoLostWakeup ==
  /\ \A d \in Device : dpc[d] = "waiting" => done[d]
  /\ tpc = "waiting" => ~done[temp] /\ ~fsh[temp]

\* timer_routine leaves its loop only when no device will call next_slot any
\* more: neither its count of finished devices nor timer_stop ends it early,
\* leaving a device asleep, and stop_timer frees no container still in use.
TimerOutlivesDevices ==
  tpc = "exited" => \A d \in Device : dpc[d] = "exited"

\* A flag done that the timer has counted but not cleared yet: its device
\* already belongs to the new slot.
Stale(d) == tpc \in {"lockTimer", "clear"} /\ d >= temp
Arrived  == {d \in Device : done[d] /\ ~Stale(d)}
Left     == {d \in Device : fsh[d]}

Clock == INSTANCE SlotClock WITH now <- _time, arrived <- Arrived, left <- Left

\* The threads, mutexes and condition variables of timer.c together are a
\* slot clock: time moves only when every device has arrived or left, and it
\* does move while somebody waits for it.
ImplementsSlotClock == Clock!ClockSpec

\* Every call of next_slot returns.
NextSlotReturns ==
  \A d \in Device : dpc[d] \in {"arrive", "waitTimer"} ~> dpc[d] = "work"

\* When every device has detached, timer_routine ends, the pthread_join of
\* stop_timer returns, and so does main.
MainReturns == (\A d \in Device : dpc[d] = "exited") ~> mpc = "returned"

=============================================================================
