----------------------------- MODULE TimerProofs -----------------------------
(***************************************************************************)
(* The timer is free of data races and implements the slot clock, for any  *)
(* number of devices.                                                      *)
(***************************************************************************)
EXTENDS Timer, TLAPS

Parked   == {"waitTimer", "checkDone", "waiting", "woken"}   \* in next_slot
Scanning == {"lockEvent", "checkEvent", "waiting", "woken"}  \* the first loop
Clearing == {"lockTimer", "clear"}                           \* the second loop

\* Who is inside a critical section owns its mutex.
LockInv ==
  \A d \in Device :
    /\ event_lock[d] \in {d, Timer, NoOne} /\ timer_lock[d] \in {d, Timer, NoOne}
    /\ event_lock[d] = d     <=> dpc[d] \in {"arrive", "detach"}
    /\ event_lock[d] = Timer <=> (tpc = "checkEvent" /\ temp = d)
    /\ timer_lock[d] = d     <=> dpc[d] = "checkDone"
    /\ timer_lock[d] = Timer <=> (tpc = "clear" /\ temp = d)

\* The order in which main starts and ends the other threads.
LifeInv ==
  /\ mpc = "attach" =>
       /\ tpc = "unborn" /\ _time = 0
       /\ \A d \in Device : dpc[d] = "unborn" /\ ~done[d] /\ ~fsh[d]
  /\ mpc # "attach" => tpc # "unborn" /\ \A d \in Device : dpc[d] # "unborn"
  /\ mpc \in {"joinDevices", "joinTimer"} => dev_list = 1
  /\ mpc \in {"destroy", "returned"} => tpc = "exited"
  /\ timer_stop => \A d \in Device : dpc[d] = "exited"

\* What the flags of a container say about its device.
FlagInv ==
  \A d \in Device :
    /\ fsh[d] <=> dpc[d] = "exited"
    /\ done[d] => dpc[d] \in Parked
    /\ dpc[d] = "waiting" => done[d]

\* How far the timer thread is in its two loops: the containers behind it in
\* the first one, and those ahead of it in the second, are done or finished.
ScanInv ==
  /\ tpc \in Scanning \union Clearing => temp \in Device
  /\ tpc \in Scanning => \A d \in Device : d < temp => done[d] \/ fsh[d]
  /\ tpc = "tick" => \A d \in Device : done[d] \/ fsh[d]
  /\ tpc \in Clearing => \A d \in Device : d >= temp => done[d] \/ fsh[d]
  /\ tpc = "waiting" => ~done[temp] /\ ~fsh[temp]

\* The counters agree only if every container counted so far is finished.
CountInv ==
  /\ tpc \in Scanning =>
       /\ eventCount = temp - 1 /\ fshCount <= eventCount
       /\ fshCount = eventCount => \A d \in Device : (d < temp => fsh[d])
  /\ tpc \in Clearing \union {"tick"} /\ fshCount = eventCount =>
       \A d \in Device : fsh[d]
  /\ tpc = "exited" => \A d \in Device : fsh[d]

IInv == TypeOK /\ LockInv /\ LifeInv /\ FlagInv /\ ScanInv /\ CountInv

LEMMA InitInv == Init => IInv
<1> SUFFICES ASSUME Init PROVE IInv
  OBVIOUS
<1> USE TimerAssumption DEF Init, Device, NULL, Timer, NoOne
<1>1. TypeOK
  <2>1. NULL \in 1..NULL /\ 0 \in 0..TimeCap /\ 0 \in 0..N
    OBVIOUS
  <2>2. "unborn" \in DeviceAt /\ "unborn" \in TimerAt /\ "attach" \in MainAt
    BY DEF DeviceAt, TimerAt, MainAt
  <2> QED BY <2>1, <2>2, Zenon DEF TypeOK
<1>2. LockInv
  BY DEF LockInv
<1>3. LifeInv
  BY DEF LifeInv
<1>4. FlagInv
  BY DEF FlagInv
<1>5. ScanInv
  BY DEF ScanInv, Scanning, Clearing
<1>6. CountInv
  BY DEF CountInv, Scanning, Clearing
<1> QED BY <1>1, <1>2, <1>3, <1>4, <1>5, <1>6 DEF IInv

LEMMA NextInv == IInv /\ [Next]_vars => IInv'
<1> SUFFICES ASSUME IInv, [Next]_vars PROVE IInv'
  OBVIOUS
<1> USE TimerAssumption
    DEF IInv, TypeOK, LockInv, LifeInv, FlagInv, ScanInv, CountInv, Device,
        NULL, Timer, NoOne, DeviceAt, TimerAt, MainAt, Parked, Scanning,
        Clearing, globalVars, flagVars, lockVars, timerVars
<1>1. ASSUME NEW d \in Device, EnterNextSlot(d) PROVE IInv'
  <2>1. TypeOK'
    BY <1>1 DEF EnterNextSlot, Goto
  <2>2. LockInv'
    BY <1>1 DEF EnterNextSlot, Goto
  <2>3. LifeInv'
    BY <1>1 DEF EnterNextSlot, Goto
  <2>4. FlagInv'
    <3>1. /\ \A e \in Device : dpc'[e] = IF e = d THEN "arrive" ELSE dpc[e]
          /\ dpc[d] = "work" /\ done' = done /\ fsh' = fsh
      BY <1>1 DEF EnterNextSlot, Goto
    <3>2. FlagInv
      OBVIOUS
    <3> QED BY ONLY <3>1, <3>2 DEF FlagInv, Parked
  <2>5. ScanInv'
    BY <1>1 DEF EnterNextSlot, Goto
  <2>6. CountInv'
    BY <1>1 DEF EnterNextSlot, Goto
  <2> QED BY <2>1, <2>2, <2>3, <2>4, <2>5, <2>6
<1>2. ASSUME NEW d \in Device, EnterDetach(d) PROVE IInv'
  <2>1. TypeOK'
    BY <1>2 DEF EnterDetach, Goto
  <2>2. LockInv'
    BY <1>2 DEF EnterDetach, Goto
  <2>3. LifeInv'
    BY <1>2 DEF EnterDetach, Goto
  <2>4. FlagInv'
    <3>1. /\ \A e \in Device : dpc'[e] = IF e = d THEN "detach" ELSE dpc[e]
          /\ dpc[d] = "work" /\ done' = done /\ fsh' = fsh
      BY <1>2 DEF EnterDetach, Goto
    <3>2. FlagInv
      OBVIOUS
    <3> QED BY ONLY <3>1, <3>2 DEF FlagInv, Parked
  <2>5. ScanInv'
    BY <1>2 DEF EnterDetach, Goto
  <2>6. CountInv'
    BY <1>2 DEF EnterDetach, Goto
  <2> QED BY <2>1, <2>2, <2>3, <2>4, <2>5, <2>6
<1>3. ASSUME NEW d \in Device, SetDone(d) PROVE IInv'
  <2>1. TypeOK'
    BY <1>3 DEF SetDone, Goto, SignalEvent
  <2>2. LockInv'
    BY <1>3 DEF SetDone, Goto, SignalEvent
  <2>3. LifeInv'
    BY <1>3 DEF SetDone, Goto, SignalEvent
  <2>4. FlagInv'
    BY <1>3 DEF SetDone, Goto, SignalEvent
  <2>5. ScanInv'
    BY <1>3 DEF SetDone, Goto, SignalEvent
  <2>6. CountInv'
    BY <1>3 DEF SetDone, Goto, SignalEvent
  <2> QED BY <2>1, <2>2, <2>3, <2>4, <2>5, <2>6
<1>4. ASSUME NEW d \in Device, SetFsh(d) PROVE IInv'
  <2>1. TypeOK'
    BY <1>4 DEF SetFsh, Goto, SignalEvent
  <2>2. LockInv'
    BY <1>4 DEF SetFsh, Goto, SignalEvent
  <2>3. LifeInv'
    BY <1>4 DEF SetFsh, Goto, SignalEvent
  <2>4. FlagInv'
    <3>1. fsh'[d] = TRUE /\ done' = done /\ dpc[d] = "detach" /\ dpc'[d] = "exited"
      BY <1>4 DEF SetFsh, Goto
    <3>2. \A e \in Device \ {d} : fsh'[e] = fsh[e] /\ dpc'[e] = dpc[e]
      BY <1>4 DEF SetFsh, Goto
    <3> QED BY <3>1, <3>2
  <2>5. ScanInv'
    BY <1>4 DEF SetFsh, Goto, SignalEvent
  <2>6. CountInv'
    BY <1>4 DEF SetFsh, Goto, SignalEvent
  <2> QED BY <2>1, <2>2, <2>3, <2>4, <2>5, <2>6
<1>5. ASSUME NEW d \in Device, LockTimer(d) PROVE IInv'
  <2>1. TypeOK'
    BY <1>5 DEF LockTimer, Goto
  <2>2. LockInv'
    <3>1. /\ timer_lock[d] = NoOne /\ timer_lock'[d] = d
          /\ dpc[d] \in {"waitTimer", "woken"} /\ dpc'[d] = "checkDone"
      BY <1>5 DEF LockTimer, Goto
    <3>2. \A e \in Device \ {d} : timer_lock'[e] = timer_lock[e] /\ dpc'[e] = dpc[e]
      BY <1>5 DEF LockTimer, Goto
    <3>3. UNCHANGED <<event_lock, tpc, temp>>
      BY <1>5 DEF LockTimer
    <3> QED BY <3>1, <3>2, <3>3
  <2>3. LifeInv'
    BY <1>5 DEF LockTimer, Goto
  <2>4. FlagInv'
    BY <1>5 DEF LockTimer, Goto
  <2>5. ScanInv'
    BY <1>5 DEF LockTimer, Goto
  <2>6. CountInv'
    BY <1>5 DEF LockTimer, Goto
  <2> QED BY <2>1, <2>2, <2>3, <2>4, <2>5, <2>6
<1>6. ASSUME NEW d \in Device, CheckDone(d) PROVE IInv'
  <2>1. TypeOK'
    BY <1>6 DEF CheckDone, Goto
  <2>2. LockInv'
    BY <1>6 DEF CheckDone, Goto
  <2>3. LifeInv'
    BY <1>6 DEF CheckDone, Goto
  <2>4. FlagInv'
    BY <1>6 DEF CheckDone, Goto
  <2>5. ScanInv'
    BY <1>6 DEF CheckDone, Goto
  <2>6. CountInv'
    BY <1>6 DEF CheckDone, Goto
  <2> QED BY <2>1, <2>2, <2>3, <2>4, <2>5, <2>6
<1>7. ASSUME NEW d \in Device, SpuriousWakeup(d) PROVE IInv'
  <2>1. TypeOK'
    BY <1>7 DEF SpuriousWakeup, Goto
  <2>2. LockInv'
    <3>1. /\ \A e \in Device : dpc'[e] = IF e = d THEN "woken" ELSE dpc[e]
          /\ dpc[d] = "waiting" /\ event_lock' = event_lock
          /\ timer_lock' = timer_lock /\ tpc' = tpc /\ temp' = temp
      BY <1>7 DEF SpuriousWakeup, Goto
    <3>2. LockInv
      OBVIOUS
    <3> QED BY ONLY <3>1, <3>2 DEF LockInv
  <2>3. LifeInv'
    BY <1>7 DEF SpuriousWakeup, Goto
  <2>4. FlagInv'
    BY <1>7 DEF SpuriousWakeup, Goto
  <2>5. ScanInv'
    BY <1>7 DEF SpuriousWakeup, Goto
  <2>6. CountInv'
    BY <1>7 DEF SpuriousWakeup, Goto
  <2> QED BY <2>1, <2>2, <2>3, <2>4, <2>5, <2>6
<1>8. CASE CheckStop
  <2>1. TypeOK'
    BY <1>8 DEF CheckStop
  <2>2. LockInv'
    BY <1>8 DEF CheckStop
  <2>3. LifeInv'
    BY <1>8 DEF CheckStop
  <2>4. FlagInv'
    BY <1>8 DEF CheckStop
  <2>5. ScanInv'
    BY <1>8 DEF CheckStop
  <2>6. CountInv'
    BY <1>8 DEF CheckStop
  <2> QED BY <2>1, <2>2, <2>3, <2>4, <2>5, <2>6
<1>9. CASE LockEvent
  <2>1. TypeOK'
    BY <1>9 DEF LockEvent
  <2>2. LockInv'
    BY <1>9 DEF LockEvent
  <2>3. LifeInv'
    BY <1>9 DEF LockEvent
  <2>4. FlagInv'
    BY <1>9 DEF LockEvent
  <2>5. ScanInv'
    BY <1>9 DEF LockEvent
  <2>6. CountInv'
    BY <1>9 DEF LockEvent
  <2> QED BY <2>1, <2>2, <2>3, <2>4, <2>5, <2>6
<1>10. CASE WaitEvent
  BY <1>10 DEF WaitEvent
<1>11. CASE PassEvent
  BY <1>11 DEF PassEvent, AdvanceEvent, CountFsh
<1>12. CASE SpuriousTimerWakeup
  BY <1>12 DEF SpuriousTimerWakeup
<1>13. CASE Tick
  BY <1>13 DEF Tick, NextTime
<1>14. CASE LockForClear
  BY <1>14 DEF LockForClear
<1>15. CASE ClearDone
  BY <1>15 DEF ClearDone
<1>16. CASE AttachEvent
  BY <1>16 DEF AttachEvent
<1>17. CASE StartTimer
  <2>1. TypeOK'
    <3>1. /\ dpc' \in [Device -> DeviceAt] /\ tpc' \in TimerAt /\ mpc' \in MainAt
          /\ timer_started' \in BOOLEAN /\ timer_stop' \in BOOLEAN
      BY <1>17 DEF StartTimer
    <3>2. _time' \in 0..TimeCap
      BY <1>17 DEF StartTimer
    <3>3. UNCHANGED <<dev_list, done, fsh, event_lock, timer_lock,
                      temp, fshCount, eventCount>>
      BY <1>17 DEF StartTimer
    <3> QED BY <3>1, <3>2, <3>3, Zenon
  <2>2. LockInv'
    BY <1>17 DEF StartTimer
  <2>3. LifeInv'
    BY <1>17 DEF StartTimer
  <2>4. FlagInv'
    BY <1>17 DEF StartTimer
  <2>5. ScanInv'
    BY <1>17 DEF StartTimer
  <2>6. CountInv'
    BY <1>17 DEF StartTimer
  <2> QED BY <2>1, <2>2, <2>3, <2>4, <2>5, <2>6
<1>18. CASE RequestStop
  BY <1>18 DEF RequestStop
<1>19. CASE JoinTimer
  BY <1>19 DEF JoinTimer
<1>20. CASE DestroyEvent
  BY <1>20 DEF DestroyEvent
<1>21. CASE UNCHANGED vars
  BY <1>21 DEF vars
<1> QED BY <1>1, <1>2, <1>3, <1>4, <1>5, <1>6, <1>7, <1>8, <1>9, <1>10, <1>11, <1>12, <1>13, <1>14, <1>15, <1>16, <1>17, <1>18, <1>19, <1>20, <1>21
   DEF Next, MainStep, TimerStep, DeviceStep, Terminated

(***************************************************************************)
(* The invariants.                                                         *)
(***************************************************************************)
LEMMA Inductive == Safety => []IInv
BY InitInv, NextInv, PTL DEF Safety

\* Every variable of timer.c keeps its range: no scan of dev_list runs past
\* its end, and timer_routine's counters never exceed the number of devices.
THEOREM TypeCorrect == Spec => []TypeOK
<1>1. IInv => TypeOK
  BY DEF IInv
<1> QED BY <1>1, Inductive, PTL DEF Spec

\* next_slot, detach_event and timer_routine never touch a flag at the same
\* time, although done has no single mutex.
THEOREM RaceFree == Spec => []NoDataRace
<1>1. IInv => NoDataRace
  BY DEF IInv, LockInv, FlagInv, ScanInv, NoDataRace, Parked, Clearing,
         TypeOK, Device, Timer, NoOne, NULL, TimerAssumption
<1> QED BY <1>1, Inductive, PTL DEF Spec

\* No signal on event_cond or timer_cond is lost.
THEOREM NoSignalLost == Spec => []NoLostWakeup
<1>1. IInv => NoLostWakeup
  BY DEF IInv, FlagInv, ScanInv, NoLostWakeup
<1> QED BY <1>1, Inductive, PTL DEF Spec

\* timer_routine stays for as long as a device may call next_slot.
THEOREM TimerStays == Spec => []TimerOutlivesDevices
<1>1. IInv => TimerOutlivesDevices
  BY DEF IInv, FlagInv, CountInv, TimerOutlivesDevices
<1> QED BY <1>1, Inductive, PTL DEF Spec

(***************************************************************************)
(* The slot clock.  next_slot arrives when it sets done, detach_event      *)
(* leaves when it sets fsh, timer_routine ticks at _time++, and every      *)
(* other step of the threads leaves the clock alone.                       *)
(***************************************************************************)
LEMMA ClockStep == IInv /\ [Next]_vars => [Clock!ClockNext]_(Clock!clockVars)
<1> SUFFICES ASSUME IInv, [Next]_vars
             PROVE  [Clock!ClockNext]_(Clock!clockVars)
  OBVIOUS
<1> DEFINE Same == _time' = _time /\ Arrived' = Arrived /\ Left' = Left
<1> USE TimerAssumption DEF Device, NULL
<1>0. /\ temp \in Nat /\ dev_list \in Nat
      /\ done \in [Device -> BOOLEAN] /\ fsh \in [Device -> BOOLEAN]
  BY DEF IInv, TypeOK
<1>a. Same => UNCHANGED Clock!clockVars
  BY DEF Clock!clockVars
<1>1. ASSUME NEW d \in Device, SetDone(d) PROVE Clock!Arrive(d)
  <2>1. ~done[d] /\ ~fsh[d] /\ ~Stale(d)
    BY <1>1 DEF IInv, FlagInv, ScanInv, SetDone, Parked, Stale, Clearing
  <2>2. /\ done' = [done EXCEPT ![d] = TRUE] /\ UNCHANGED <<_time, fsh, temp>>
        /\ tpc' = tpc \/ (tpc = "waiting" /\ tpc' = "woken")
    BY <1>1 DEF SetDone, SignalEvent
  <2>3. \A e \in Device : Stale(e)' <=> Stale(e)
    BY <2>2 DEF Stale
  <2>4. Arrived' = Arrived \union {d}
    BY <1>0, <2>1, <2>2, <2>3 DEF Arrived
  <2>5. Left' = Left
    BY <2>2 DEF Left
  <2>6. d \notin Arrived \union Left
    BY <2>1 DEF Arrived, Left
  <2> QED BY <2>2, <2>4, <2>5, <2>6 DEF Clock!Arrive, Clock!Working
<1>2. ASSUME NEW d \in Device, SetFsh(d) PROVE Clock!Leave(d)
  <2>1. ~done[d] /\ ~fsh[d]
    BY <1>2 DEF IInv, FlagInv, SetFsh, Parked
  <2>2. /\ fsh' = [fsh EXCEPT ![d] = TRUE] /\ UNCHANGED <<_time, done, temp>>
        /\ tpc' = tpc \/ (tpc = "waiting" /\ tpc' = "woken")
    BY <1>2 DEF SetFsh, SignalEvent
  <2>3. \A e \in Device : Stale(e)' <=> Stale(e)
    BY <2>2 DEF Stale
  <2>4. Arrived' = Arrived
    BY <2>2, <2>3 DEF Arrived
  <2>5. Left' = Left \union {d}
    BY <1>0, <2>2 DEF Left
  <2>6. d \notin Arrived \union Left
    BY <2>1 DEF Arrived, Left
  <2> QED BY <2>2, <2>4, <2>5, <2>6 DEF Clock!Leave, Clock!Working
<1>3. CASE Tick
  <2>1. dev_list = 1
    BY <1>3 DEF Tick, IInv, TypeOK, LifeInv, MainAt
  <2>2. /\ tpc = "tick" /\ tpc' = "lockTimer" /\ temp' = 1
        /\ _time' = NextTime(_time) /\ UNCHANGED <<done, fsh>>
    BY <1>3, <2>1 DEF Tick, flagVars
  <2>3. Arrived \union Left = Device
    BY <2>2 DEF IInv, ScanInv, Arrived, Left, Stale
  <2>4. Arrived' = {} /\ Left' = Left
    BY <2>2 DEF Arrived, Left, Stale
  <2>5. NextTime(_time) = Clock!NextTime(_time)
    BY DEF NextTime, Clock!NextTime
  <2> QED BY <2>2, <2>3, <2>4, <2>5 DEF Clock!Tick, Clock!ClockNext
<1>4. CASE ClearDone
  <2>1. /\ tpc = "clear" /\ temp \in Device
        /\ done' = [done EXCEPT ![temp] = FALSE] /\ temp' = temp + 1
        /\ temp + 1 # NULL => tpc' = "lockTimer"
        /\ UNCHANGED <<_time, fsh>>
    BY <1>4 DEF ClearDone, IInv, ScanInv, Clearing
  <2>2. \A e \in Device : Stale(e) <=> e >= temp
    BY <2>1 DEF Stale
  <2>3. \A e \in Device : Stale(e)' <=> e > temp
    BY <1>4, <2>1 DEF Stale, ClearDone
  <2>4. Arrived' = Arrived
    BY <1>0, <2>1, <2>2, <2>3 DEF Arrived
  <2> QED BY <1>a, <2>1, <2>4 DEF Left
<1>5. CASE \/ CheckStop \/ LockEvent \/ WaitEvent \/ PassEvent
           \/ SpuriousTimerWakeup \/ LockForClear
  <2>1. /\ UNCHANGED <<_time, done, fsh>>
        /\ \/ tpc \notin Clearing /\ tpc' \notin Clearing
           \/ tpc \in Clearing /\ tpc' \in Clearing /\ temp' = temp
    BY <1>5 DEF CheckStop, LockEvent, WaitEvent, PassEvent, AdvanceEvent,
                SpuriousTimerWakeup, LockForClear, Clearing, flagVars
  <2> QED BY <1>a, <2>1 DEF Arrived, Left, Stale, Clearing
<1>6. ASSUME NEW d \in Device,
             \/ EnterNextSlot(d) \/ EnterDetach(d) \/ LockTimer(d)
             \/ CheckDone(d) \/ SpuriousWakeup(d)
      PROVE  Same
  <2>1. UNCHANGED <<_time, done, fsh, tpc, temp>>
    BY <1>6 DEF EnterNextSlot, EnterDetach, LockTimer, CheckDone,
                SpuriousWakeup, flagVars, timerVars
  <2> QED BY <2>1 DEF Arrived, Left, Stale
<1>7. CASE RequestStop \/ JoinTimer \/ DestroyEvent \/ UNCHANGED vars
  <2>1. UNCHANGED <<_time, done, fsh, tpc, temp>>
    BY <1>7 DEF RequestStop, JoinTimer, DestroyEvent, vars, flagVars, timerVars
  <2> QED BY <1>a, <2>1 DEF Arrived, Left, Stale
<1>8. CASE AttachEvent
  <2>1. /\ mpc = "attach" /\ UNCHANGED <<_time, tpc, temp>>
        /\ done' = [done EXCEPT ![dev_list - 1] = FALSE]
        /\ fsh' = [fsh EXCEPT ![dev_list - 1] = FALSE]
    BY <1>8 DEF AttachEvent, timerVars
  <2>2. \A d \in Device : ~done[d] /\ ~fsh[d] /\ ~done'[d] /\ ~fsh'[d]
    BY <1>0, <2>1 DEF IInv, LifeInv
  <2> QED BY <1>a, <2>1, <2>2 DEF Arrived, Left
<1>9. CASE StartTimer
  <2>1. _time = 0 /\ _time' = 0 /\ UNCHANGED <<done, fsh>>
    BY <1>9 DEF StartTimer, IInv, LifeInv, flagVars
  <2>2. \A d \in Device : ~done[d]
    BY <1>9 DEF StartTimer, IInv, LifeInv
  <2> QED BY <1>a, <2>1, <2>2 DEF Arrived, Left
<1> HIDE DEF Same
<1> QED BY <1>1, <1>2, <1>3, <1>4, <1>5, <1>6, <1>7, <1>8, <1>9, <1>a
    DEF Next, MainStep, TimerStep, DeviceStep, Terminated, Clock!ClockNext

\* The threads, mutexes and condition variables of timer.c never do what the
\* slot clock does not: time moves only when every device has called next_slot
\* or detach_event, and nobody's call is forgotten or counted twice.
THEOREM StepsOfSlotClock ==
  Spec => Clock!ClockInit /\ [][Clock!ClockNext]_(Clock!clockVars)
<1>1. Init => Clock!ClockInit
  BY DEF Init, Clock!ClockInit, Arrived, Left
<1> QED BY <1>1, ClockStep, Inductive, PTL DEF Spec, Safety

=============================================================================
