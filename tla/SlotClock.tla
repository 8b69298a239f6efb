------------------------------ MODULE SlotClock ------------------------------
(***************************************************************************)
(* What timer.c promises its callers: simulated time advances in slots,    *)
(* and a slot ends only when every device attached to the timer (each CPU  *)
(* thread and the loader thread) has declared its work for the slot done   *)
(* (next_slot) or has left for good (detach_event).  No thread, lock or    *)
(* condition variable appears here; module Timer has them, and implements  *)
(* this module.                                                            *)
(***************************************************************************)
EXTENDS Naturals

CONSTANTS
  Device,   \* the attached devices
  TimeCap   \* a number; the clock is counted up to here and then stands still

VARIABLES
  now,      \* _time, the number of the current slot
  arrived,  \* the devices that are done with the current slot
  left      \* the devices that have detached

clockVars == <<now, arrived, left>>

ClockTypeOK ==
  /\ now \in 0..TimeCap
  /\ arrived \subseteq Device
  /\ left \subseteq Device

ClockInit ==
  /\ now = 0
  /\ arrived = {}
  /\ left = {}

\* A device that may run instructions of the current slot.
Working(d) == d \notin arrived \union left

\* next_slot(): d is done with this slot, and stays blocked until the tick.
Arrive(d) ==
  /\ Working(d)
  /\ arrived' = arrived \union {d}
  /\ UNCHANGED <<now, left>>

\* detach_event(): d takes no part in any later slot.
Leave(d) ==
  /\ Working(d)
  /\ left' = left \union {d}
  /\ UNCHANGED <<now, arrived>>

\* _time++.  The counter of the code is 64 bits wide and never wraps in a run;
\* here it saturates at TimeCap, which only bounds the state space.
NextTime(t) == IF t < TimeCap THEN t + 1 ELSE t

\* The timer thread starts the next slot.
Tick ==
  /\ arrived \union left = Device
  /\ now' = NextTime(now)
  /\ arrived' = {}
  /\ UNCHANGED left

ClockNext ==
  \/ Tick
  \/ \E d \in Device : Arrive(d) \/ Leave(d)

\* The timer thread never stops while somebody waits for the next slot.
ClockFairness == WF_clockVars(Tick /\ arrived # {})

ClockSpec == ClockInit /\ [][ClockNext]_clockVars /\ ClockFairness

=============================================================================
