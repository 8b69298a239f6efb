SPECIFICATION Spec
CONSTANTS
  N = 3
  TimeCap = 2
INVARIANTS
  TypeOK
  NoDataRace
  NoLostWakeup
  TimerOutlivesDevices
PROPERTIES
  ImplementsSlotClock
  NextSlotReturns
  MainReturns
