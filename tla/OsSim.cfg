SPECIFICATION OsSpec
CONSTANTS
  c1 = c1
  c2 = c2
  NULL = NULL
  Loader = Loader
  CPU <- MCCPU
  Proc <- MCProc
  MaxPrio = 2
  MaxQueueSize = 3
  prio <- MCPrio
  priority <- MCPriority
  time_slot = 2
  Configs <- MCConfigs
  TimeCap = 2
INVARIANTS
  OsTypeOK
  NoCpuStopsEarly
  NoIdlingBesideWork
  WholeQuanta
PROPERTIES
  EveryProcessFinishes
  BusyCpuStops
