SPECIFICATION PolicySpec
CONSTANTS
  c1 = c1
  c2 = c2
  NULL = NULL
  CPU <- MCCPU
  Proc <- MCProc
  MaxPrio = 3
  MaxQueueSize = 5
  prio <- MCPrio
  priority <- MCPriority
SYMMETRY Symmetry
INVARIANTS
  TypeOK
  NoProcessLost
  OnePlace
  RunningListExact
  NoLevelOverserved
PROPERTY
  ImplementsFairDispatch
