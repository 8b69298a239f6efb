SPECIFICATION SearchSpec
CONSTANTS
  c1 = c1
  c2 = c2
  p1 = p1
  p2 = p2
  NULL = NULL
  CPU <- MCCPU
  Proc <- MCProc
  MaxPrio = 1
  MaxQueueSize = 2
  prio <- MCPrio
  priority <- MCPriority
INVARIANTS
  SearchFindsCaller
