SPECIFICATION Spec
CONSTANTS
  r1 = r1
  r2 = r2
  r3 = r3
  Rgid <- MCRgid
  Sizes <- MCSizes
  PageSize <- MCPageSize
  AreaCap = 6
  Garbage <- MCGarbage
  CallerFound = {TRUE}
SYMMETRY Symmetry
INVARIANTS
  TypeOK
  NoOverlap
PROPERTIES
  ImplementsAllocator
