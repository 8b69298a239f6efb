SPECIFICATION Spec
CONSTANTS
  c1 = c1
  c2 = c2
  c3 = c3
  Kernel = Kernel
  NoOne = NoOne
  Unset = Unset
  CPU <- MCCPU
  Calls = {"copy"}
  CallerFound = {TRUE}
INVARIANTS
  Restored
