SPECIFICATION Spec
CONSTANTS
  c1 = c1
  c2 = c2
  c3 = c3
  Kernel = Kernel
  NoOne = NoOne
  Unset = Unset
  CPU <- MCCPU
  Calls = {"user", "kernel"}
  CallerFound = {TRUE, FALSE}
SYMMETRY Symmetry
INVARIANTS
  TypeOK
  UserInOwnMM
  Restored
