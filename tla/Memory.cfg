CONSTANTS
  m1 = m1
  m2 = m2
  r1 = r1
  r2 = r2
  Mm <- Processes
  Self = m1
  Rgid <- Variables
  Sizes = {1, 3}
  FrameSize = 2
  Foreign = {2}
  Offsets = {0, 2}
  FpnSpan = 16
  TypSpan = 2
  Fanout = 512
  NumFrames = 7
  NumSwap = 1
  Ratio = 2
  AreaCap = 2
  MaxPgn = 4
  Blank = Blank
SPECIFICATION MemSpec
CONSTRAINT FewRegions
SYMMETRY Symmetry
INVARIANTS
  MemTypeOK
  ReadsBack
  VariablesInArea
