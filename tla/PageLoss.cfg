CONSTANTS
  m1 = m1
  m2 = m2
  Mm <- Processes
  FpnSpan = 16
  TypSpan = 2
  Fanout = 512
  NumFrames = 11
  NumSwap = 2
  Ratio = 2
  AreaCap = 2
  MaxPgn = 4
  Blank = Blank
SPECIFICATION Spec
INVARIANT NoForeignData
