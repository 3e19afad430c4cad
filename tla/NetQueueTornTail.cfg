SPECIFICATION Spec
CONSTANTS
  Producers = {p1}
  Consumers = {c1}
  WLock = FALSE
  RLock = FALSE
  N = 7
  H = 2
  Base = 2
  Fresh = {0}
  Messages <- MCMessages
  BufSizes = {8}
  PipeCap = 4
  Polling = TRUE
  SplitStores = TRUE
  CountMod = 3
  None = None
INVARIANT AssertHolds
