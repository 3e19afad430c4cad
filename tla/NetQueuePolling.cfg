SPECIFICATION Spec
CONSTANTS
  Producers = {p1}
  Consumers = {c1, c2}
  WLock = FALSE
  RLock = TRUE
  N = 5
  H = 2
  Base = 2
  Fresh = {0}
  Messages <- MCShort
  BufSizes = {1, 2, 8}
  PipeCap = 1
  Polling = TRUE
  SplitStores = FALSE
  CountMod = 2
  None = None
PROPERTY ImplementsFifo
