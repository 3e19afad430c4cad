SPECIFICATION FairSpec
CONSTANTS
  Producers = {p1, p2}
  Consumers = {c1}
  WLock = TRUE
  RLock = FALSE
  N = 7
  H = 2
  Base = 2
  Fresh = {0}
  Messages <- MCMessages
  BufSizes = {8}
  PipeCap = 4
  Polling = FALSE
  SplitStores = TRUE
  CountMod = 3
  None = None
INVARIANT RingSound
INVARIANT NoLostWakeup
PROPERTY ImplementsFifo
PROPERTY RejectOnlyWhenFull
PROPERTY Delivery
