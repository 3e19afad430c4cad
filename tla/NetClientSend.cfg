SPECIFICATION FairSpec
CONSTANTS
  Addrs = {a1, a2}
  Conns = {c1, c2}
  Queue = Queue
  Lengths = {1, 3}
  HeaderLen = 1
  MaxPack = 3
  HasRecvQueue = FALSE
  Modes <- MCLongconn
  MinLen = 1
  HttpLimit = 3
  LongconnKinds <- MCOne
  HttpKinds <- MCOne
  SockCap = 2
  Pipelined = TRUE
  MayStop = TRUE
  MaxPush = 2
  MaxPackets = 1
  None = None
INVARIANT StreamsSound
INVARIANT NoStaleEvent
INVARIANT UnsentArmed
 
PROPERTY NoSpin
CHECK_DEADLOCK FALSE
