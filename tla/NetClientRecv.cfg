SPECIFICATION FairSpec
CONSTANTS
  Addrs = {a1}
  Conns = {c1}
  Queue = Queue
  Lengths = {2}
  HeaderLen = 1
  MaxPack = 4
  HasRecvQueue = TRUE
  Modes <- MCAll
  MinLen = 1
  HttpLimit = 3
  LongconnKinds <- MCTooLong
  HttpKinds <- MCAnnounced
  SockCap = 1
  Pipelined = TRUE
  MayStop = FALSE
  MaxPush = 1
  MaxPackets = 3
  None = None
INVARIANT FramesIntact
PROPERTY ClosedAfterPacket
PROPERTY Delivered
