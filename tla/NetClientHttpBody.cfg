SPECIFICATION Spec
CONSTANTS
  Addrs = {a1}
  Conns = {c1}
  Queue = Queue
  Lengths = {2}
  HeaderLen = 1
  MaxPack = 4
  HasRecvQueue = TRUE
  Modes <- MCKeep
  MinLen = 1
  HttpLimit = 3
  LongconnKinds <- MCOne
  HttpKinds <- MCHttp
  SockCap = 2
  Pipelined = FALSE
  MayStop = FALSE
  MaxPush = 2
  MaxPackets = 2
  None = None
INVARIANT BodyOnlyIfDeclared
