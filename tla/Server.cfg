SPECIFICATION Spec
CONSTANTS
  None = None
  \* sessions: three numbers for two sessions, a second of two milliseconds
  Seqs = {1, 2, 3}
  Sessions = {s1, s2}
  Gaps = {1}
  MsPerSec = 2
  UsPerMs = 2
  SessionTime = 4
  \* load limit: three cells of two milliseconds
  GridCount = 3
  GridDistant = 2
  MaxReqWaterMark = 3
  GridTime = 8
  \* log: files of three lines, three of them, or two periods out of four
  ChangeLine = 3
  LineFileNum = 3
  HourFileNum = 2
  Cycle = 4
  MaxLines = 5
  LogTime = 4
  \* statistics
  Threads = {t1, t2}
  Keys = {k1, k2}
  Costs = {0, 3}
  Hour = 2
  Wrap = 20
  Thresholds <- MCThresholds
  MaxCalls = 2
  \* pipe pair
  PipeCap = 2
  MaxSent = 3
  \* HTTP
  Uris = {u1, u2}
  Datas = {d1, d2}
  MaxRequests = 3
  \* database
  MaxQueries = 3
  MaxRows = 2
  \* semaphore
  Processes = {p1, p2, p3}
  Tries = 2
  MaxInterrupts = 3
SYMMETRY MCSymmetry
INVARIANTS
  EachHeldOnce
  RecentKept
  StatsExact
  HangUpSeen
  ReplyIsWhole
  RowsOfLastQuery
  LockSurvives
PROPERTIES
  ExpiresInTime
  LimitExact
CHECK_DEADLOCK FALSE
