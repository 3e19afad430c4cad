SPECIFICATION FairSpecH
CONSTANTS
  Keys = {1, 2, 3}
  Values <- MCValues
  BlockNum = 3
  BlockSize = 2
  Buckets = 2
  Timeout = 0
  MaxTime = 1
INVARIANT CacheSound
INVARIANT StatRight
PROPERTY ImplementsLru
PROPERTY OperationsEnd
