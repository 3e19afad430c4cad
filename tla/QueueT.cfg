SPECIFICATION FairSpec
CONSTANTS
  Pushers = {s1}
  Poppers = {r1, r2}
  Nodes = {a, b}
  MaxNodeNum = 2
  Waits = {3}
  Second = 2
  MaxTime = 3
  Forever = Forever
  None = None
INVARIANT QueueSafe
PROPERTY ImplementsFifo
PROPERTY PushReturns
PROPERTY TimeoutNotMuchTooEarly
