SPECIFICATION Spec
CONSTANTS
  Pushers = {s1}
  Poppers = {r1}
  Nodes = {a}
  MaxNodeNum = 1
  Waits = {1, 3}
  Second = 2
  MaxTime = 4
  Forever = Forever
  None = None
PROPERTY TimeoutNotEarly
