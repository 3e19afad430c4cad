CONSTANTS
  Ranks = {1, 2, 3}
  Names = {"a", ""}
  SortNum = 2
  MaxItems = 5
  PerSecond = 4
  PerMilli = 2
  Minute = 2
  Hour = 4
  Day = 8
  MaxSec = 9
  MaxUsec = 5
SPECIFICATION UtilsSpec
INVARIANT PadMessageByRules
CHECK_DEADLOCK FALSE
