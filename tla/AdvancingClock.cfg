SPECIFICATION LiveSpec
CONSTANTS
  NoItem = NoItem
  NoTime = NoTime
  Item = {i1}
  Duration <- MCDuration
  Step = {1}
  MaxUser = 2
  MaxSys = 2
INVARIANTS
  NoneLost
  StopPrevents
  NoDrift
PROPERTIES
  TicksApart
  TickFollowed
  CallsReturn
CHECK_DEADLOCK FALSE
