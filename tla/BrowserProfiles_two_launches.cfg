CONSTANTS
  Bots = {a}
  MaxCalls = 4
  MaxLive = 1
  MaxTrouble = 1
  MaxSweeps = 0
SPECIFICATION Spec
CHECK_DEADLOCK FALSE
INVARIANT
  OneLaunchPerBot
