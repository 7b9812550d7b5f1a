SPECIFICATION Spec
CONSTANTS
  c1 = c1
  HardwareInfos <- MCBoards
  Lines <- MCLines
  Callers <- MCCallers
  Delay = 1
  Settle = 1
  Heartbeat = 2
  Restore = 0
INVARIANTS
  NoSpuriousExit
  FailedStartLeavesNothing
PROPERTY
  ImplementsPolicy
