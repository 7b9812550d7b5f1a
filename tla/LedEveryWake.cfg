SPECIFICATION WatchedSpec
CONSTANTS
  HardwareInfos <- MCNewBoard
  Delay = 2
  Settle = 2
  Heartbeat = 4
  Restore = 1
INVARIANT
  EveryWakeReasserts
