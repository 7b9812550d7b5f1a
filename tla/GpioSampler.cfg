SPECIFICATION Spec
CONSTANTS
  PortCount = 2
  Levels = {0, 1}
  Powers <- MCPowers
  Loops = 3
  SyncEvery = 2
  Unknown = Unknown
INVARIANTS
  LogReplays
  FreezeLosesLittle
CHECK_DEADLOCK FALSE
