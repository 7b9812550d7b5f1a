SPECIFICATION Spec
CONSTANTS
  h1 = h1
  h2 = h2
  Hooks <- MCHooks
  Size = 2
  Passes = 2
  MaxRecords = 4
SYMMETRY Symmetry
INVARIANTS
  NothingMissed
  LinesIntact
  CompleteAtStop
  NoOverrunNoLoss
PROPERTIES
  LostMeansOverflow
CHECK_DEADLOCK FALSE
