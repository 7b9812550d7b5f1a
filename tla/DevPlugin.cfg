SPECIFICATION FairSpec
CONSTANTS
  Unreadable = Unreadable
  HandModes <- MCHandModes
  Tries = 2
INVARIANTS
  EachModeGetsItsServices
  CleanExitBootsProduction
  PolicyNotLost
  OldBoardsKeepStock
  ScreenShowsRunningMode
PROPERTIES
  LateConfigHonoured
  StoppedPolicyEnds
CHECK_DEADLOCK FALSE
