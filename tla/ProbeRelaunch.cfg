SPECIFICATION FairSpec
CONSTANTS
  Listed <- MCListed
  MaxPresses = 2
  MaxLaunches = 2
  MaxBoots = 1
PROPERTY SendsStillWork
CHECK_DEADLOCK FALSE
