SPECIFICATION FairSpec
CONSTANTS
  Listed <- MCListed
  MaxPresses = 2
  MaxLaunches = 2
  MaxBoots = 1
INVARIANTS
  AtMostOnce
  FreezeLeavesEvidence
  WhitelistHolds
  ShownIsOurs
PROPERTIES
  StaleNeverFires
  NewPressIsHandled
CHECK_DEADLOCK FALSE
