SPECIFICATION Spec
CONSTANTS
  Unreadable = Unreadable
  HandModes <- MCHandModes
  Tries = 2
INVARIANT NoModeLeaks
CHECK_DEADLOCK FALSE
