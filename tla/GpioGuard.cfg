SPECIFICATION FairSpec
CONSTANTS
  c1 = c1
  c2 = c2
  Lines <- MCLines
  Callers <- MCCallers
PROPERTIES
  DarkStaysDark
  NoNewStragglers
  OthersGoThrough
