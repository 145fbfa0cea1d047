SPECIFICATION FairSpec
CONSTANTS
  h1 = h1
  h2 = h2
  Handles = {h1, h2}
  MaxOwner = 2
  MaxObject = 2
  MaxReports = 2
  MaxDepth = 2
INVARIANTS NothingLost 
PROPERTIES BurstDrains
CHECK_DEADLOCK FALSE
