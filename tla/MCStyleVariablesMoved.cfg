SPECIFICATION Spec
CONSTANTS
  w = w
  b = b
  t = t
  width = width
  height = height
  Nothing = Nothing
  Elements <- MCElements
  Names <- MCNames
  CapturesOf <- MCCaptures
  First <- MCFirst
  Second <- MCSecond
  Offset <- MCOffset
  Feeds <- MCFeeds
  Positions <- MCPositions
  MaxValue = 1
  MaxDepth = 3
  MaxNest = 3
  MaxEvents = 6
INVARIANTS ReparentingConverges
CHECK_DEADLOCK FALSE
