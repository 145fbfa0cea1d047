\* Reached a bound or bound the variables: the inputs, or events, are used up.
CHECK_DEADLOCK FALSE
SPECIFICATION StylingSpec
CONSTANTS
  w = w
  b = b
  t = t
  width = width
  height = height
  Nothing = Nothing
  Elements <- MCElements
  Names <- MCNames
  CapturesOf <- MCCaptures
  First <- MCFirst
  Second <- MCSecond
  Offset <- MCOffset
  Feeds <- MCFeeds
  Positions <- MCPositions
  MaxValue = 1
  MaxDepth = 3
  MaxNest = 3
  MaxEvents = 6
  Types = {button, grid}
  AnyType = any
  button = button
  grid = grid
  any = any
  MaxParts = 4
  MaxElements = 4
  Variables = {"v", "w"}
  Bindings <- SomeValues
  Literals <- Two
  Texts = {""}
  MaxGrowth = 2
  ConstantNames <- Identifiers
  Literal <- Word
  MaxPieces = 2
INVARIANTS
  ConsumersIndexed Converged RemovedStaysBare
  MatchesExactly EvaluatesLazily ResolvesAsDeclared
