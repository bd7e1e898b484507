SPECIFICATION MCSpec
CONSTANTS
  Inf = 20
  Bounds <- MCBounds
  node_capacity = 2
  max_depth = 2
  Ids = {1, 2}
  Boxes <- MCBoxes
  MaxItems = 4
INVARIANTS
  RangeQueriesComplete
  ItemsPlaced
  CountNotShort
  FillAgrees
PROPERTIES
  InsertLosesOnlySpanning
CHECK_DEADLOCK FALSE
