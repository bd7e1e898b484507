SPECIFICATION Spec
CONSTANTS
  Inf = 10
  MAX_OBJECTS_PER_PAGE = 1
  PAGES_PER_TRACK = 3
  Path = {pathA}
  MaxPages = 2
  MaxTracks = 2
  Null = Null
  Geoms <- MCDegenerateGeoms
  ExplicitIds = {}
  MaxId = 2
  BLOCK_SIZE = 1
  QT_CAPACITY = 1
  QT_MAX_DEPTH = 2
  Regions <- MCRegions
INVARIANTS
  IInv
  RangeQueryComplete
  AdjacentComplete

  
CHECK_DEADLOCK FALSE
