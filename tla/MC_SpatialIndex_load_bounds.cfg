SPECIFICATION FileSpec
CONSTANTS
  Inf = 10
  MAX_OBJECTS_PER_PAGE = 2
  PAGES_PER_TRACK = 3
  Path = {pathA}
  MaxPages = 2
  MaxTracks = 3
  Null = Null
  Geoms <- MCOneGeom
  ExplicitIds = {}
  MaxId = 2
  BLOCK_SIZE = 3
  QT_CAPACITY = 1
  QT_MAX_DEPTH = 2
  Regions <- MCRegions
INVARIANTS
  BoundsCoverObjects
CHECK_DEADLOCK FALSE
