SPECIFICATION SessionSpec
CONSTANTS
  Inf = 10
  MAX_OBJECTS_PER_PAGE = 2
  PAGES_PER_TRACK = 3
  Path = {pathA}
  MaxPages = 2
  MaxTracks = 3
  Null = Null
  Geoms <- MCTwoGeoms
  ExplicitIds = {1}
  MaxId = 2
  BLOCK_SIZE = 3
  QT_CAPACITY = 1
  QT_MAX_DEPTH = 2
  Regions <- MCRegions
INVARIANTS
  BuiltBlockTreeExact
  BoundsCoverObjects
  PagesOnTheirTracks
PROPERTIES
  StoreSpec
CHECK_DEADLOCK FALSE
