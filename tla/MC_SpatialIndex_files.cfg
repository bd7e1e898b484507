SPECIFICATION FileSpec
CONSTANTS
  Inf = 10
  MAX_OBJECTS_PER_PAGE = 1
  PAGES_PER_TRACK = 3
  Path = {pathA, pathB}
  MaxPages = 3
  MaxTracks = 3
  Null = Null
  Geoms <- MCOriginGeom
  ExplicitIds = {}
  MaxId = 2
  BLOCK_SIZE = 3
  QT_CAPACITY = 1
  QT_MAX_DEPTH = 2
  Regions <- MCRegions
SYMMETRY PathSymmetry
INVARIANTS
  ChecksumsFresh
  PageSlotsDistinct
  CleanPagesOnDisk
  AllocationTreeExact
CHECK_DEADLOCK FALSE
