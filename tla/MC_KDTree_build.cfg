SPECIFICATION Spec
CONSTANTS
  Inf = 99
  Points <- MCPoints
  Loads <- MCLoads
  Queries <- MCQueries
  Ranges <- MCRanges
  Radii <- MCRadii
  MaxSize = 4
INVARIANTS
  BoundsExact
  NearestExact
  QueriesComplete
  BlocksApart
