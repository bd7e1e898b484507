SPECIFICATION Spec
CONSTANTS
  PageIds = {1, 2, 3, 7}
  capacity = 3
  MaxCount = 2
  Nil = Nil
INVARIANTS
  ListWellFormed
  TableNotDangling
PROPERTIES
  UnpinnedEvictionEnds
  LruSpec
CHECK_DEADLOCK FALSE
