SPECIFICATION Spec
CONSTANTS
  Configs <- MCConfigs
  PAGES_PER_TRACK = 4
  MaxPages = 2
  MaxObjects = 2
  MaxFaults = 1
  MaxFrees = 1
  MaxRestarts = 2
  Null = Null
INVARIANTS
  SyncedObjectsSurvive
  HolesWereBlank
  AllocationTreeInPool
  OneDanglingPerFree
CHECK_DEADLOCK FALSE
