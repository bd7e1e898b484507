SPECIFICATION Spec
CONSTANTS
  r1 = r1
  r2 = r2
  idA = idA
  idB = idB
  IndexId = {idA, idB}
  Req = {r1, r2}
  TargetsOf <- MCTargets
  MaxHandles = 3
  MaxObjects = 2
  Nil = Nil
INVARIANTS
  MapHoldsOpenIndexes
  NoLeakedIndex
  NoConflict
PROPERTIES
  LeavesByItsDestroy
  ReportsOwnObjects
CHECK_DEADLOCK FALSE
