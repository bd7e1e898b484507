SPECIFICATION Spec
CONSTANTS
  Req = {q1, q2}
  MaxSignals = 3
INVARIANTS
  RequestsRunToEnd
PROPERTIES
  StopsAfterSignal
CHECK_DEADLOCK FALSE
