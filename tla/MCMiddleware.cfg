CONSTANTS
  Calls = {c1, c2, c3, c4}
  Args = {x, y}
  FailureThreshold = 2
  CircuitWindow = 2
  OpenDuration = 2
  Limit = 2
  RateWindow = 2
  ErrorThreshold = 2
  LoopWindow = 2
  MaxKeys = 1
  MaxTime = 4
SPECIFICATION MiddlewareSpec
SYMMETRY CallSymmetry
CHECK_DEADLOCK FALSE
INVARIANTS
  TypeOK
  ProbeSlotComesBack
  RateBounded
  LoopsCut
PROPERTIES
  OpensOnOutage
