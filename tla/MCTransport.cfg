CONSTANTS
  Calls = {c1, c2, c3}
  NoCall = NoCall
  MaxChildren = 2
SPECIFICATION Spec
CHECK_DEADLOCK FALSE
INVARIANTS
  OneInFlight
  RestartsAreReal
  NoStray
PROPERTIES
  ImplementsSpawner
  EveryCallSettles
