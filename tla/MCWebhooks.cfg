CONSTANTS
  Null = Null
  Tasks = {task}
  Projects = {proj}
  MaxAttempts = 2
  CircuitThreshold = 2
  Runs = {h1, h2}
  MaxEdits = 4
  MaxWindows = 4
  MaxToggles = 2
SPECIFICATION HooksSpec
CHECK_DEADLOCK FALSE
INVARIANTS
  ObservedWhenQuiet
PROPERTIES
  NoRepeatedDelivery
  RunsEnd
