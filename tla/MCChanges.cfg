CONSTANTS
  None = None
  parent = parent
  child = child
  proj = proj
  Tasks = {parent, child}
  Projects = {proj}
  Listing = "search:*"
  Documents <- MCDocuments
  Runs = {h1, h2}
  Lag = 1
  Buffer = 1
  MaxTime = 1
  MaxChanges = 2
SPECIFICATION Spec
CHECK_DEADLOCK FALSE
INVARIANTS
  FreshWhenQuiet
PROPERTIES
  CatchesUp
