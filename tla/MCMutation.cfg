CONSTANTS
  first = first
  again = again
  other = other
  read = read
  Scripts = {first, again, other, read}
  Omnijs = {other}
  ReadOnly = {read}
  Threshold = 2
  Keys = {"k", "l"}
  KeyOf <- MCKeyOf
  MaxEntries = 1
SPECIFICATION Spec
SYMMETRY RetrySymmetry
CHECK_DEADLOCK FALSE
INVARIANTS
  TypeOK
  WritesRunOnce
  OneExecutionPerKey
PROPERTIES
  CircuitOpensWhenSick
