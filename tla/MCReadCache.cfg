CONSTANTS
  A = A
  B = B
  P = P
  Q = Q
  r1 = r1
  r2 = r2
  w1 = w1
  w2 = w2
  Inbox = Inbox
  Listing = Listing
  None = None
  Tasks = {A, B}
  Projects = {P, Q}
  Readers = {r1, r2}
  Writers = {w1, w2}
  Jobs <- Together
  Place0 <- Nested
SPECIFICATION MCSpec
CHECK_DEADLOCK FALSE
INVARIANTS
  ListingsFresh
  TaskEntriesFresh
  InFlightFresh
PROPERTIES
  EveryReadSettles
