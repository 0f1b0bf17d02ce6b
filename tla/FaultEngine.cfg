SPECIFICATION Spec
CONSTANTS
  c1 = c1
  c2 = c2
  Clients = {c1, c2}
  Injected <- FourFaults
  MaxRequests = 4
SYMMETRY ClientSymmetry
CHECK_DEADLOCK FALSE
INVARIANTS TypeOK EventsAccountForFaults StopClears ContextsAreLastWriter
