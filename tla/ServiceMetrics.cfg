SPECIFICATION Spec
CONSTANTS
  w1 = w1
  w2 = w2
  w3 = w3
  Metered <- OrderAndPayment
  Flushers = {w1, w2, w3}
  FlusherOf <- TheFlusherOf
  MaxRequests = 3
SYMMETRY FlusherSymmetry
INVARIANTS TypeOK OutcomesReportedOnce WindowsBalance
