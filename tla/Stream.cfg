SPECIFICATION FairSpec
CONSTANTS
  k1 = k1
  k2 = k2
  none = none
  Reporting = {"payment"}
  InjectedFaults = {"poison-pill"}
  Conns = {k1, k2}
  ClientBuffer = 2
  MaxChanges = 3
  NoRow = none
INVARIANTS TypeOK ClientsAreServed
PROPERTIES NeverOlder DashboardConverges
