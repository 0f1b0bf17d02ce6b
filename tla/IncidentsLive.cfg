SPECIFICATION FairSpec
CONSTANTS
  SignalWindow = 1
  GroupWindow = 0
  FaultLookback = 1
  FaultSlack = 0
  FaultHorizon = 0
  ResolutionRequired = 2
  MaxActive = 2
  SignalKeys <- PaymentKeys
  InjectedFaults <- OneFault
PROPERTY IncidentsResolve
