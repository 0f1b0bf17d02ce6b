SPECIFICATION Spec
CONSTANTS
  SignalWindow = 2
  GroupWindow = 1
  FaultLookback = 1
  FaultSlack = 0
  FaultHorizon = 1
  ResolutionRequired = 2
  MaxActive = 2
  SignalKeys <- ThreeKeys
  InjectedFaults <- OneFault
INVARIANT OneIncidentPerCause
