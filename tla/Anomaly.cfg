SPECIFICATION FairSpec
CONSTANTS
  Metrics <- RuleMetrics
  Levels <- RuleLevels
  ReadWindow = 2
  BaselineWindow = 4
  SignalWindow = 2
  MinSamples = 10
  MaxMisses = 1
INVARIANTS TypeOK WindowBounded AnomaliesAreRare FreshFaultIsSeen
PROPERTIES DeadLettersAreSignalled SettledIsForgotten
