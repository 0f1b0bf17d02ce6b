SPECIFICATION Spec
CONSTANTS
  main = main
  sub = sub
  p1 = p1
  p2 = p2
  c1 = c1
  f1 = f1
  f2 = f2
  Main <- main
  Subs = {sub}
  Producers = {p1, p2}
  QueueBufferSize = 1
  Consumers <- TheConsumers
  ConsumerOf <- TheConsumerOf
  Flushers = {f1, f2}
  FlusherOf <- TheFlusherOf
  MaxSends = 1
SYMMETRY QueueSymmetry
CHECK_DEADLOCK FALSE
INVARIANTS TypeOK DepthNeverDrifts EveryMessageCountedOnce FanOutComplete
