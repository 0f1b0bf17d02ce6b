SPECIFICATION Spec
CONSTANTS
  m1 = m1
  m2 = m2
  none = none
  Messages <- TwoOrders
  NoMessage <- none
  InjectableFaults <- PipelineFaults
  QueueBufferSize = 1
  PaymentMaxAttempts = 3
  FulfillmentMaxAttempts = 2
  NotificationMaxAttempts = 2
  PaymentBatch = 2
SYMMETRY OrderSymmetry
INVARIANTS TypeOK OneOwner NothingLostWhileRunning DeadLettersAccounted OnlyPaidOrdersShip
PROPERTY CrashStopsIntake
