SPECIFICATION FairSpec
CONSTANTS
  m1 = m1
  m2 = m2
  none = none
  Messages <- TwoOrders
  NoMessage <- none
  InjectableFaults <- ShutdownFaults
  QueueBufferSize = 1
  PaymentMaxAttempts = 2
  FulfillmentMaxAttempts = 1
  NotificationMaxAttempts = 1
  PaymentBatch = 2
PROPERTIES ShutdownQuiesces ImplementsOrderFlow
