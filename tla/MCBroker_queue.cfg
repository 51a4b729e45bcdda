SPECIFICATION Spec
CONSTANTS
  a1 = a1
  a2 = a2
  p1 = p1
  NoReply = NoReply
  Agents <- Pair
  Messages <- ToOne
  TaskIds <- ThreeTasks
  Replies = {}
  DeliveryLease = 1
  DeliveryTtl = 2
  TerminalRetention = 2
  RegistrationTtl = 1
  MaxRetainedTasks = 2
  MaxOutbound = 1
  ClockBack = 0
  MaxTime = 2
  MaxEpoch = 2
  MaxSequence = 3
  MaxDeliveries = 3
  MaxOrphans = 0
INVARIANTS
  LeaseFence
  IndexesAgree
  InboxExact
CHECK_DEADLOCK FALSE
