SPECIFICATION Spec
CONSTANTS
  a1 = a1
  a2 = a2
  p1 = p1
  NoReply = NoReply
  Agents <- OneAgent
  Messages <- ToItself
  TaskIds <- OneTask
  Replies <- OneReply
  DeliveryLease = 1
  DeliveryTtl = 2
  TerminalRetention = 1
  RegistrationTtl = 1
  MaxRetainedTasks = 1
  MaxOutbound = 1
  ClockBack = 0
  MaxTime = 2
  MaxEpoch = 3
  MaxSequence = 3
  MaxDeliveries = 2
  MaxOrphans = 1
INVARIANTS
  LedgerAgreement
  AckedOnce
  OutcomeKept
  EpochFence
PROPERTIES
  ImplementsLifecycle
CHECK_DEADLOCK FALSE
