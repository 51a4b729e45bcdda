SPECIFICATION InboxSpec
CONSTANTS
  a1 = a1
  p1 = p1
  w1 = w1
  w2 = w2
  NoReply = NoReply
  Agents <- OneAgent
  Messages <- ToItself
  TaskIds <- OneTask
  Replies = {}
  Waits = {w1, w2}
  DeliveryLease = 1
  DeliveryTtl = 2
  TerminalRetention = 1
  RegistrationTtl = 2
  MaxRetainedTasks = 1
  MaxOutbound = 1
  ClockBack = 0
  MaxTime = 2
  MaxEpoch = 2
  MaxSequence = 2
  MaxDeliveries = 2
  MaxOrphans = 0
SYMMETRY WaitSymmetry
INVARIANTS
  OneWait
  SleepJustified
CHECK_DEADLOCK FALSE
