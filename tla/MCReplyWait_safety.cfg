SPECIFICATION ReplySpec
CONSTANTS
  a1 = a1
  p1 = p1
  w1 = w1
  w2 = w2
  NoReply = NoReply
  Agents <- OneAgent
  Messages <- ToItself
  TaskIds <- OneTask
  Replies = {p1}
  Waits = {w1, w2}
  DeliveryLease = 1
  DeliveryTtl = 1
  TerminalRetention = 3
  RegistrationTtl = 3
  MaxRetainedTasks = 1
  MaxOutbound = 1
  ClockBack = 1
  MaxTime = 1
  MaxEpoch = 1
  MaxSequence = 1
  MaxDeliveries = 2
  MaxOrphans = 1
SYMMETRY WaitSymmetry
INVARIANTS
  NoWaiterForgotten
  WaitersAgree
  AlwaysRecoverable
CHECK_DEADLOCK FALSE
