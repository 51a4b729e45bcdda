SPECIFICATION Spec
CONSTANTS
  Settings = {"inbox", "outcome", "sends"}
  a1 = a1
  p1 = p1
  w1 = w1
  s1 = s1
  s2 = s2
  u1 = u1
  NoReply = NoReply
  None = None
PROPERTIES
  WaitServed
  WaitEnds
  SendEnds
CHECK_DEADLOCK FALSE
