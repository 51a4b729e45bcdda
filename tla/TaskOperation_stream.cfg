SPECIFICATION Spec
CONSTANTS
  WaitModes = {"terminal"}
  FaultKinds = {"refuse"}
  MaxInstance = 1
  MaxFaults = 1
INVARIANTS
  FailedStreamIsFollowed
CHECK_DEADLOCK FALSE
