SPECIFICATION Spec
CONSTANTS
  Settings = {"healing", "turnover", "acks kept", "one pump", "plain removal", "stops"}
  m1 = m1
  m2 = m2
  r1 = r1
  r2 = r2
  None = None
  Callers = {c1, c2}
  MaxInstance = 2
  MaxEpoch = 6
  MaxFaults = 2
  Messages = {m1, m2}
  Losses = {"wait", "lapse"}
  MaxServers = 2
  MaxAttempt = 3
  MaxLosses = 2
  NoMessage = None
  Coordinators = {c1, c2}
  Client = Client
  Commands = {"stop"}
  NoOne = None
PROPERTIES
  HealsInTime
  SurvivesOneTurnover
  HandedInTime
  Resolved
  PlainRemovalCompletes
  BrokersExit
CHECK_DEADLOCK FALSE
