SPECIFICATION Spec
CONSTANTS
  Settings = {"connection", "operation", "inbox", "team", "pumps"}
  m1 = m1
  m2 = m2
  None = None
  Callers = {c1, c2}
  MaxInstance = 3
  MaxEpoch = 5
  MaxFaults = 2
  Messages = {m1, m2}
  Losses = {"wait", "ack", "lapse", "outage", "deadline"}
  MaxServers = 2
  MaxAttempt = 2
  MaxLosses = 3
  NoMessage = None
INVARIANTS
  ResultsAreTrue
  HandedIsAcknowledged
  MutationsOnce
  WaitNotOverslept
  AnsweredInOrder
PROPERTIES
  InstalledMovesForward
  ResendIsSafe
  StopsForItsOwn
CHECK_DEADLOCK FALSE
