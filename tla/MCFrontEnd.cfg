SPECIFICATION Spec
CONSTANTS
  Settings = {"store", "limits", "workflows", "directory", "pages"}
  Tasks = {t1, t2}
  Executions = {e1, e2}
  PerTask = 2
  Total = 2
  MaxVersion = 3
  MaxIncarnation = 2
  MaxRuns = 3
  MaxFaults = 1
  None = None
  Sends = {s1, s2, s3}
  Subscribers = {}
  Streaming = {s2}
  Immediate = {s3}
  Other = {s3}
  MaxLives = 2
  MaxFailures = 1
  Absent = Absent
  Panes = {p1}
  Sessions = {n1, n2}
  Labels = {"coder", "agent"}
  SlugOf <- Slug
  Endings = {x1}
  Sights <- PaneSights
  Requests = {q1, q2}
SYMMETRY Symmetry
INVARIANTS
  ProjectionFollowsLedger
  OneWorkflow
  NameMeansOneAgent
  CompleteForUnchanged
CHECK_DEADLOCK FALSE
