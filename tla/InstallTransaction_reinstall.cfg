SPECIFICATION Spec
CONSTANTS
  Gens = {a, b, c}
  First = a
  NoGen = NoGen
  Installed = {"Ready"}
  Offered = {a}
  MaxRetained = 1
  CleanupMayFail = FALSE
  Predecessor = FALSE
  MaxJobs = 1
  MaxDeaths = 1
  MaxFaults = 0
INVARIANT ReinstallRecovers
CHECK_DEADLOCK FALSE
