SPECIFICATION Spec
CONSTANTS
  Settings = {"updates", "predecessors", "cleanups", "removal", "processes"}
  g1 = g1
  g2 = g2
  g3 = g3
  r1 = r1
  r2 = r2
  None = None
  Coordinators = {c1, c2}
  Client = Client
  Commands = {"stop", "restart", "remove"}
  NoOne = None
SYMMETRY ProcessSymmetry
INVARIANTS
  AllOrNothing
  EveryPhaseRecovers
  PurgeResumable
  OneBrokerOwnsTheStore
  DrainLeavesNoPair
PROPERTIES
  ImplementsCatalog
CHECK_DEADLOCK FALSE
