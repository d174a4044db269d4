SPECIFICATION FairSpec
CONSTANTS
  Faults = {"fork_x", "fork_s", "garble", "regroup"}
INVARIANTS
  XInv
  SessionHasDisplay
  NoOrphans
  KillsUnreaped
PROPERTIES
  OneEndsBoth
  StartupResolves
  SigtermEnds
CHECK_DEADLOCK FALSE
