SPECIFICATION Spec
CONSTANTS
  Faults = {"fork_s"}
INVARIANT KillsOnlyItsOwn
CHECK_DEADLOCK FALSE
