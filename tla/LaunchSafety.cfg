SPECIFICATION FairSpec
CONSTANTS
  MaxAttempts = 2
  Faults = {"fork", "kill", "regroup"}
INVARIANTS
  Inv
  SessionIsLegit
  HandedOver
  NoneLeftBehind
  ReapedIsClosed
  SuccessIsEarned
PROPERTIES
  KeepsPromise
  LaunchProgresses
  SigtermEnds
  EndedIsClosed
CHECK_DEADLOCK FALSE
