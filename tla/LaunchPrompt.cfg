SPECIFICATION Spec
CONSTANTS
  MaxAttempts = 1
  Faults = {}
INVARIANT RawAtPrompt
CHECK_DEADLOCK FALSE
