SPECIFICATION Spec
CONSTANTS
  Plans <- MCPlans
  Bindings <- MCBindings
  MaxResizes = 2
INVARIANT NonBlocking
CHECK_DEADLOCK FALSE
