SPECIFICATION Spec
CONSTANTS
  MaxArgs = 1
  ArgLength = 2
  Starts <- MCStarts
  Paths <- MCPaths
INVARIANTS
  CommandInv
  ArgsAreWords
  EnvironmentInv
  StringsAlive
  EnvInOrder
  RunsItsWords
  JoinFits
CHECK_DEADLOCK FALSE
