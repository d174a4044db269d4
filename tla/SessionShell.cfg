SPECIFICATION Spec
CONSTANTS
  MaxArgs = 1
  ArgLength = 2
  Starts <- MCStarts
  Paths <- MCPaths
INVARIANT ShellKeepsWords
CHECK_DEADLOCK FALSE
