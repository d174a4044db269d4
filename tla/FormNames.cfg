SPECIFICATION Spec
CONSTANTS
  Bytes = {"a", "b", "k", "s", "x"}
  Conts = {"k"}
  ContentSize = 4
  Passwd <- MCPasswd
  Sessions <- SameNameSessions
  Defshell = TRUE
  Updates <- MCUpdates
  MaxTexts = 1
PROPERTY RestoresLast
