SPECIFICATION Spec
CONSTANTS
  Bytes = {"a", "b", "k", "s", "x"}
  Conts = {"k"}
  ContentSize = 4
  Passwd <- MCPasswd
  Sessions <- MCSessions
  Defshell = TRUE
  Updates <- MCUpdates
  MaxTexts = 1
INVARIANTS
  FormTypeOK
  OptionsExist
  CursorsBetweenCharacters
  EditsUndo
PROPERTY RestoresLast
