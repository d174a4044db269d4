SPECIFICATION Spec
CONSTANTS
  Plans <- MCPlans
  Bindings <- MCBindings
  MaxResizes = 2
INVARIANTS
  KeyboardInv
  KeysAct
  ResizeNoted
PROPERTIES
  ResizeIsDrawn
  BytesAreHandled
\* lidm stops after the keys for a refresh, a reboot and a power off.
CHECK_DEADLOCK FALSE
