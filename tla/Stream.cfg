CONSTANTS
  MaxRuns = 2
  MaxNow = 4
  MaxCommands = 1
  MaxDelay = 1
  BufferSize = 2
  StaleAfter = 1
  NONE = NONE
  Hands <- MCHands
SPECIFICATION Spec
INVARIANTS
  NeverRewinds
  NewestRunDrives
  HandIsCurrent
PROPERTIES
  PayloadIsKept
