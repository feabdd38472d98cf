SPECIFICATION MCSpec
CONSTANTS
  Base = 2
  Types = {1, 2}
  MaxBody = 2
  MaxPackets = 2
  Letters = {1, 2}
  ClientLetters = {1}
  Newline = 0
  Exits <- MCExits
  InitialCapacity = 2
  MaxBytes = 6
  MaxInput = 2
INVARIANTS TypeOK ClosedOnlyAtEnd ServerAttentive
PROPERTIES IsChannel Delivered ServerLines ClientLines ClientEnds
\* The connection ends.
CHECK_DEADLOCK FALSE
