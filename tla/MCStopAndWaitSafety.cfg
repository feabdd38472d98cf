SPECIFICATION Spec
CONSTANTS
  FileLen     = 4
  MaxData     = 2
  InitTries   = 2
  PartTries   = 2
  StopTries   = 2
  DataTries   = 2
  StopAcks    = 2
  NetCap      = 2
  MaxSessions = 2
  Duplicates  = TRUE
  LateInits   = TRUE
  LostAlarms  = TRUE
INVARIANTS
  TypeOK
  FilePrefix
\* A lost alarm can leave both programs in recv for ever.
CHECK_DEADLOCK FALSE
