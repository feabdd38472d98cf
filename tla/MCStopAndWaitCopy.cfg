SPECIFICATION FairSpec
CONSTANTS
  FileLen     = 4
  MaxData     = 2
  InitTries   = 3
  PartTries   = 2
  StopTries   = 2
  DataTries   = 2
  StopAcks    = 2
  NetCap      = 3
  MaxSessions = 3
  Duplicates  = FALSE
  LateInits   = FALSE
  LostAlarms  = FALSE
INVARIANTS
  AckedIsWritten
PROPERTIES
  CopySpec
  Terminates
