SPECIFICATION Spec
CONSTANTS
  SNSpace     = 40
  BufSize     = 8
  FileLen     = 12
  InitSNs     <- MCInitSNs
  MaxData     = 4
  WindowSize  = 7
  MaxPackets  = 4
  InitLen     = 2
  InitTries   = 2
  MaxTries    = 2
  StopTries   = 1
  CloseTries  = 1
  MaxDeaths   = 2
  StopAcks    = 1
  NetCap      = 2
  MaxSessions = 1
  Duplicates  = FALSE
  LostAlarms  = TRUE
CHECK_DEADLOCK FALSE
INVARIANT NoStall
