SPECIFICATION FairSpec
CONSTANTS
  ann1 = ann1
  ann2 = ann2
  bob = bob
  Ann = Ann
  Bob = Bob
  None = None
  Clients = {ann1, ann2}
  Users = {Ann}
  Names = {n1}
  UserOf <- MCUserOf
  Chunks <- MCOneEmpty
  MaxPuts = 2
  MaxJoins = 3
  PartialSends = FALSE
  OpenFails = FALSE
INVARIANTS Synced
PROPERTIES Settles
CHECK_DEADLOCK FALSE
