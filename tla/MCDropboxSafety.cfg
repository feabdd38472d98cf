SPECIFICATION Spec
CONSTANTS
  ann1 = ann1
  ann2 = ann2
  bob = bob
  Ann = Ann
  Bob = Bob
  None = None
  Clients = {ann1, ann2, bob}
  Users = {Ann, Bob}
  Names = {n1}
  UserOf <- MCUserOf
  Chunks <- MCChunks
  MaxPuts = 2
  MaxJoins = 2
  PartialSends = TRUE
  OpenFails = TRUE
INVARIANTS TypeOK FilesAreWhole OkIsForHead
CHECK_DEADLOCK FALSE
SYMMETRY Alike
