\* Reads that end anywhere, a Keeper that does not rescue.
SPECIFICATION BridgeSpec
CONSTANTS
  Sizes <- MCSizes
  Kind <- MCKind
  MaxChunk = 7
  Rescues = FALSE
INVARIANTS
  BridgeTypeOK
  InSequence
  SincePurge
  PassedOnUntilSplit
CHECK_DEADLOCK FALSE
