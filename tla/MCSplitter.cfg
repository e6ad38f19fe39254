\* Two feeds of one group, in chunks of every size up to the bound.
SPECIFICATION Spec
CONSTANTS
  c1 = c1
  c2 = c2
  Feeds <- MCFeeds
  Sizes <- MCSizes
  SigLen = 2
  MaxChunk = 6
INVARIANTS
  TypeOK
  ChunkingInvisible
  InOrder
  LeftoversAreTail
  StaleBounded
CHECK_DEADLOCK FALSE
