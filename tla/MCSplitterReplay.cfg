\* A feed whose entries are handed over again.
SPECIFICATION Spec
CONSTANTS
  c1 = c1
  c2 = c2
  Feeds <- OneFeed
  Sizes <- OneSize
  SigLen = 2
  MaxChunk = 6
INVARIANTS
  HandledOnce
CHECK_DEADLOCK FALSE
