\* Two watchers and a feeder connection.
SPECIFICATION FairSpec
CONSTANT Watchers = {w1, w2}
CONSTANT Feeds = {f1}
CONSTANT MaxReads = 2
CONSTANT StopReads = 1
CONSTANT MaxSends = 2
INVARIANT TypeOK
INVARIANT Accounted
INVARIANT LuaPointersLive
INVARIANT WrittenInOrder
INVARIANT AllDisconnected
CHECK_DEADLOCK FALSE
PROPERTY Reclaimed
