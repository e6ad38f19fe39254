\* A signal before the kernel is online.
SPECIFICATION FairSpec
CONSTANT MaxEvents = 4
CONSTANT MaxSends = 1
PROPERTY SignalEnds
CHECK_DEADLOCK FALSE
