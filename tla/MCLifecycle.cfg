\* A signal at any moment, with up to six handlers before or during the stop.
SPECIFICATION FairSpec
CONSTANT MaxEvents = 6
CONSTANT MaxSends = 3
INVARIANT TypeOK
INVARIANT CleanExit
INVARIANT LateCallsOfOneHandler
PROPERTY SignalStops
CHECK_DEADLOCK FALSE
