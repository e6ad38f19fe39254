\* Up to three arguments; main may stop.
SPECIFICATION Spec
CONSTANT MaxArgs = 3
INVARIANT Parsed
INVARIANT LoggersAgree
INVARIANT StackBalanced
CHECK_DEADLOCK FALSE
