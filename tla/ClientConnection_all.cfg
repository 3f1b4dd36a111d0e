CONSTANT MaxAttempts = 2
SPECIFICATION FairSpec
INVARIANTS TypeOK ReconnectingIsDriven KickIsFinal
PROPERTY ReconnectingEnds
CHECK_DEADLOCK FALSE
