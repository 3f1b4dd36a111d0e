CONSTANT MaxAttempts = 8
SPECIFICATION Spec
PROPERTY BacksOff
CHECK_DEADLOCK FALSE
