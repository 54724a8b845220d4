SPECIFICATION Spec
CONSTANT MaxAttempts = 3
INVARIANT ReadyMeansAnswered
CHECK_DEADLOCK FALSE
