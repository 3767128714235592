SPECIFICATION Spec
CONSTANTS
    Suite <- MCSuite
    Targets = 2
    Burst = 2
    Accounts = TRUE
    Level <- MCLevel
INVARIANT PassNeedsAnswer
CHECK_DEADLOCK FALSE
