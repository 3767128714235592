SPECIFICATION Spec
CONSTANTS
    Requirements <- MCRequirements
    Level <- MCLevel
    ReqSeverity <- MCReqSeverity
    Weaknesses <- MCWeaknesses
    MaxPresent = 2
    Ports = {1, 2}
INVARIANT FixedIsGone
CHECK_DEADLOCK FALSE
