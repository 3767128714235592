SPECIFICATION Spec
CONSTANTS
    Requirements <- MCRequirements
    Level <- MCLevel
    ReqSeverity <- MCReqSeverity
    Weaknesses <- MCWeaknesses
    MaxPresent = 3
    Ports = {1}
INVARIANTS
    NothingLost
    OneWeakness
    ScoreCountsWorst
    ComparisonExact
CHECK_DEADLOCK FALSE
