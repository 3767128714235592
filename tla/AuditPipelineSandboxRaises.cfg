CONSTANTS
    Requirements <- MCRequirements
    Level <- MCLevel
    Evidence <- MCEvidence
    FindingReqs = {"findings"}
    ExclusionReqs = {}
    PlatformReqs = {"platform"}
    Configs <- MCConfigs
    Fallible <- MCFallible
    SandboxRaises = TRUE
    SavesRaise = FALSE
SPECIFICATION Spec
PROPERTY EveryAuditCompletes
CHECK_DEADLOCK FALSE
