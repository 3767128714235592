CONSTANTS
    Requirements <- MCRequirements
    Level <- MCLevel
    Evidence <- MCEvidence
    FindingReqs = {"findings"}
    ExclusionReqs = {}
    PlatformReqs = {"platform"}
    Configs <- MCAllConfigs
    Fallible <- MCFallible
    SandboxRaises = TRUE
    SavesRaise = TRUE
SPECIFICATION Spec
INVARIANTS
    CompleteIsClosed
    PassIsEarned
    MatrixReproducible
    ReportIsFinal
    UnauthorizedUntouched
    AppStartTruthful
PROPERTIES
    EvidenceNeverLost
    RefinesLifecycle
    EveryRunEnds
CHECK_DEADLOCK FALSE
