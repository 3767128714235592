SPECIFICATION MCSpec
CONSTANTS
    Nobody = 0
    Audits = {1, 2, 3}
    Ports = {1, 2}
    Workers = 2
    Projects <- MCProjects
INVARIANTS
    NoneLeftRunning
    ForeignOnlyByCollision
PROPERTY
    EverySessionEnds
CHECK_DEADLOCK FALSE
