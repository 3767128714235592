CONSTANTS
    Audits <- MCAudits
    Retests <- MCRetests
    PreviousOf <- MCPreviousOf
    Regenerated <- MCRegenerated
    Clients <- MCClients
    max_workers <- MCWorkers
SPECIFICATION Spec
INVARIANTS
    NobodyForgotten
    AnswersHold
PROPERTIES
    ReportsGoBackByCommand
    EveryAnsweredEnds
    ProjectsServed
CHECK_DEADLOCK FALSE
