CONSTANTS
    Audits <- MCAudits
    Retests <- MCRetests
    PreviousOf <- MCPreviousOf
    Regenerated <- MCRegenerated
    Clients <- MCClients
    max_workers <- MCWorkers
SPECIFICATION Spec
INVARIANT RetestReported
CHECK_DEADLOCK FALSE
