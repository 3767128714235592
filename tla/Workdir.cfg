CONSTANTS
    login1 = login1
    login2 = login2
    NumAudits <- MCNumAudits
    MaxSaves <- MCMaxSaves
    Rivals <- MCRivals
    Logins <- MCLogins
    Changes <- MCChanges
    Arrivals <- MCArrivals
    RoleOf <- MCRoleOf
    TOKEN_TTL <- MCTtl
    MaxTime <- MCMaxTime
SPECIFICATION Spec
SYMMETRY LoginSymmetry
INVARIANTS
    ListingBehindArtifact
    SerialListingExact
    SerialSessionsHold
    SerialPasswordHolds
    TokensAreEarned
CHECK_DEADLOCK FALSE
