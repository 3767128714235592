SPECIFICATION EnginesSpec
CONSTANTS
    Suite <- MCSuite
    Targets = 2
    Burst = 2
    Accounts = TRUE
    Level <- MCLevel
    SettingsProjects <- MCSettingsProjects
    DependencyProjects <- MCDependencyProjects
    Packages <- MCPackages
    Unnamed <- MCUnnamed
    Advised = {"django"}
    Dangerous = {"pycrypto"}
    Hinted = {"django"}
    EndpointProjects <- MCEndpointProjects
    Files <- MCFiles
    Routes <- MCRoutes
    NetworkProjects <- MCNetworkProjects
    LocalHosts <- MCLocalHosts
    PublicHosts <- MCPublicHosts
    SastProjects <- MCSastProjects
    Names <- MCNames
INVARIANTS
    ShownIsHeld
    SilentScanFails
    ProductionDecides
    InsecureIsReported
    FirstDeclarationDecides
    PlainRoutesAreServed
    ScansAreAuthorized
    TaintFollowsFlow
    WeaknessIsHeld
PROPERTY
    EveryScanEnds
CHECK_DEADLOCK FALSE
