SPECIFICATION FairSpec
CONSTANTS
    d1 = d1
    c1 = c1
    c2 = c2
    u1 = u1
    Environments <- OneEnvironment
    PythonSpecs <- NoEnvironment
    Controllers <- TwoControllers
    Users <- OneUser
    MaxClaims = 2
    MaxTransientRetries = 1
INVARIANTS
    EnvironmentInv
PROPERTIES
    BuildersAreFenced
    ReadyImageKept
    PreparationEnds
    OrphansReclaimed
