CONSTANTS
    bin = bin
    unlisted = unlisted
    work = work
    h1 = h1
    h2 = h2
    Paths <- ThreePaths
    Hosts <- TwoHosts
    Marks <- PathMarks
    Asked <- AllRequests
    Watched <- Followed
    EnginePolicies <- ManyPolicies
SPECIFICATION EngineSpec
INVARIANTS Repeatable RiskNeverHelps ClosedNetwork
