CONSTANTS
    bin = bin
    unlisted = unlisted
    work = work
    home = home
    h1 = h1
    r1 = r1
    r2 = r2
    Paths <- SomePaths
    Hosts <- OneHost
    Marks <- PathMarks
    Runs <- TwoRuns
    Commands <- AllCommands
    SomePolicies <- ThreePolicies
    Degraded = TRUE
SPECIFICATION Spec
SYMMETRY RunSymmetry
CHECK_DEADLOCK FALSE
INVARIANTS LaunchIsCleared UnconfinedIsDeclared ForcedStaysDenied
