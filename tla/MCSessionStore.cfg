SPECIFICATION SessionSpec
CHECK_DEADLOCK FALSE
CONSTANTS
    i1 = i1  i2 = i2  i3 = i3  r1 = r1  r2 = r2
    k1 = k1  k2 = k2  t1 = t1  t2 = t2  c1 = c1  c2 = c2
    Ids <- ThreeIds
    Runners <- TwoKinds
    Keys <- TwoKeys
    Clip <- Unclipped
    Threads <- TwoThreads
    Callers <- TwoCallers
    Modes <- BothModes
    Recent = 0
    MaxTime = 1
    MaxCalls = 4
SYMMETRY SessionSymmetry
INVARIANTS
    BoundOnce
    AnswersStand
