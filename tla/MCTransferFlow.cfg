SPECIFICATION Spec
CHECK_DEADLOCK FALSE
CONSTANTS
    s1 = s1  s2 = s2  i1 = i1  i2 = i2
    v1 = v1  v2 = v2  w1 = w1  w2 = w2
    Stages <- StageIds
    Ids <- ApprovalIds
    Contents <- TwoContents
    Workers <- TwoWorkers
    Modes <- AllModes
    MaxCalls = 4
SYMMETRY FlowSymmetry
INVARIANTS
    RecordsFollowCopies
    ApprovalsCoverCrossings
    CrossingsAreReceipted
PROPERTY MoveKeepsContent
