SPECIFICATION WaitSpec
CONSTANTS
    i1 = i1  i2 = i2
    k1 = k1
    s1 = s1  s2 = s2
    Ids <- MCIds
    Actions <- MCActions
    TTLs = {0, 2}
    MaxTime = 2
    Waiters = {w1}
    Timeout = 1
    LastStart = 1
INVARIANTS
    NoStaleAnswer
    GrantsAreExact
    AnswersHold
PROPERTIES
    ImplementsLifecycle
    WaitEnds
