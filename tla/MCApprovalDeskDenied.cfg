SPECIFICATION Spec
CHECK_DEADLOCK FALSE
CONSTANTS
    c1 = c1  c2 = c2  c3 = c3
    i1 = i1  i2 = i2
    k1 = k1  k2 = k2
    s1 = s1  s2 = s2  s3 = s3
    Ids <- MCIds
    Actions <- TwoKeys
    TTLs = {1}
    MaxTime = 1
    Callers <- TwoCallers
    Modes <- OverlappingSafely
INVARIANTS
    DeniedIsBlocked
