SPECIFICATION Spec
CONSTANTS
    j1 = j1
    j2 = j2
    a = a
    b1 = b1
    b2 = b2
    b3 = b3
    r1 = r1
    r2 = r2
    m1 = m1
    s1 = s1
    s2 = s2
    n1 = n1
INVARIANTS
    TypeOK
    PoolSafe
    EditsKept
    BackfetchSafe
    SummarySafe
    DiarySafe
    PacingSafe
    RetrievalSafe
    FollowUpsSafe
    RunSafe
PROPERTIES
    StepsSound
    EveryJobEnds
    EveryCallerEnds
CHECK_DEADLOCK FALSE
