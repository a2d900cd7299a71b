SPECIFICATION Spec
CONSTANTS
    a = a
    b = b
    c = c
    m1 = m1
    key = key
    bulk = bulk
    None = None
    Callers <- ProberCallers
    Groups <- TwoGroups
    Models = {m1}
    Keys = {}
    Shares = {}
    GroupOf <- ProberGroupOf
    ModelOf <- ProberModelOf
    KeyOf <- ProberKeyOf
    ShareOf <- ProberShareOf
    ClassOf <- ProberClassOf
    MaxInFlight <- OneSlot
    SharePercent <- NoShares
    Probing = {a, b, c}
    Threshold = 2
    BaseDelay = 1
    MaxDelay = 2
    MaxBackground = 2
INVARIANTS
    TypeOK
    ProbeOwned
    NoLostWakeup
PROPERTIES
    NoQueueJump
CHECK_DEADLOCK FALSE
