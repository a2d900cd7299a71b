SPECIFICATION Spec
CONSTANTS
    a = a
    b = b
    c = c
    m1 = m1
    key = key
    bulk = bulk
    None = None
    Callers <- ProberCallers
    Groups <- TwoGroups
    Models = {m1}
    Keys = {}
    Shares = {}
    GroupOf <- ProberGroupOf
    ModelOf <- ProberModelOf
    KeyOf <- ProberKeyOf
    ShareOf <- ProberShareOf
    ClassOf <- ProberClassOf
    MaxInFlight <- OneSlot
    SharePercent <- NoShares
    Probing = {}
    Threshold = 2
    BaseDelay = 1
    MaxDelay = 1
    MaxBackground = 1
INVARIANTS
    NoLostWakeup
CHECK_DEADLOCK FALSE
