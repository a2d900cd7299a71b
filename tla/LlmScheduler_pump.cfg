SPECIFICATION FairSpec
CONSTANTS
    a = a
    b = b
    c = c
    m1 = m1
    key = key
    bulk = bulk
    None = None
    Callers <- PumpCallers
    Groups <- OneGroup
    Models = {m1}
    Keys = {key}
    Shares = {bulk}
    GroupOf <- PumpGroupOf
    ModelOf <- PumpModelOf
    KeyOf <- PumpKeyOf
    ShareOf <- PumpShareOf
    ClassOf <- PumpClassOf
    MaxInFlight <- TwoSlots
    SharePercent <- HalfShare
    Probing = {}
    Threshold = 1
    BaseDelay = 1
    MaxDelay = 1
    MaxBackground = 1
INVARIANTS
    SlotAccounting
    CapacityRespected
    EscalationHeld
    WorkConserving
PROPERTIES
    InteractiveServed
CHECK_DEADLOCK FALSE
