SPECIFICATION Spec
CONSTANTS
    ChainLength = 2
    GroupOf <- TwoGroups
    Quota = 2
    MaxTrips = 1
    MaxFlips = 0
    MaxReissues = 0
INVARIANTS AbortedByCaller
CHECK_DEADLOCK FALSE
