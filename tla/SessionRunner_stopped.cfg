SPECIFICATION Spec
CONSTANTS
    Sends = {s1}
    Notes = {}
    MaxRetries = 1
    Tries = 1
    MaxRedos = 1
    MaxCorrections = 0
    MaxStops = 1
INVARIANTS
    NothingAfterStop
CHECK_DEADLOCK FALSE
