SPECIFICATION Spec
CONSTANTS
    Docs = {d1}
    NoDoc = NoDoc
    Slots = {t1, t2}
    Ops = {"upload", "delete"}
    FaultySteps = {}
    MaxRequests = 2
    MaxCrashes = 0
    MaxFaults = 0
    MaxRedisFaults = 0
CHECK_DEADLOCK FALSE
INVARIANT DeleteRemovesFromBm25
