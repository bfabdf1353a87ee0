SPECIFICATION FairSpec
CONSTANTS
    Docs = {d1}
    NoDoc = NoDoc
    Slots = {t1, t2}
    Ops = {"upload", "delete", "patch", "reindex"}
    FaultySteps = {"ingest", "upsert"}
    MaxRequests = 3
    MaxCrashes = 1
    MaxFaults = 1
    MaxRedisFaults = 0
CHECK_DEADLOCK FALSE
PROPERTY IndexingEnds
PROPERTY ServerComesBack
