SPECIFICATION Spec
CONSTANTS
    Docs = {d1, d2}
    NoDoc = NoDoc
    Slots = {t1, t2}
    Ops = {"upload", "delete", "patch", "reindex"}
    FaultySteps = {"ingest", "upsert", "setIndexed", "setIndexing", "insertRow", "setError", "delPg", "delR2", "delRow", "patchRow", "patchPg", "fetch", "save"}
    MaxRequests = 3
    MaxCrashes = 1
    MaxFaults = 1
    MaxRedisFaults = 2
CHECK_DEADLOCK FALSE
SYMMETRY Symmetry
INVARIANT TypeOK
INVARIANT ChunksHaveRow
INVARIANT IndexedHasChunks
INVARIANT AcceptedPickleIsCurrent
INVARIANT RowsAgreeWhenQuiet
INVARIANT IndexesAgreeWhenQuiet
