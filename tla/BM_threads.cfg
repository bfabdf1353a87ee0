SPECIFICATION Spec
CONSTANTS
    Docs = {d1, d2}
    Official = {d1}
    Coroutines = {c1, c2}
    Searchers = {s1}
    MaxChanges = 2
    MaxCrashes = 1
CHECK_DEADLOCK FALSE
SYMMETRY Symmetry
INVARIANT TypeOK
INVARIANT UploadsNeverMislead
INVARIANT SearchesFailOnlyByOverlap
INVARIANT IndexIsAligned
INVARIANT LoneSavesAreWhole
