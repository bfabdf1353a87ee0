SPECIFICATION Spec
CONSTANTS
    Docs = {d1, d2, d3}
    Official = {d1}
    Coroutines = {c1}
    Searchers = {s1}
    MaxChanges = 3
    MaxCrashes = 0
CHECK_DEADLOCK FALSE
SYMMETRY Symmetry
INVARIANT SearchIsolation
