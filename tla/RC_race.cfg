SPECIFICATION Spec
CONSTANTS
    Requests = {r1, r2}
    Queries = {q1}
    Modes = {hybrid}
    Admins = {a1}
    NoAnswer = NoAnswer
    MaxChanges = 1
    MaxFlushes = 0
    MaxRedisFaults = 0
CHECK_DEADLOCK FALSE
SYMMETRY Symmetry
INVARIANT HitsAreFresh
