SPECIFICATION Spec
CONSTANTS
    Requests = {r1, r2}
    Queries = {q1, q2}
    Modes = {hybrid, official}
    Admins = {a1, a2}
    NoAnswer = NoAnswer
    MaxChanges = 2
    MaxFlushes = 1
    MaxRedisFaults = 1
CHECK_DEADLOCK FALSE
SYMMETRY Symmetry
INVARIANT TypeOK
INVARIANT HitsKeepModeAndQuery
INVARIANT StableHitsAreFresh
INVARIANT FlushedAnswersStayAway
