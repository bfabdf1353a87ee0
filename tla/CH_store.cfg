SPECIFICATION Spec
CONSTANTS
    Convs = {c1, c2}
    Requests = {q1, q2}
    Calls = {k1, k2}
    NewChat = NewChat
    Nothing = Nothing
    MaxCacheSize = 1
    MaxReloads = 1
SYMMETRY Symmetry
INVARIANT TypeOK
INVARIANT PaneIsRight
INVARIANT WaitingIsKept
INVARIANT AnswersStay
