SPECIFICATION Spec
CONSTANTS
    Convs = {c1, c2}
    Turns = {t1, t2, t3}
    Ratings = {r1, r2}
    Nothing = Nothing
    HistoryLimit = 2
CHECK_DEADLOCK FALSE
SYMMETRY Symmetry
INVARIANT TypeOK
INVARIANT StoredTurnsAreWhole
INVARIANT LoneAnswersAreRatedWithTheirQuestion
INVARIANT LoneHistoriesAreWhole
INVARIANT SecondRatingsAddNothing
PROPERTY SnapshotsAreImmutable
