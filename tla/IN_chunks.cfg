SPECIFICATION Spec
CONSTANTS
    ChunkSize = 10
    ChunkMinTokens = 4
    Lines <- MCLines
    Blank <- MCBlank
    Files <- MCFiles
INVARIANT ChunksFitBudget
INVARIANT OnlySmallTextIsLost
INVARIANT SentencesInOrder
INVARIANT TablePiecesKeepHeader
INVARIANT TextKeepsItsSection
