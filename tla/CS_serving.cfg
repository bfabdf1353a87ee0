SPECIFICATION Spec
CONSTANTS
    r1 = r1
    r2 = r2
    r3 = r3
    c1 = c1
    c2 = c2
    q1 = q1
    ann = ann
    None = None
    NoText = NoText
    Requests <- MCRequests
    Tasks <- MCRequests
    Query <- MCQuery
    Texts = {q1}
    Client <- OwnClient
    Conv <- OneConv
    GeminiErrors <- MCGeminiErrors
    PoolSize = 2
    Window = 1
    RerankEnabled = TRUE
    GroqKey = TRUE
    MaxTime = 1
    MaxFaults = 1
SYMMETRY Symmetry
INVARIANT TypeOK
INVARIANT GapTypeOK
INVARIANT BlockedQuestionsStayOut
INVARIANT ProgressIsTrue
INVARIANT CountsAreEarned
PROPERTY ImplementsTurns
