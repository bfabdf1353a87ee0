SPECIFICATION FairSpec
CONSTANTS
    r1 = r1
    r2 = r2
    r3 = r3
    c1 = c1
    c2 = c2
    q1 = q1
    ann = ann
    None = None
    NoText = NoText
    Requests <- MCRequests
    Tasks <- MCRequests
    Query <- MCQuery
    Texts = {q1}
    Client <- OneClient
    Conv <- TwoConvs
    GeminiErrors <- NoErrors
    PoolSize = 1
    Window = 2
    RerankEnabled = FALSE
    GroqKey = FALSE
    MaxTime = 6
    MaxFaults = 0
INVARIANT WindowIsKept
PROPERTY EveryRequestIsAnswered
