CONSTANTS
    c1 = c1
    Client = c1
    Callers = {c1}
    Answers = {}
    NotFoundCode = "NotFound"
    MaxAttempts = 2
    InitialDelay = 0
    MaxDelay = 0
    Multiplier = 2
    Jitter = 0
    JitterScale = 1
    RetryOnNetworkError = TRUE
    RetryOnRateLimit = TRUE
    RetryOnServerError = TRUE
    MaxRetryAfter = 7
    Products <- SomeProducts
    Layers <- TheirLayers
    Contents <- LayerContents
    Malformed = {2}
    Unreadable = {7}
    ArcGISErrors <- ServiceErrors
    FailedAnswers <- LostOrBusy
    PageSize = 2
    MaxPages = 3
    Republishes = TRUE
    Runaway = TRUE
SPECIFICATION FairSpec
INVARIANTS
    QueryTypeOK
    StableResultIsComplete
    NeverTruncatedSilently
PROPERTIES
    ImplementsPagedRead
    QueryReturns
