CONSTANTS
    c1 = c1
    c2 = c2
    Callers = {c1, c2}
    Answers <- IemAnswers
    NotFoundCode = "NotFound"
    MaxAttempts = 2
    InitialDelay = 1
    MaxDelay = 2
    Multiplier = 2
    Jitter = 0
    JitterScale = 1
    RetryOnNetworkError = TRUE
    RetryOnRateLimit = TRUE
    RetryOnServerError = TRUE
    MaxRetryAfter = 7
    Burst = 1
    Interval = 2
    Initial = 1
    TokenModulus = 65536
    MaxWait <- WaitOneInterval
    WireWindow = 2
SPECIFICATION FairSpec
INVARIANTS
    FetchTypeOK
    WireBound
    EveryAttemptIsSentOrRefused
    ErrorsAsDocumented
PROPERTIES
    FetchReturns
