CONSTANTS
    c1 = c1
    Callers = {c1}
    Answers <- FeedAnswers
    NotFoundCode = "FeedUnavailable"
    MaxAttempts = 3
    InitialDelay = 2
    MaxDelay = 5
    Multiplier = 2
    Jitter = 1
    JitterScale = 2
    RetryOnNetworkError = TRUE
    RetryOnRateLimit = TRUE
    RetryOnServerError = TRUE
    MaxRetryAfter = 7
SPECIFICATION RetryFairSpec
INVARIANTS
    RetryTypeOK
    FirstConclusiveAnswerWins
    TransientOnlyAfterRetries
PROPERTIES
    SpacedAsAsked
    CallReturns
