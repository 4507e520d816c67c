CONSTANTS
    a = a
    b = b
    Threads = {a, b}
    Resetters = {a, b}
    ConfigMaxTokens = 3
    ConfigRefillInterval = 2
    ConfigInitialTokens = 1
    DefaultInterval = 2
    TokenModulus = 5
    DailyLimit = 0
    ConfigMaxWait <- NoMaxWait
    ExplicitWaits <- OneInterval
    MaxDay = 0
    MaxLate = 2
    Window = 7
SPECIFICATION Spec
SYMMETRY ThreadSymmetry
INVARIANTS
    TypeOK
    RateBound
    QuietSleepPays
    OverrunsByLastDelayOnly
PROPERTIES
    ImplementsLeakyBucket
    EmptyOnlyWhenInDebt
