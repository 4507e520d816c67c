CONSTANTS
    a = a
    b = b
    Threads = {a, b}
    Resetters = {a, b}
    ConfigMaxTokens = 2
    ConfigRefillInterval = 0
    ConfigInitialTokens = 5
    DefaultInterval = 2
    TokenModulus = 65536
    DailyLimit = 2
    ConfigMaxWait <- ShortMaxWait
    ExplicitWaits <- OneInterval
    MaxDay = 2
    MaxLate = 0
    Window = 0
SPECIFICATION Spec
SYMMETRY ThreadSymmetry
INVARIANTS
    DailyAccounting
    QuotaBudget
PROPERTIES
    ObserversForetell
