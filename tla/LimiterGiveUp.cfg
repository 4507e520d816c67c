CONSTANTS
    a = a
    b = b
    Threads = {a, b}
    Resetters = {}
    ConfigMaxTokens = 2
    ConfigRefillInterval = 2
    ConfigInitialTokens = 1
    DefaultInterval = 2
    TokenModulus = 65536
    DailyLimit = 0
    ConfigMaxWait <- NoMaxWait
    ExplicitWaits <- OneInterval
    MaxDay = 0
    MaxLate = 0
    Window = 0
SPECIFICATION Spec
SYMMETRY ThreadSymmetry
PROPERTIES
    GaveUpOnlyIfHopeless
