CONSTANTS
    t1 = t1
    t2 = t2
    i1 = i1
    i2 = i2
    Threads = {t1, t2}
    Impls = {i1, i2}
    MaxIdleHandles = 1
    ResponseLimit = 1
    MaxBody = 2
SPECIFICATION Spec
SYMMETRY PoolSymmetry
INVARIANTS
    PoolTypeOK
    OneOwner
    LibcurlOutlivesHandles
    NothingLeftOver
    OversizeIsFinal
    ConnectionsBounded
CHECK_DEADLOCK FALSE
