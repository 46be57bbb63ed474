SPECIFICATION Spec
CONSTANTS
    Jti = {j1, j2}
    Task = {t1, t2}
    Password = {w1}
    MaxTime = 1
    Lifetime = 1
    Grace = 1
    Fallback = 1
    RedisFails = TRUE
    NoUser = NoUser
    Deleted = Deleted
    NoJti = NoJti
SYMMETRY Interchangeable
INVARIANTS TypeOK EndedStaysEnded NoSessionAfterTheEnd
PROPERTY LifecycleSpec
CHECK_DEADLOCK FALSE
