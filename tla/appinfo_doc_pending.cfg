SPECIFICATION Spec
CONSTANTS
    Subscribers = {s1, s2}
    Timers = {t1, t2, t3}
    NoTimer = NoTimer
    IdModulus = 3
    MaxVersion = 1
    MaxFailures = 1
    MaxRejoins = 1
INVARIANTS
    OneFetchPending
