SPECIFICATION LiveViewSpec
CONSTANTS
    Subscribers = {s1, s2}
    Views = {s1}
    Timers = {t1, t2, t3}
    NoTimer = NoTimer
    IdModulus = 2
    MaxVersion = 1
    MaxFailures = 1
    MaxRejoins = 1
    MaxWire = 2
    MaxLosses = 1
INVARIANTS
    TypeOK
    EntryMeansLoop
PROPERTIES
    IdsFollow
    ViewNeverGoesBack
    EveryoneCatchesUp
    ViewsCatchUp
    PollingStopsWithViews
