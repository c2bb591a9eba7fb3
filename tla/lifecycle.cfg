SPECIFICATION FairSpec
CONSTANTS
    Attempts = {1, 2}
    Addrs = 2
    Registries <- MCRegistries
    MaxAdds = 2
    MaxLeaks = 1
INVARIANTS
    ReleasedOnce
    SettingsInRange
PROPERTY RemovalEnds
CHECK_DEADLOCK FALSE
