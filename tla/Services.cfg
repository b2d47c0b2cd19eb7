SPECIFICATION ServicesSpec
CONSTANTS
    MaxIds = 2
    Sizes = {0, 1, 3}
    Limits = {1, 3}
    DefaultLimit = 3
    MaxHolds = 2
    MaxU64 = 4
    Weeks = {1, 2}
    PacedTransfers = {t1, t2}
    Slow <- MCSlow
    MaxSwitches = 2
    MaxQueued = 2
    MaxTicket = 4
    Workers = {w1}
    MaxOpen = 2
    Restarts = {1, 2, 3}
INVARIANTS
    ServicesInv
PROPERTIES
    RecordedUseNeverLost
    NoBurst
    WaitsEnd
    IdleVaultLocks
    RestartsEnd
CHECK_DEADLOCK FALSE
