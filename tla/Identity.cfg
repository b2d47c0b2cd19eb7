SPECIFICATION IdentitySpec
CONSTANTS
    Owners = {o1, o2}
    NoOwner = none
    MaxGeneration = 1
    MaxFiles = 3
    MaxSessions = 3
    Calls = {c1, c2, c3}
    MaxAttempt = 2
    Operations = {1, 2}
    Materials = {1, 2}
    Passphrases = {1}
    MaxRevision = 2
    MaxSession = 2
    LayoutAccounts = {"a", "b"}
    Channels = {"ca"}
    HolderOf <- Holder
    AboutOnly = {}
    GroupIds = {1}
    MaxEdits = 1
    Devices = {"p", "q"}
    SyncSecrets = {"s"}
    ScanLimit = 2
    MaxMessages = 4
    Orders = {1, 2, 3}
    Foreign = 9
INVARIANTS
    AccountInv
    PhoneInv
    VaultInv
    LayoutInv
    LastBackupKept
    SupporterInv
PROPERTIES
    LoginOpensOwnWorkspace
    LockWins
    VaultNeverLost
SYMMETRY Symmetry
CHECK_DEADLOCK FALSE
