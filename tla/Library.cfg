SPECIFICATION LibrarySpec
CONSTANTS
    u1 = u1
    u2 = u2
    s1 = s1
    d1 = d1
    l1 = l1
    alice = alice
    bob = bob
    NoOwner = NoOwner
    NoJob = NoJob
    Jobs = {d1, l1}
    Owners = {alice, bob}
    Uploads = {l1}
    Supervised = {d1}
    Zipped = {}
    RequestOwner <- MCRequestOwner
    InitialStatus <- MCInitialStatus
    Limits <- MCLimits
    MaxBatch = 1
    MaxNetworkRetries = 0
    MaxRevision = 3
    MaxPublications = 1
    MaxPosition = 2
    Downloads = {"d1", "d2"}
    Protected = {"d1"}
    Sized = {"d1"}
    Chunks = 2
    Retries = 1
    MaxNames = 2
    MaxVault = 1
    Scans = {"s1", "s2"}
    Ids = {1, 2}
    MaxCommands = 1
    MaxVersion = 3
INVARIANTS
    SupervisedInv
    DownloadInv
    ScanInv
PROPERTIES
    WithdrawnNeverStarts
    NothingErased
    CompleteIsListing
    KeepsPromise
CHECK_DEADLOCK FALSE
