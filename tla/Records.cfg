SPECIFICATION RecordsSpec
CONSTANTS
    u1 = u1
    u2 = u2
    s1 = s1
    d1 = d1
    l1 = l1
    alice = alice
    bob = bob
    NoOwner = NoOwner
    NoJob = NoJob
    Jobs = {u1}
    Owners = {alice, bob}
    Uploads = {u1}
    Supervised = {}
    Zipped = {u1}
    RequestOwner <- MCRequestOwner
    InitialStatus <- MCInitialStatus
    Limits <- MCLimits
    MaxBatch = 1
    MaxNetworkRetries = 1
    MaxRevision = 6
    MaxPublications = 2
    MaxPosition = 2
    Newest = 2
    MaxFiles = 1
    MaxChanges = 1
INVARIANTS
    QueueInv
    InventoryInv
PROPERTIES
    NoRepeat
    ResultEventuallySaved
    DeletionsNoticed
CHECK_DEADLOCK FALSE
