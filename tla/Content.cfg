SPECIFICATION ContentSpec
CONSTANTS
    u1 = u1
    u2 = u2
    s1 = s1
    d1 = d1
    l1 = l1
    alice = alice
    bob = bob
    NoOwner = NoOwner
    NoJob = NoJob
    Jobs = {u1, u2}
    Owners = {alice}
    Uploads = {u1, u2}
    Supervised = {}
    Zipped = {}
    RequestOwner <- MCRequestOwner
    InitialStatus <- MCInitialStatus
    Limits <- MCTwoLimits
    MaxBatch = 2
    MaxNetworkRetries = 0
    MaxRevision = 2
    MaxPublications = 0
    MaxPosition = 2
    Blocks = 2
    Secrets = {1, 2}
    MaxEnvelopes = 2
    MaxEdits = 1
    RemoteSizes <- MCRemoteSizes
    SizeLimit = 3
    MaxRedirects = 1
    SendRetries = 1
    Variants = {"720p", "fmp4"}
    Remuxes = {"fmp4"}
    MaxJobs = 2
    MaxEpochs = 2
    MaxCrashes = 1
    MaxSize = 5
    MaxNumber = 6
    SourceChunk = 2
    Alignment = 4
    HeaderLength = 3
    RecordLength = 2
    TagLength = 1
    FinalLength = 2
    DavRequests = {"r1", "r2"}
    DavNames = {"n"}
    MaxDavIds = 4
    MaxLogins = 2
    PackSize = 2
    Unsupported = {2}
    Callers = {c1, c2}
    MaxRuns = 2
    MaxEvents = 3
INVARIANTS
    PublishedInv
    TranscodeInv
    ServedInv
    PackInv
PROPERTIES
    SlotsRespected
    LiveFilesKept
    OwnSessionOnly
    CancelStays
SYMMETRY ContentSymmetry
CHECK_DEADLOCK FALSE
