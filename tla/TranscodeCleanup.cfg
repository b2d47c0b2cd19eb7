SPECIFICATION TranscodeSpec
CONSTANTS
    Variants = {"720p", "fmp4"}
    Remuxes = {"fmp4"}
    MaxJobs = 2
    MaxEpochs = 2
    MaxCrashes = 1
PROPERTY CleanupSparesLive
CHECK_DEADLOCK FALSE
