SPECIFICATION Spec
CONSTANTS
    Attempts = {a1, a2}
    TotalParts = 2
    Workers = 2
    Bytes = {x, y}
    Nothing = Nothing
    NoRecord = NoRecord
    Nobody = Nobody
    Contents <- MCContents
    Video = FALSE
    MaxFiles = 2
    MaxStamps = 1
    ExpireInUse = FALSE
INVARIANTS
    UploadInv
SYMMETRY MCSymmetry
CHECK_DEADLOCK FALSE
