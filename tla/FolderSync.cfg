SPECIFICATION Spec
CONSTANTS
    Paths = {p1}
    Others = {0, 1}
    Policies <- AllPolicies
    MaxChanges = 3
    MaxMessages = 3
INVARIANT SyncInv
PROPERTY ConflictStays
PROPERTY PolicyHeld
PROPERTY UnrecordedKept
