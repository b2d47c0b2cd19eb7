SPECIFICATION Spec
CONSTANTS
    Paths = {p1}
    Others = {0, 1}
    Policies <- TwoWayOnly
    MaxChanges = 3
    MaxMessages = 3
PROPERTY NothingLost
