SPECIFICATION ProtectedSpec
CONSTANTS
    Blocks = 2
    Secrets = {1, 2}
    MaxEnvelopes = 2
    MaxEdits = 1
INVARIANT OneContentPerEnvelope
CHECK_DEADLOCK FALSE
