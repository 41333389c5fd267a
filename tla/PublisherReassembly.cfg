SPECIFICATION Spec
CONSTANTS
    MaxSessions = 1
    MaxMsgs = 1
    Fragmented = TRUE
INVARIANTS
    ShownCameFromBroker
