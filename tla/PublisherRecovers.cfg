SPECIFICATION LiveSpec
CONSTANTS
    MaxSessions = 1
    MaxMsgs = 1
    Fragmented = FALSE
PROPERTIES
    RecoversFromLoss
