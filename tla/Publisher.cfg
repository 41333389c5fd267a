SPECIFICATION LiveSpec
CONSTANTS
    MaxSessions = 3
    MaxMsgs = 3
    Fragmented = FALSE
INVARIANTS
    TypeOK
    AgreesWithBroker
    NothingLeftOver
PROPERTIES
    MessagesInOrder
    NoticesLoss
