SPECIFICATION Spec
CONSTANTS
    QueueLength = 2
    KeyQueueLength = 1
    Presses = {{}, {"UP", "ENTER"}}
    BufLen = 2
    MaxUart = 2
    DayLen = 2
    MaxSize = 3
    Paced = TRUE
INVARIANTS
    TypeOK
    ResultIsShown
PROPERTIES
    ReportedOnce
    AnswerIsOwn
    TimeoutMeansFull
    ReadAtOneMoment
    SuccessMeansDone
    WritesInOrder
    StartupEnds
    ScanResumes
CHECK_DEADLOCK FALSE
