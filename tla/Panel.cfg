SPECIFICATION Spec
CONSTANTS
    QueueLength = 3
    Leftovers = {0, 33}
INVARIANTS
    TypeOK
    NoLeak
    ScreenIsShown
PROPERTIES
    DeletedAsShown
    WritesInOrder
    MenuGoesOn
