SPECIFICATION Spec
CONSTANTS FirstYear = 194 LastYear = 204 Starts <- MCStarts
INVARIANTS TypeOK ShownIsReal ShiftsAreInverse
PROPERTY SavedAsShown
