SPECIFICATION BufferSpec
CONSTANTS
    Byte = {0, 1}
    Size = 4
    Zero = 0
INVARIANTS
    BufferTypeOK
PROPERTIES
    IsFifo
