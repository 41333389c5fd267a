SPECIFICATION Spec
CONSTANTS BufferLen = 6 MaxFrame = 9
INVARIANTS TypeOK PayloadInOrder ReturnsBetweenFrames WholeDatagram
