CONSTANTS
    NDIRECT = 2
    NINDIRECT = 2
    NINODES = 4
    NBLOCKS = 5
    Word = {5}
    Offset = {0, 8}
    ReadOffset = {0, 8}
    MaxLen = 1
    MaxRef = 1
SPECIFICATION Spec
PROPERTIES
    ImplementsFileStore
