CONSTANTS
    NDIRECT = 1
    NINDIRECT = 3
    NINODES = 4
    NBLOCKS = 4
    Word = {100}
    Offset = {8, 38}
    ReadOffset = {2}
    MaxLen = 2
    MaxRef = 1
SPECIFICATION SmallTruncSpec
VIEW InUseOnly
INVARIANTS
    InodeInv
    NoPanic
    ReadReturnsContents
PROPERTIES
    BlocksKept
