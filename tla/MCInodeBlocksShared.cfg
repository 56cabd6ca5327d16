CONSTANTS
    NDIRECT = 1
    NINDIRECT = 3
    NINODES = 4
    NBLOCKS = 4
    Word = {100}
    Offset = {2}
    ReadOffset = {2}
    MaxLen = 2
    MaxRef = 2
SPECIFICATION SmallTruncSpec
VIEW InUseOnly
INVARIANTS
    BlocksOwned
    FreedWithLastReference
PROPERTIES
    ImplementsFileStore
