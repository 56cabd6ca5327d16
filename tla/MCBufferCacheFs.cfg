CONSTANTS
    Block = {b1, b2, b3}
    Data = {zero, one}
    Zero = zero
    NoBlock = NoBlock
    NBUF = 2
    MaxRef = 2
SPECIFICATION FsSpec
PROPERTIES
    ImplementsBlockStore
CHECK_DEADLOCK FALSE
