CONSTANTS
    Block = {b1, b2, b3, b4}
    Data = {zero, one}
    Zero = zero
    NoBlock = NoBlock
    NBUF = 3
    MaxRef = 2
SPECIFICATION Spec
SYMMETRY Symmetry
INVARIANTS
    OneCopyPerBlock
    CacheInv
PROPERTIES
    LeastRecentlyUsed
    ImplementsBlockStore
\* bget panics when every buffer is held: the server stops.
CHECK_DEADLOCK FALSE
