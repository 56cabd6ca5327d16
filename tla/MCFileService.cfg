CONSTANTS
    NINODE = 2
    NOFILE = 5
    NFILE = 3
    File = {2, 3, 4}
    MAXSIZE = 1
    CHUNK = 1
    UINT = 3
    Mode = {"RDONLY", "RDWR"}
    Count = {1, 2}
    Pos = {4}
    Back = {1}
    MaxRef = 2
SPECIFICATION Spec
VIEW View
INVARIANTS
    ServiceInv
    InodeTableSound
    NothingAbandoned
    PanicOnlyByLeaks
PROPERTIES
    KeptOnlyByLookups
    StatReportsInode
    TransfersSound
CHECK_DEADLOCK FALSE
