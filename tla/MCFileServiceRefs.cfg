CONSTANTS
    NINODE = 2
    NOFILE = 4
    NFILE = 3
    File = {2, 3}
    MAXSIZE = 3
    CHUNK = 2
    UINT = 8
    Mode = {"RDWR"}
    Count = {1, 3}
    Pos = {1, 9}
    Back = {1}
    MaxRef = 2
SPECIFICATION Spec
INVARIANTS
    RefsCountPointers
CHECK_DEADLOCK FALSE
