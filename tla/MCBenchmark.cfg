SPECIFICATION Spec
CONSTANTS
    NUM = 3
    READS <- MCReads
    HUNDRED = 2
    THOUSAND = 3
    BATCH = 2
    VALUE = 5
    LARGE = 40
    PIECE = 4
    FILL = 13
    RAW_LENGTHS = {1, 3}
    M = 31
    A = 3
    SEED = 7
    LIMITS <- MCLimits
    NUMDATA = 1
    MICROS = {0, 2, 5}
    MaxBench = 2
INVARIANTS
    DriverInv
    StatisticsAgree
PROPERTIES
    KeysFromLehmer
    Finishes
CHECK_DEADLOCK FALSE
