CONSTANTS
    Block = {b1, b2}
    Data = {d1, d2}
    Req = {r1, r2}
    None = None
    Ok = Ok
    MaxOps = 2
SPECIFICATION Spec
INVARIANTS
    PollInv
    BuffersNotRaced
    NoFalseFailure
PROPERTIES
    DiskCallsServed
    AppCallsServed
