CONSTANTS
    Block = {b1, b2}
    Data = {d1, d2}
    Req = {r1, r2}
    None = None
    Ok = Ok
SPECIFICATION Spec
INVARIANTS
    IpcInv
PROPERTIES
    DiskCallsServed
    AppCallsServed
