CONSTANTS
    p1 = p1
    p2 = p2
    k1 = k1
    k2 = k2
    a = a
    b = b
    Proc <- MCProc
    Key <- MCKey
    Payload <- MCPayload
    Sync = TRUE
    Faults = {"power", "truncate"}
    Anchoring = {TRUE}
    MaxLen = 2
    MaxBatch = 2
    MaxIssued = 0
    MaxSealed = 2
SYMMETRY Sym
SPECIFICATION Spec
INVARIANTS AnchorsHold
