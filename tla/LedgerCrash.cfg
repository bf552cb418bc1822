CONSTANTS
    p1 = p1
    p2 = p2
    k1 = k1
    k2 = k2
    a = a
    b = b
    Proc <- MCProc
    Key <- MCKey
    Payload = {a}
    Sync = TRUE
    Faults = {"power"}
    Anchoring = {FALSE}
    MaxLen = 4
    MaxBatch = 2
    MaxIssued = 1
    MaxSealed = 0
SPECIFICATION FairSpec
INVARIANTS IInv Reopenable
PROPERTIES Recovers ImplementsDurableLog
