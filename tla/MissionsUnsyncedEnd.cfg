CONSTANTS
    m1 = m1
    m2 = m2
    r1 = r1
    r2 = r2
    r3 = r3
    Mission <- MCMission1
    Expiry <- MCExpiry1
    Retention = 1
    Patience = 1
    Req <- MCReq2
    Serves <- Any2
    Semantic = {"execute_all"}
    Environments <- Power
    MaxItems = 1
    MaxNow = 1
    MaxLen = 3
SYMMETRY Sym2
SPECIFICATION Spec
INVARIANTS TerminationIsMonotone
