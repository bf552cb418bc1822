CONSTANTS
    m1 = m1
    m2 = m2
    r1 = r1
    r2 = r2
    r3 = r3
    Mission <- MCMission2
    Expiry <- MCExpiry2
    Retention = 1
    Patience = 1
    Req <- MCReq3
    Serves <- Apart3
    Semantic = {"execute_all"}
    Environments = {{}}
    MaxItems = 1
    MaxNow = 1
    MaxLen = 4
SPECIFICATION Spec
INVARIANTS NoAllowAfterTermination
