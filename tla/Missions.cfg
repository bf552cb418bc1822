CONSTANTS
    m1 = m1
    m2 = m2
    r1 = r1
    r2 = r2
    r3 = r3
    Mission <- MCMission1
    Expiry <- MCExpiry1
    Retention = 1
    Patience = 1
    Req <- MCReq2
    Serves <- Mixed2
    Semantic = {"execute_all", "deny_on_first_deny", "permit_on_first_permit"}
    Environments <- Faulty
    MaxItems = 2
    MaxNow = 2
    MaxLen = 3
SPECIFICATION Spec
INVARIANTS RegistrySound NeverRevives NoAllowAfterTakenTermination ExchangesSound
