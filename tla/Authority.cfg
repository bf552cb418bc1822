CONSTANTS
    MaxLong = 3
    MaxTime = 2
    MaxBadges = 1
    Authored <- MCAuthored
    Foreign <- MCForeign
    Missions <- MCMissions
    Mintings <- MCMintings
    Decisions <- MCDecisions
    Searches <- MCSearches
    EarlierRows <- MCEarlierRows
    Alias <- MCAlias
    Reserved <- MCReserved
    StandingIssuers = {"registrar"}
SPECIFICATION Spec
INVARIANTS
    DelegationSound
    AllowsSatisfySuite
    RecordsAccountable
    MintsUnderLiveMissions
    SearchAgreesWithDecisions
