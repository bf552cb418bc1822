CONSTANTS
    Deployments <- MCDeployments
    Requests <- MCRequests
    Domain <- MCDomain
    Behind = 1
    Ahead = 0
    MaxLife = 3
    MaxTime = 3
    Entries = {"ann", "nobody"}
    Subject = "ann"
    StartLengths = {0, 3, 5}
    MaxAppends = 2
    MaxAuditTime = 1
    MaxHeads = 1
    TREE_HEAD_REFRESH = 1
    MAX_PROJECTED_DECISIONS = 1
    RootOf <- TreeHash
    PathOf <- InclusionProof
    ConsistencyOf <- ConsistencyProof
    ConsistencyVerifies <- VerifyConsistency
    Starters = {p, q}
    CommandLines <- MCCommandLines
    Links <- MCLinks
    DisksAtStart <- MCDisks
    KeyMaterial <- MCKeyMaterial
    MaxBoots = 2
    MaxSigned = 2
SPECIFICATION SurfacesSpec
INVARIANTS
    CallersEstablished
    StrangersRefused
    ProofsAreExact
    AuditSound
    BundlesAreExact
    RefusedLeavesNothing
    ServedServesAgain
PROPERTIES
    FilesKept
CHECK_DEADLOCK FALSE
