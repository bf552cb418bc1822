CONSTANTS
    Time = {1, 2}
    MaxBytes = 2
    Epoch = 2
    MaxRecords = 3
    MaxIndex = 3
    MaxBatch = 2
    Environments <- Powers
    r1 = r1  r2 = r2
    Keys = {1, 2, 3}
    Replica = {r1, r2}
    Boots <- Rotations
    Earlier = {1, 2}
    Unlabelled = {1}
    MaxShardRecords = 4
    MaxCalls = 3
    MaxIssued = 1
    p1 = p1  p2 = p2
    Process = {p1, p2}
    Ino = {1, 2}
    Size = {1}
    MaxWrites = 3
    WritesPerTick = 2
SPECIFICATION StoresSpec
INVARIANTS
    SegmentsSound
    RolledByPolicy
    ShardSound
    RecordedAsAnswered
    ExtendsIssued
    CachesSound
PROPERTIES
    ImplementsDurableLog
    NoLostWrite
    ReadsReturn
CHECK_DEADLOCK FALSE
