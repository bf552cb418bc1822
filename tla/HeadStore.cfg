CONSTANTS
    p1 = p1
    p2 = p2
    Payload = {p1, p2}
    Releases = {"this", "earlier"}
    Faults = {"power", "lost"}
    MaxRecords = 3
SYMMETRY Payloads
SPECIFICATION Spec
INVARIANTS CommitsSound ListingComplete
PROPERTIES AckedGrows ShardIsDurableLog
