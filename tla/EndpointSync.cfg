CONSTANTS
    Name = {"a.x.", "b.x.", "c.x.", "1.r.", "2.r."}
    Zone = {"x.", "r."}
    ZoneOf <- MCZoneOf
    ReverseOf <- MCReverseOf
    HostOf <- MCHostOf
    None = None
    Object = {"e", "s", "i"}
    KindOf <- MCKindOf
    SpecsOf <- MCSpecsOf
    MaxChanges = 4
SPECIFICATION Spec
INVARIANTS
    TypeOK
    NoDuplicates
    NothingMissing
    OnlyKnownLeftovers
PROPERTIES
    OnlyOwnerRemoves
CHECK_DEADLOCK FALSE
