CONSTANTS
    Name = {"a.x.", "b.x.", "1.r.", "2.r."}
    Zone = {"x.", "r."}
    ZoneOf <- MCZoneOf
    ReverseOf <- MCReverseOf
    HostOf <- MCHostOf
    None = None
    Object = {"e"}
    KindOf <- MCKindOf
    SpecsOf <- MCMailSpecsOf
    MaxChanges = 4
SPECIFICATION Spec
INVARIANTS
    DeletedLeavesNothing
CHECK_DEADLOCK FALSE
