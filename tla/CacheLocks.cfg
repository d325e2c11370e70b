CONSTANTS
    Zone = {"a."}
    Watcher = {w1, w2}
    Client = {c1}
    Gauge = {c1}
    MaxLabels = 3
    NoOne = NoOne
SPECIFICATION FairSpec
INVARIANTS
    TypeOK
    NothingHeldAfterReturn
    StalledTransferHoldsNothing
    OnlyWildcardsHang
PROPERTIES
    ReturnsWithoutWildcards
CHECK_DEADLOCK FALSE
