CONSTANTS
    Replica = {"r1", "r2"}
    Handler <- MCHandler
    Zone = {"a.", "."}
    MaxSerial = 3
    Time = {1}
    MaxGeneration = 1
    Invalid = Invalid
    None = None
    MaxEvents = 2
    MaxCrashes = 1
SPECIFICATION Spec
INVARIANTS
    TypeOK
    CacheMirrorsSerials
    VersionVouches
    SavedBeforeNotify
PROPERTIES
    PersistedNeverBack
    OnlyLoadGoesBack
    ImplementsLedger
CHECK_DEADLOCK FALSE
