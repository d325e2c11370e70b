CONSTANTS
    StartOrder <- MCStartOrder
    Object = {"e", "s"}
    KindOf <- MCKindOf
    Convertible = {"service"}
    MaxChanges = 3
    MaxFailures = 1
SPECIFICATION FairSpec
INVARIANTS
    TypeOK
    SessionMissesNothing
PROPERTIES
    NeverBack
    SyncedBeforeServing
    SessionsResume
    SessionDelivers
    StopEnds
CHECK_DEADLOCK FALSE
