CONSTANTS
    Replica = {"r1"}
    Handler <- MCOneHandler
    Zone = {"a.", "."}
    MaxSerial = 2
    Time = {1}
    MaxGeneration = 1
    Invalid = Invalid
    None = None
    MaxEvents = 2
    MaxCrashes = 0
    Followed = "a."
    Incremental = TRUE
    MaxLost = 0
SPECIFICATION FairTransferSpec
PROPERTIES
    SecondaryCatchesUp
CHECK_DEADLOCK FALSE
