CONSTANTS
    Replica = {"r1"}
    Handler <- MCTransferHandler
    Zone = {"a.", "."}
    MaxSerial = 2
    Time = {1}
    MaxGeneration = 1
    Invalid = Invalid
    None = None
    MaxEvents = 2
    MaxCrashes = 0
    Followed = "a."
    Incremental = FALSE
    MaxLost = 1
SPECIFICATION FairTransferSpec
INVARIANTS
    TransferTypeOK
    CopyHasWhatSerialTold
PROPERTIES
    SecondaryCatchesUp
CHECK_DEADLOCK FALSE
