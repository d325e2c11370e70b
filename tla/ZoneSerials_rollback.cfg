CONSTANTS
    Replica = {"r1"}
    Handler <- MCOneHandler
    Zone = {"a.", "."}
    MaxSerial = 3
    Time = {1}
    MaxGeneration = 1
    Invalid = Invalid
    None = None
    MaxEvents = 2
    MaxCrashes = 0
SPECIFICATION Spec
PROPERTIES
    SerialNeverGoesBack
CHECK_DEADLOCK FALSE
