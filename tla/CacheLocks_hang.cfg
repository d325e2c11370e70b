CONSTANTS
    Zone = {"a."}
    Watcher = {w1}
    Client = {c1}
    Gauge = {}
    MaxLabels = 2
    NoOne = NoOne
SPECIFICATION Spec
INVARIANTS
    AddRecordDoesNotHang
CHECK_DEADLOCK FALSE
