CONSTANTS
    StartOrder <- MCOneKind
    Object = {"e"}
    KindOf <- MCKindOf
    Convertible = {"dnsendpoint"}
    MaxChanges = 3
    MaxFailures = 1
SPECIFICATION Spec
INVARIANTS
    QuietMeansCurrent
CHECK_DEADLOCK FALSE
