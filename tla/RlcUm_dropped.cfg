SPECIFICATION Spec
CONSTANTS
    Sender = {a}
    Mod = 4
    SduSizes = {3}
    Grants = {4, 7}
    Capacity = 2
    MaxSdus = 3
    Skew = 1
    MaxOutage = 1
    MaxRepeats = 0
INVARIANTS NothingDropped
CHECK_DEADLOCK FALSE
