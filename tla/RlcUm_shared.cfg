SPECIFICATION Spec
CONSTANTS
    Sender = {a, b}
    Mod = 8
    SduSizes = {3}
    Grants = {4, 7}
    Capacity = 2
    MaxSdus = 3
    Skew = 1
    MaxOutage = 1
    MaxRepeats = 0
INVARIANTS DeliveredIntact
CHECK_DEADLOCK FALSE
