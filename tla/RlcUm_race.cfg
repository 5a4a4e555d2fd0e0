SPECIFICATION Spec
CONSTANTS
    Sender = {a}
    Mod = 8
    SduSizes = {3}
    Grants = {4, 7}
    Capacity = 2
    MaxSdus = 3
    Skew = 2
    MaxOutage = 2
    MaxRepeats = 0
PROPERTIES ExpiryFindsGap
CHECK_DEADLOCK FALSE
