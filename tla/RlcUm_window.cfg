SPECIFICATION Spec
CONSTANTS
    Sender = {a}
    Mod = 8
    SduSizes = {3}
    Grants = {4, 7}
    Capacity = 2
    MaxSdus = 4
    Skew = 3
    MaxOutage = 3
    MaxRepeats = 1
INVARIANTS TypeOK DeliveredIntact HeldTimed
PROPERTIES ImplementsLossyFifo HeldLeaves
CHECK_DEADLOCK FALSE
