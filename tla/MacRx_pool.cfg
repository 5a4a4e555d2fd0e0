SPECIFICATION FairSpec
CONSTANTS
    Worker = {w1, w2}
    Proc = {p1}
    Buffer = {b1, b2, b3, b4}
    None = None
    Backlog = 1
INVARIANTS TypeOK OnePlace PayloadUnderLock
PROPERTIES GrantReturns PduProcessed StopReturns
CHECK_DEADLOCK FALSE
