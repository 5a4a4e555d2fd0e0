SPECIFICATION Spec
CONSTANTS
    NofVehicles = 2
    Masters = {2}
    SyncPeriod = 3
    Period = 6
    TxDelay = 1
    SelWindow = 4
    SenseWindow = 6
    Ring = 9
    Cycle = 18
    MaxGap = 1
    Counters = {1}
    Residue = {{}}
    Idle = {2}
    Lossy = {1}
    MaxMissed = 1
    IdleMissed = 0
INVARIANTS TypeOK OnTime SyncKept HeardStayApart
