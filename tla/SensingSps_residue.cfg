SPECIFICATION Spec
CONSTANTS
    NofVehicles = 2
    Masters = {2}
    SyncPeriod = 4
    Period = 4
    TxDelay = 1
    SelWindow = 3
    SenseWindow = 4
    Ring = 8
    Cycle = 16
    MaxGap = 1
    Counters = {1}
    Residue = {{}, {1}}
    Idle = {}
    Lossy = {1}
    MaxMissed = 1
    IdleMissed = 0
INVARIANTS TypeOK OnTime SyncKept HeardStayApart
