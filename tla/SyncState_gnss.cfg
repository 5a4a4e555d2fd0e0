SPECIFICATION FairSpec
CONSTANTS
    Caller = {c1, c2}
    None = None
    Api = {"search", "select"}
    MaxCalls = 3
    Gnss = TRUE
    Overflows = TRUE
    EarfcnListed = {TRUE}
INVARIANTS TypeOK ReconfigInIdle OneCallAtATime
PROPERTIES CallReturns
