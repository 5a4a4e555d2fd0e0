SPECIFICATION Spec
CONSTANTS
    Caller = {c1}
    None = None
    Api = {"search", "select"}
    MaxCalls = 2
    Gnss = TRUE
    Overflows = FALSE
    EarfcnListed = {TRUE}
INVARIANTS PoolWhileWorking
