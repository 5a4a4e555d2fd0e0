SPECIFICATION Spec
CONSTANTS
    Caller = {c1, c2}
    None = None
    Api = {"search", "select"}
    MaxCalls = 2
    Gnss = FALSE
    Overflows = FALSE
    EarfcnListed = {TRUE}
INVARIANTS OneCallAtATime
