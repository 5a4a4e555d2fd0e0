SPECIFICATION Spec
CONSTANTS
    Caller = {c1}
    None = None
    Api = {"search", "select"}
    MaxCalls = 2
    Gnss = FALSE
    Overflows = TRUE
    EarfcnListed = {TRUE}
INVARIANTS ReconfigInIdle
