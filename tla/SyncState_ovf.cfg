SPECIFICATION SignalSpec
CONSTANTS
    Caller = {c1}
    None = None
    Api = {"search", "select", "create"}
    MaxCalls = 2
    Gnss = FALSE
    Overflows = TRUE
    EarfcnListed = {TRUE, FALSE}
PROPERTIES OverflowRecovers ServingStays
