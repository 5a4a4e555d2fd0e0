SPECIFICATION FairSpec
CONSTANTS
    Caller = {c1}
    None = None
    Api = {"create"}
    MaxCalls = 1
    Gnss = TRUE
    Overflows = FALSE
    EarfcnListed = {TRUE}
PROPERTIES CallReturns
