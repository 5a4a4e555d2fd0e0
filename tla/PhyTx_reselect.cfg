SPECIFICATION TxSpec
CONSTANTS
    NofWorkers = 2
    RadioErrors = FALSE
    FirstTxSeparated = TRUE
    MaxResets = 1
INVARIANTS OldestTransmits
