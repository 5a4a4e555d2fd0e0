SPECIFICATION TxFairSpec
CONSTANTS
    NofWorkers = 2
    RadioErrors = TRUE
    FirstTxSeparated = TRUE
    MaxResets = 1
INVARIANTS TxTypeOK InOrderTx OneToken
PROPERTIES ImplementsFifo TransmitsAll
CHECK_DEADLOCK FALSE
