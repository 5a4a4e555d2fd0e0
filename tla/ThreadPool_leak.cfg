SPECIFICATION FairSpec
CONSTANTS
    NofWorkers = 2
    RadioErrors = TRUE
PROPERTIES KeepsDispatching
CHECK_DEADLOCK FALSE
