SPECIFICATION FairSpec
CONSTANTS
    NofWorkers = 2
    RadioErrors = FALSE
PROPERTIES StopTerminates
CHECK_DEADLOCK FALSE
