SPECIFICATION FairSpec
CONSTANTS
    NofWorkers = 2
    RadioErrors = TRUE
INVARIANTS TypeOK HeldIsQuiet NoLostWakeup
PROPERTIES StartedWorkRuns DispatchesWhileWorkersLeft
CHECK_DEADLOCK FALSE
