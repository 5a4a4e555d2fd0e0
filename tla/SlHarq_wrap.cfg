SPECIFICATION Spec
CONSTANTS
    SidelinkId = {1}
    PoolSize = 4090
    Start = 4080
    Tbs = {100}
    Horizon = 40
INVARIANTS RetxAfterGap
