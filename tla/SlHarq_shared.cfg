SPECIFICATION Spec
CONSTANTS
    SidelinkId = {1, 3}
    PoolSize = 4090
    Start = 0
    Tbs = {100}
    Horizon = 32
INVARIANTS CombinesSameBlock DuplicatesKnown RetxAfterGap NoneOverdue
