SPECIFICATION Spec
CONSTANTS
    SidelinkId = {1}
    PoolSize = 4090
    Start = 0
    Tbs = {100, 200}
    Horizon = 46
INVARIANTS CombinesSameBlock
