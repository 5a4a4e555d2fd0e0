SPECIFICATION Spec
CONSTANTS
    Event <- MCEvent
    MaxMessages = 3
    None = None
INVARIANTS OnePerDevice QueuedIsCached ShownAtMost
PROPERTIES WorkedOff
CHECK_DEADLOCK FALSE
