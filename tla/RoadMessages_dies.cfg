SPECIFICATION Spec
CONSTANTS
    Event <- MCEvent
    MaxMessages = 3
    None = None
INVARIANTS UiRuns
CHECK_DEADLOCK FALSE
