SPECIFICATION Spec
CONSTANTS
    Event <- MCEvent
    MaxMessages = 3
    None = None
PROPERTIES CacheTakesNew
CHECK_DEADLOCK FALSE
