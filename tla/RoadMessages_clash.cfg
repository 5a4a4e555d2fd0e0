SPECIFICATION Spec
CONSTANTS
    Event <- MCEvent
    MaxMessages = 3
    None = None
INVARIANTS MqttRuns
CHECK_DEADLOCK FALSE
