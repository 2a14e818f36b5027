SPECIFICATION Spec
CONSTANTS
    Workers = {w1}
    MayDisable = FALSE
    AlertChannelSize = 1
    MaxCount = 5
    MaxFaults = 0
PROPERTY AlertHasRecord
CHECK_DEADLOCK FALSE
