SPECIFICATION Spec
CONSTANTS
    Workers = {w1}
    MayDisable = FALSE
    AlertChannelSize = 1
    MaxCount = 5
    MaxFaults = 1
PROPERTY CloseFailureKeepsIncident
CHECK_DEADLOCK FALSE
