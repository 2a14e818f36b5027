SPECIFICATION FairSpec
CONSTANTS
    Workers = {w1, w2}
    MayDisable = TRUE
    AlertChannelSize = 1
    MaxCount = 7
    MaxFaults = 2
INVARIANTS TypeOK OpenRowTracked AlertNotLost AlertOncePerIncident
PROPERTIES ImplementsTracker SustainedFailureAlerts
CHECK_DEADLOCK FALSE
