SPECIFICATION ApiFairSpec
CONSTANTS
    Requests = {r1, r2}
    Passwords = {p1, p2}
    Guarded = {"getProfile", "createMonitor", "getAllMonitors"}
    MaxFaults = 1
    Monitors = {m1, m2}
    Updated = {m1}
    Limits = {0, 1}
INVARIANTS TypeOK CreatedIsKept RefusedAlike FailureNotBlamedOnClient ListingComplete WalkBounded
PROPERTIES TokenEarned CreatedLogsIn ListingEnds
