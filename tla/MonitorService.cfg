SPECIFICATION FairSpec
CONSTANTS
    Users = {u1, u2}
    Monitors = {m1}
    Requests = {p1, p2}
    Creators = {p1, p2}
    Readers = {p2}
    Updaters = {p1, p2}
    Direct = {p1}
    MonitorQuota = 1
    MaxFaults = 2
INVARIANTS TypeOK QuotaExact ServedToOwner EnabledIsTracked
PROPERTIES StaleDiesOut DisabledStops EnabledResumes
