SPECIFICATION Spec
CONSTANTS
    Monitors = {m1, m2}
    Instances = {i1, i2}
    JobIds = {j1, j2}
    BatchSize = 1
    ReclaimLimit = 1
    JobChannelSize = 1
    WorkerCount = 1
    HTTPSemCount = 1
    ResultChannelSize = 1
    SuccessChannelSize = 1
    FailureChannelSize = 1
    SuccessWorkerCount = 1
    FailureWorkerCount = 1
    AlertChannelSize = 1
    AlertWorkerCount = 1
    Outcomes = {"success"}
    MaxFaults = 1
SYMMETRY Symmetry
INVARIANTS CrashCover NoDoubleExecution
PROPERTY ImplementsCycle
CHECK_DEADLOCK FALSE
