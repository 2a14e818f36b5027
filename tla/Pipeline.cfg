SPECIFICATION FairSpec
CONSTANTS
    Monitors = {m1}
    Instances = {i1}
    JobIds = {j1, j2}
    BatchSize = 1
    ReclaimLimit = 1
    JobChannelSize = 1
    WorkerCount = 1
    HTTPSemCount = 1
    ResultChannelSize = 1
    SuccessChannelSize = 1
    FailureChannelSize = 1
    SuccessWorkerCount = 1
    FailureWorkerCount = 1
    AlertChannelSize = 1
    AlertWorkerCount = 1
    Outcomes = {"success", "failed", "terminal", "retryable"}
    MaxFaults = 1
INVARIANTS TypeOK CrashCover NoLossWithoutFaults NeverWedged
PROPERTIES CopiesAdvance EventuallyChecked
CHECK_DEADLOCK FALSE
