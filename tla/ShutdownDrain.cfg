SPECIFICATION Spec
CONSTANTS
    JobChannelSize = 1
    ResultChannelSize = 1
    SuccessChannelSize = 1
    FailureChannelSize = 1
    AlertChannelSize = 1
    WorkerCount = 2
    HTTPSemCount = 1
    SuccessWorkerCount = 1
    FailureWorkerCount = 1
    AlertWorkerCount = 1
    BatchSize = 2
    MaxFetched = 2
INVARIANT FullyProcessed
CHECK_DEADLOCK FALSE
