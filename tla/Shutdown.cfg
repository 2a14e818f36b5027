SPECIFICATION FairSpec
CONSTANTS
    JobChannelSize = 1
    ResultChannelSize = 1
    SuccessChannelSize = 1
    FailureChannelSize = 1
    AlertChannelSize = 1
    WorkerCount = 2
    HTTPSemCount = 2
    SuccessWorkerCount = 1
    FailureWorkerCount = 2
    AlertWorkerCount = 1
    BatchSize = 2
    MaxFetched = 4
INVARIANTS TypeOK StagesNeverPanic DrainedBeforeExit DrainNeverStuck
PROPERTIES DrainAdvances ShutdownCompletes
CHECK_DEADLOCK FALSE
