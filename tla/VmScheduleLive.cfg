SPECIFICATION Spec
CONSTANTS
    WorkerCount = 2
    MaxThreads = 2
    MaxBlocks = 1
    WaitTypes = {"fixedtime", "asyncsysjobwait", "sockwait"}
    LaunchFuncs = {"globalinit", "main"}
    AsyncParallel = {TRUE}
    InitMaySuspend = FALSE
    SpawnMayFail = TRUE
PROPERTIES
    WaitsEnd
    Terminates
