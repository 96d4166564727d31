SPECIFICATION Spec
CONSTANTS
    WorkerCount = 2
    MaxThreads = 2
    MaxBlocks = 1
    WaitTypes = {"fixedtime"}
    LaunchFuncs = {"globalinit", "main"}
    AsyncParallel = {TRUE}
    InitMaySuspend = FALSE
    SpawnMayFail = FALSE
INVARIANTS
    TimersCovered
