SPECIFICATION Spec
CONSTANTS
    WorkerCount = 2
    MaxThreads = 3
    MaxBlocks = 1
    WaitTypes = {"fixedtime"}
    LaunchFuncs = {"globalinit", "main"}
    AsyncParallel = {TRUE, FALSE}
    InitMaySuspend = FALSE
    SpawnMayFail = FALSE
INVARIANTS
    HeapsSeparate
