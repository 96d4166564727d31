SPECIFICATION Spec
CONSTANTS
    WorkerCount = 2
    MaxThreads = 2
    MaxBlocks = 1
    WaitTypes = {"fixedtime", "asyncsysjobwait", "sockwait"}
    LaunchFuncs = {"globalinit", "main"}
    AsyncParallel = {FALSE}
    InitMaySuspend = TRUE
    SpawnMayFail = FALSE
INVARIANTS
    RunExclusive
    ResumeInfoFits
    NoLostWakeup
    MainWorkerEndsLast
PROPERTIES
    ImplementsContexts
