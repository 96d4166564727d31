SPECIFICATION Spec
CONSTANTS
    Client = {c1, c2}
    Slot = {s1, s2}
    WorkerCount = 2
    Capacity = 2
    MaxCalls = 2
    SpawnMayFail = TRUE
    RequestMayFail = FALSE
INVARIANTS
    JobsInUseAreAllocated
PROPERTIES
    ResultsStay
    ImplementsJobService
    JobsAnswered
