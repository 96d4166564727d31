SPECIFICATION Spec
CONSTANTS
    Client = {c1, c2}
    Slot = {s1, s2}
    WorkerCount = 2
    Capacity = 2
    MaxCalls = 2
    SpawnMayFail = FALSE
    RequestMayFail = TRUE
PROPERTIES
    AbandonsOwnJob
