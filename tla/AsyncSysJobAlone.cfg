SPECIFICATION Spec
CONSTANTS
    Client = {c1}
    Slot = {s1, s2}
    WorkerCount = 2
    Capacity = 3
    MaxCalls = 4
    SpawnMayFail = TRUE
    RequestMayFail = TRUE
PROPERTIES
    AbandonedFreed
