SPECIFICATION Spec
CONSTANTS
    BootTasks = 1
    Instance = {i1}
    Resident = {}
    Spawners = {1}
    Budget = 2
    Attempts = 1
    RestartOn = {"fault", "unhealthy"}
    Backoff = 1
    Requested = {{"supervise"}, {"supervise", "restart", "transfer"}}
    MaxRecords = 1
    MaxExports = 1
    MaxSlots = 2
    MaxTasks = 4
    MaxExportIds = 1
    MaxTime = 1
    None = None
INVARIANTS LiveExact IncarnationExclusive
PROPERTIES RestartsObeyPolicy
CHECK_DEADLOCK FALSE
