SPECIFICATION CallsSpec
CONSTANTS
    Worker = {w1, w2}
    kworker = w1
    queue_size = 3
    MaxCalls = 5
    c1 = c1
    c2 = c2
    Cpu = {c1, c2}
    BootCpu = c1
    Settings <- MCSettings
    MaxTimers = 2
    MinDelay = 1
    MaxDelay = 2
    FallbackTick = 2
    Delays = {0, 3}
    MaxHandle = 3
    Width = 12
    PeriodFs = 10
    FsPerNs = 7
    TscHz = 13
    NsPerSec = 200
    Origin = 3
    Waits = {0, 5, 40}
    MaxTicks = 60
CHECK_DEADLOCK FALSE
PROPERTIES ImplementsDeferredWork EveryCallRuns TimersAreExact EveryTimerFires TimeIsKept
