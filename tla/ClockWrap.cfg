SPECIFICATION ClockSpec
CONSTANTS
    Width = 12
    PeriodFs = 50
    FsPerNs = 7
    TscHz = 13
    NsPerSec = 200
    Origin = 3
    Waits = {0, 5, 40}
    MaxTicks = 100
PROPERTY Monotonic
CHECK_DEADLOCK FALSE
