SPECIFICATION PeripheralsSpec
CONSTANTS
    MaxKeys = 4
    Silent = {2}
    Reloads = 1
    Early = FALSE
    width = 3
    height = 2
    tab = 2
    Letters = {"a", "b"}
    MaxPuts = 7
    Seconds = 3
    Minutes = 2
    MaxTicks = 2
    Attempts = 2
    Chips <- MCChips
    FirstYear = 2000
    LastYear = 2099
    FirstDay = 10957
    Machines <- MCMachines
    max_irqs = 2
    max_cpus = 2
    entry_count = 2
    Lines <- MCLines
    Keys <- MCKeys
    cmdline_capacity = 6
    max_words = 2
CHECK_DEADLOCK FALSE
INVARIANTS BootDataUnderstood ShowsTheLastLines TimeOfDayExact
PROPERTY InputWorks
