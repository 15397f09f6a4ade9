SPECIFICATION CoresSpec
CONSTANTS
    Cpu = {c1, c2}
    NoOwner = NoOwner
    MaxDepth = 3
    CPUs = {"a", "b"}
    Consoles = {"serial", "vga"}
    Prints = 2
    N = 3
    Machines <- MCMachines
    Processors = {1, 2}
    Depth = 3
    max_frames = 2
    UserCpus = {"a", "b"}
    Program = "init"
    Others = {"worker"}
    MaxTicks = 6
    MaxProcesses = 2
    MaxOpenFiles = 2
    Files <- MCFiles
    Segments = 2
    StackPages = 1
    max_user_string = 2
    Frames = 11
    MaxRuns = 3
CHECK_DEADLOCK FALSE
INVARIANT StacksNotShared
