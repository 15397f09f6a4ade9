SPECIFICATION BusesSpec
CONSTANTS
    Places <- MCPlaces
    max_pci_devices = 3
    W = 6
    IoBits = 4
    Words = 3
    Found = 3
    Drivers = {d1, d2, d3}
    Spare = d3
    max_devices = 2
    max_drivers = 2
    Busy = FALSE
    Modules = {vda, vdb, vdc}
    max_block_devices = 4
    max_nodes = 2
    Frames = {f1, f2}
    size_ = 4
    IndexSpan = 4
    Sectors = 2
    SectorBytes = 2
    Late = FALSE
    MaxCalls = 2
    MaxLoads = 2
    MountPaths <- MCMountPaths
    Paths <- MCPaths
    Tree <- MCTree
    max_mounts = 3
    NameLength = 5
    Names = {"a", "b", "c"}
    max_files = 2
    Unit = 2
    Bytes = {1, 2}
    Offsets = {0, 3}
    Lengths = {2}
    BlockSize = 2
    Direct = 2
    PerBlock = 2
    max_open_inodes = 2
    InodesPerGroup = 2
    FileSizes = {3, 7, 10}
    Holes = {1, 3, 99}
    Directory <- MCDirectory
    Wanted = {"x", "y", "z", "gone"}
    Ranges <- MCRanges
    Listed = {0, 1, 2, 3}
CHECK_DEADLOCK FALSE
INVARIANTS DeviceUnderstood ReadsAreSound
PROPERTIES ScanIsExact NoDeviceMissed RequestsAreSound MountsResolve ImplementsStore
