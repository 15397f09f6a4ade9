SPECIFICATION MemorySpec
CONSTANTS
    managed_pages = 12
    PageSize = 4
    Available <- MCAvailable
    Boot <- MCBoot
    MaxCount = 3
    GrowthStep = 8
    Reserved = 32
    page_size = 4
    Frames = 7
    Sizes = {1, 5, 6}
    Pages = 10
    MaxRanges = 3
    Lengths = {1, 4}
    Offsets = {0}
    Tables <- MCTables
    Requests <- MCRequests
    MaxCalls = 3
    Looked = {1, 5}
    CPUs = {"a", "b"}
    MaxMaps = 3
CHECK_DEADLOCK FALSE
INVARIANTS MemoryAccounted HeapIsSound RangesAccounted TablesExact StaleIsAnnounced
PROPERTIES FirstFit StaleGoesAway
