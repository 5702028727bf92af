SPECIFICATION ContainersSpec
CONSTANTS
    Components = {"table", "set", "trace", "list", "vector", "heap", "copy", "files", "kernel"}
    TableKeys = {1, 2, 3, 4, 5}
    TableValues = {0, 1}
    TableHash <- MCHash
    TableCapacity = 4
    TableLimit = 8
    ListNodes = {1, 2, 3, 4}
    VectorItems = {1, 2}
    VectorGarbage <- Unwritten
    VectorCapacity = 1
    VectorLimit = 4
    Size = 40
    Pm <- PersistentPart
    CACHE_LINE_SIZE = 16
    Ranges <- Destinations
    Sources = {0, 11, 30}
    Fillers = {7, 200}
    MaxCalls = 2
    Paths = {n1, n2}
    Threads = {c1, c2}
    Region <- FourBlocks
    MaxThreads = 4
    Mutex = {}
    Recursive = {}
    Cond = {}
    Ops = {"PTHREAD_CREATE", "PTHREAD_JOIN", "THREAD_YIELD"}
    MaxOps = 3
SYMMETRY Symmetry
INVARIANTS
    
    SetIsOrdered
    TraceIsSorted
    ListsAreSequences
    
    
    TreesFindBestFit
    CopiesAsAsked
    FlushesAsAsked
    FilesKeepTheirMemory
    KernelThreadsApart
CHECK_DEADLOCK FALSE
