CONSTANTS
    Searches = {"automine"}
    Automines = {"automine"}
    CpuWorkers = 2
    GpuWorkers = 1
    CpuChunk = 2
    GpuChunk = 3
    CheckInterval = 2
    SolutionSets <- mcSomeOrNone
    MaxNonce = 4
    MayFail = {1, 3}
    Backends = {"native", "auto", "python"}
SPECIFICATION Spec
INVARIANTS
    ChunksAreDisjoint
    FoundIsReturned
    CancelledOnlyIfAsked
PROPERTIES
    FirstWinnerStays
    SearchEnds
    CancelEndsWorkers
