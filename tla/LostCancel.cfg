CONSTANTS
    Searches = {"automine"}
    Automines = {"automine"}
    CpuWorkers = 0
    GpuWorkers = 1
    CpuChunk = 2
    GpuChunk = 3
    CheckInterval = 2
    SolutionSets <- mcNone
    MaxNonce = 2
    MayFail = {}
    Backends = {"native"}
SPECIFICATION Spec
PROPERTIES
    CancelEndsCall
