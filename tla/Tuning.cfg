CONSTANTS
    Threads = {t1, t2}
    NoThread = NoThread
    Machines <- mcMachines
    RetriedCount <- mcRetriedCount
    MaxFaults = 1
    MaxRestarts = 1
SPECIFICATION Spec
CHECK_DEADLOCK FALSE
SYMMETRY Symmetry
INVARIANTS
    OneAnswer
    BenchmarkedOnce
    FastestUnlessDisturbed
