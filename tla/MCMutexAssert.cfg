SPECIFICATION Spec
CONSTANTS
    idle = idle
    low = low
    mid = mid
    high = high
    Tasks <- MCTasks
    Idle = idle
    Nobody = Nobody
    BasePriority <- MCBasePriority
    Mutexes = {1}
    Uses <- OneMutex
    Waits <- AllWaits
    Sleepers = {low, mid, high}
INVARIANTS
    AssertionHolds
CHECK_DEADLOCK FALSE
