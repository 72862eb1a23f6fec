SPECIFICATION Spec
CONSTANTS
    idle = idle
    low = low
    mid = mid
    high = high
    Tasks <- MCTasks
    Idle = idle
    Nobody = Nobody
    BasePriority <- MCLowPriority
    Mutexes = {1, 2}
    Uses <- TwoMutexes
    Waits <- InfiniteWaits
    Sleepers = {mid, high}
INVARIANTS
    HighestPriorityRuns
CHECK_DEADLOCK FALSE
