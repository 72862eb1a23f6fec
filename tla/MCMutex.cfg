SPECIFICATION MCSpec
CONSTANTS
    idle = idle
    low = low
    mid = mid
    high = high
    Tasks <- MCTasks
    Idle = idle
    Nobody = Nobody
    BasePriority <- MCBasePriority
    Mutexes = {1}
    Uses <- OneMutex
    Waits <- AllWaits
    Sleepers = {low, mid, high}
INVARIANTS
    TypeOK
    BaseWhenNoneHeld
    NoInversion
    InheritedForAWaiter
    BitsNameReadyLists
PROPERTIES
    HighestGetsMutex
