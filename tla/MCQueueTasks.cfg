SPECIFICATION Spec
CONSTANTS
    hi = hi
    lo = lo
    idle = idle
    Tasks <- TwoTasks
    Idle = idle
    Prio <- TwoPrio
    Calls <- AllCalls
    Sleepers <- HiSleeps
    Length = 1
    Values = {m1}
    None = None
    IsrCalls = {"send", "receive"}
    LockMax = 2
INVARIANTS
    TypeOK
    LockDiscipline
    ListsConsistent
    HighestPriorityRuns
    WakeupsAccounted
