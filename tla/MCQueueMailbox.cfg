SPECIFICATION FairSpec
CONSTANTS
    hi = hi
    lo = lo
    idle = idle
    Tasks <- TwoTasks
    Idle = idle
    Prio <- TwoPrio
    Calls <- ServerCalls
    Sleepers <- HiSleeps
    Length = 2
    Values = {m1, m2}
    None = None
    IsrCalls = {"send"}
    LockMax = 2
PROPERTIES
    MailboxSpec
    ParkedReceiverServed
    ParkedSenderReleased
