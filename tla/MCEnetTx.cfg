SPECIFICATION FairSpec
CONSTANTS
    TxBdNumber = 3
    Sizes = {1, 2}
    Frames = 4
    TimerQueueLength = 2
INVARIANTS
    TypeOK
    NoLostWakeup
PROPERTIES
    NoneLostNorSwapped
    MailboxSpec
    SendReturns
