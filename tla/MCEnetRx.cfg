SPECIFICATION Spec
CONSTANTS
    RxBdNumber = 3
    Buffers = 1
    PoolSize = 3
    MsgNumber = 2
    MboxSize = 2
    MaxFrame = 6
INVARIANTS
    TypeOK
    NothingLeaks
    InOrder
    LeftOnlyAfterDiscard
CHECK_DEADLOCK FALSE
