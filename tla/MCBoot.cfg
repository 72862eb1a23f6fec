CONSTANTS
    None = None
    TxBdNumber = 3
    MaxFrame = 2
SPECIFICATION Spec
INVARIANTS TypeOK AssertionsHold
PROPERTIES NothingOverlooked
CHECK_DEADLOCK FALSE
