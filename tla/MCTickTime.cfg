SPECIFICATION Spec
CONSTANTS
    Tasks = {a, b, idle}
    Idle = idle
    Sleepers = {b}
    Periodic = {b}
    Waiters = {a}
    Nobody = Nobody
    Wrap = 4
    MaxNow = 8
    MaxPended = 2
INVARIANTS
    TypeOK
    NoOversleep
    DelayedListEmptyAtSwitch
    NeverTimesOutEarly
    TimesOutWhenDue
PROPERTIES
    WokenWhenDue
    PeriodKept
