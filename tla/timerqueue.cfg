SPECIFICATION FairSpec
CONSTANTS
    Timers = {a, b}
    Repeating = {b}
    Threads = {th}
    Interval = 1
    Null = Null
    None = None
    Horizon = 2
    MaxTasks = 2
INVARIANTS
    IInv
    SetAndMapAgree
    OneOwner
    NeverEarly
    ArmedInTime
PROPERTIES
    EveryTimerExpires
CHECK_DEADLOCK FALSE
