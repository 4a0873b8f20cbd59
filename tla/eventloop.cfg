SPECIFICATION FairSpec
CONSTANTS
    Loop = loop
    Threads = {t1, t2}
    Tasks = {k1, k2}
    Delaying = {t1, loop}
INVARIANTS
    IInv
    NoLostTask
    NoLostQuit
PROPERTIES
    ImplementsSerialExecutor
    AcceptedIsRun
    QuitEventuallyExits
CHECK_DEADLOCK FALSE
