SPECIFICATION FairSpec
CONSTANTS
    None = None
    N = 1
    Conns = {c1, c2, c3}
    Fds = {f1, f2}
    Usage = {"sendInMessage", "closeOnComplete"}
INVARIANTS
    IInv
    NoFailure
    RemovedOnce
    MapIsAccurate
PROPERTIES
    ImplementsConnLife
    ClosingIsFreed
