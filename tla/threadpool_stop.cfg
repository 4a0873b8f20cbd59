SPECIFICATION FairSpec
CONSTANTS
    Workers = {w1, w2}
    Producers = {p1}
    qSize = 2
    Tasks = {k1, k2}
    None = None
PROPERTIES
    StopReturns
CHECK_DEADLOCK FALSE
