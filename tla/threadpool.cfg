SPECIFICATION FairSpec
CONSTANTS
    Workers = {w1, w2}
    Producers = {p1}
    qSize = 2
    Tasks = {k1, k2, k3, k4}
    None = None
INVARIANTS
    IInv
    NoStrandedTask
    NoStrandedProducer
PROPERTIES
    AddedIsDone
    AddTaskReturns
CHECK_DEADLOCK FALSE
