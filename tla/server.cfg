SPECIFICATION FairSpec
\* The process ends.
CHECK_DEADLOCK FALSE
CONSTANTS
    None = None
    Servers = {s1, s2}
    N = 2
    Nums <- MCNums
    Clients = {c1, c2, c3}
    MaxFds = 2
INVARIANTS
    IInv
    NoLostClient
    TakeTurns
PROPERTIES
    ClientIsServed
    DestroyEnds
