SPECIFICATION Spec
\* The threads may stop logging.
CHECK_DEADLOCK FALSE
CONSTANTS
    Null = Null
    Threads = {t1, t2}
    Statements <- MCStatements
    MaxLines = 2
    kBufferSize = 24
    kMaxNumericSize = 6
INVARIANTS
    IInv
    LinesAreWhole
    OutputInOrder
