SPECIFICATION Spec
CONSTANTS
    None = None
    N = 2
    Conns = {c1, c2}
    Fds = {f1, f2}
    Usage = {"sendInMessage", "closeOnComplete"}
SYMMETRY Symmetry
INVARIANTS
    ConnMapExclusive
