SPECIFICATION Spec
CONSTANTS
    None = None
    N = 1
    Conns = {c1, c2}
    Fds = {f1, f2}
    Usage = {"sendFromThread"}
SYMMETRY Symmetry
INVARIANTS
    NoUseAfterFree
