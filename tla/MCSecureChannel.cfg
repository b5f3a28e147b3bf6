SPECIFICATION Spec
CONSTANTS
    Frames = {f1, f2, f3, f4, f5, f6}
    Threads = {t1, t2}
    W = 3
SYMMETRY Symmetric
INVARIANTS
    NoncesUnique
    WindowExact
    NoFalseReject
PROPERTIES
    DeliversAtMostOnce
