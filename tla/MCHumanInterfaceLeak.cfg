SPECIFICATION Spec
CONSTANTS
    None = None
    Worker = {w1, w2}
    Transaction = {t1, t2}
    Attempt = {a1, a2, a3}
    Slot = {1}
    MaxAttempts = 2
SYMMETRY MCSymmetry
INVARIANTS
    TimedOutTokensRemoved
CHECK_DEADLOCK FALSE
