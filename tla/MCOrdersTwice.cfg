SPECIFICATION Spec
CONSTANTS
    None = None
    WebWorker = {w1, w2}
    Consumer = {p1}
    Attempt = {a1, a2, a3}
    Slot = {1}
    Transaction = {t1}
    MaxAttempts = 2
    Initial = {m1}
    Sender = {}
SYMMETRY MCSymmetry
INVARIANT MessageProcessedOnce
CHECK_DEADLOCK FALSE
