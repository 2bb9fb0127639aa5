SPECIFICATION Spec
CONSTANTS
    None = None
    Worker = {w1}
    Transaction = {t1}
    Attempt = {a1, a2}
    Slot = {1}
    MaxAttempts = 2
INVARIANTS
    TokenUntilProcessed
CHECK_DEADLOCK FALSE
