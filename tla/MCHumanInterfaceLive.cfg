SPECIFICATION MCSpec
CONSTANTS
    None = None
    Worker = {w1, w2}
    Transaction = {t1, t2}
    Attempt = {a1, a2, a3}
    Slot = {1}
    MaxAttempts = 2
    MaxRedeliveries = 1
    First = t1
    FirstWorker = w1
PROPERTIES
    EventuallyPublished
    RecordFreed
CHECK_DEADLOCK FALSE
