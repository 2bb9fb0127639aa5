SPECIFICATION LiveSpec
CONSTANTS
    None = None
    Worker = {w1, w2}
    Request = {r1, r2}
    Attempt = {a1, a2, a3, a4}
    Slot = {}
    MaxCrashes = 1
    MaxOverlaps = 1
PROPERTY EventuallyAnswered
CHECK_DEADLOCK FALSE
