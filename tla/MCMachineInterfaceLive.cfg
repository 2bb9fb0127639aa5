SPECIFICATION MCSpec
CONSTANTS
    None = None
    Worker = {w1, w2}
    Request = {r1, r2}
    Attempt = {a1, a2, a3, a4}
    Slot = {1}
    MaxCrashes = 2
    MaxOverlaps = 0
    First = r1
PROPERTY EventuallyAnswered
CHECK_DEADLOCK FALSE
