SPECIFICATION CallSpec
CONSTANTS
    None = None
    Worker = {w1, w2}
    Attempt = {a1, a2, a3}
    Slot = {f}
    FollowUp = f
    Initial = {m1}
    Sender = {m1}
    OtherEffect <- HttpRequests
SYMMETRY MCSymmetry
INVARIANT CallInv
CHECK_DEADLOCK FALSE
