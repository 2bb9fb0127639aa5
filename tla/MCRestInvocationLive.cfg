SPECIFICATION MCSpec
CONSTANTS
    None = None
    Worker = {w1}
    Attempt = {a1, a2, a3, a4, a5}
    Slot = {f}
    FollowUp = f
    Initial = {m1, m2}
    Sender = {m1}
    OtherEffect <- HttpRequests
    MaxFaults = 2
PROPERTIES
    EventuallyApplied
    TokensEventuallyGone
    StoredCallsHeld
CHECK_DEADLOCK FALSE
