SPECIFICATION LiveSpec
CONSTANTS
    None = None
    Worker = {w1}
    Attempt = {a1, a2, a3}
    Slot = {f}
    FollowUp = f
    Initial = {m1}
    Sender = {m1}
    OtherEffect <- HttpRequests
    MaxFaults = 1
PROPERTIES
    DeleteRetried
CHECK_DEADLOCK FALSE
