SPECIFICATION LiveSpec
CONSTANTS
    None = None
    Worker = {w1, w2}
    Attempt = {a1, a2}
    Slot = {f}
    FollowUp = f
    Initial = {m1}
    Sender = {}
    OtherEffect <- HttpRequests
    MaxFaults = 1
PROPERTY SomeAttemptWins
CHECK_DEADLOCK FALSE
