SPECIFICATION Spec
CONSTANTS
    None = None
    WebWorker = {w1}
    Consumer = {p1}
    Attempt = {a1, a2, a3}
    Slot = {1}
    Request = {r1}
    Initial = {m1}
    Sender = {}
SYMMETRY MCSymmetry
INVARIANTS
    MessageAppliedAtMostOnce
    NoMessageLost
    OnlyCommittedSent
PROPERTY NoLostUpdate
CHECK_DEADLOCK FALSE
