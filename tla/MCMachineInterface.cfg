SPECIFICATION Spec
CONSTANTS
    None = None
    Worker = {w1, w2}
    Request = {r1, r2}
    Attempt = {a1, a2}
    Slot = {1}
SYMMETRY MCSymmetry
INVARIANTS
    TypeOK
    AppliedAtMostOnce
    Answerable
    PublishedOrHeld
    CommittedOnly
    RefusedOnlyAfterDelete
    IInv
PROPERTIES
    NoLostUpdate
    ImplementsRequest
CHECK_DEADLOCK FALSE
