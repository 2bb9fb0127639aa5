CONSTANTS
  Worker = {p1, p2}
  None = None
  Attempt = {a1, a2, a3}
  Slot = {1}
  Initial = {m1, m2}
  Sender = {m1, m2}
  OtherEffect = {}
SPECIFICATION Spec
SYMMETRY MCSymmetry
INVARIANTS
  TypeOK
  AppliedAtMostOnce
  TokenUntilApplied
  NoMessageLost
  OnlyCommittedSent
  IInv
PROPERTIES
  NoLostUpdate
  ClearedOnlyWhenPublished
  ImplementsDelivery
CHECK_DEADLOCK FALSE
