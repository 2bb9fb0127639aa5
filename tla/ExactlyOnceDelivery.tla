------------------------- MODULE ExactlyOnceDelivery -------------------------
(***************************************************************************)
(* What exactly-once processing promises, with nothing of how it is done:  *)
(* a pending message is applied in one atomic step, once, and the messages *)
(* that it sends become pending in the same step.  No message is pending   *)
(* twice, and none is dropped.                                             *)
(***************************************************************************)
EXTENDS Naturals

CONSTANTS Message, Initial

VARIABLES
    pending,    \* sent and not yet applied
    applied     \* applied[m]: how often m changed the business data

deliveryVars == <<pending, applied>>

DeliveryInit ==
    /\ pending = Initial
    /\ applied = [m \in Message |-> 0]

ApplyOnce(m) ==
    /\ m \in pending
    /\ applied[m] = 0
    /\ applied' = [applied EXCEPT ![m] = 1]
    /\ \E sent \in SUBSET Message :
          /\ \A n \in sent : n \notin pending /\ applied[n] = 0
          /\ pending' = (pending \ {m}) \cup sent

DeliveryNext == \E m \in Message : ApplyOnce(m)

DeliverySpec == DeliveryInit /\ [][DeliveryNext]_deliveryVars

=============================================================================
