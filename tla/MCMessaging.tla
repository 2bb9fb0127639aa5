----------------------------- MODULE MCMessaging -----------------------------
(* Model checking of Messaging: two messages from outside, both of which   *)
(* may send, handled by two workers.                                       *)
EXTENDS MessagingInvariant, TLC

MCSymmetry ==
    Permutations(Worker) \cup Permutations(Attempt)

=============================================================================
