------------------------- MODULE MCRestInvocationLive -------------------------
(***************************************************************************)
(* A small instance of RestInvocationLive for TLC, whose liveness check    *)
(* allows no symmetry set: one new Guid is as good as another, so that a   *)
(* new attempt takes a fixed one of those that BeginAttempt allows.        *)
(***************************************************************************)
EXTENDS RestInvocationLive

New(a) == Unused(a) /\ server[a] = "none" /\ \A q \in Worker : a \notin aborts[q]

Named ==
    \A p \in Worker :
        att'[p] \notin {att[p], None} => att'[p] = CHOOSE a \in Attempt : New(a)

MCSpec == LiveInit /\ [][LiveNext /\ Named]_liveVars /\ Fairness

=============================================================================
