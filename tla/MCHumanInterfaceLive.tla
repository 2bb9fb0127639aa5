------------------------- MODULE MCHumanInterfaceLive -------------------------
(***************************************************************************)
(* A small instance of HumanInterfaceLive for TLC, whose liveness check    *)
(* allows no symmetry set: names that are only compared are given out in a *)
(* fixed order instead.                                                    *)
(***************************************************************************)
EXTENDS HumanInterfaceLive

CONSTANTS First, FirstWorker

(* The first request to arrive may be called First, its worker FirstWorker,*)
(* and one unused Guid is as good as another.                              *)
Named ==
    /\ started = {} /\ started' # {} => tx'[FirstWorker] = First
    /\ \A p \in Worker :
          att'[p] \notin {att[p], None} => att'[p] = CHOOSE a \in Attempt : Unused(a)

MCSpec == LiveInit /\ [][LiveNext /\ Named]_liveVars /\ Fairness

=============================================================================
