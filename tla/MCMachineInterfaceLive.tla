------------------------ MODULE MCMachineInterfaceLive ------------------------
(***************************************************************************)
(* A small instance of MachineInterfaceLive for TLC, whose liveness check  *)
(* allows no symmetry set: names that are only compared are given out in a *)
(* fixed order instead.                                                    *)
(***************************************************************************)
EXTENDS MachineInterfaceLive

CONSTANT First

(* The first request to arrive may be called First, and one unused Guid is *)
(* as good as another.                                                     *)
Named ==
    /\ (\E r \in Request : client'[r] # "new") => client'[First] # "new"
    /\ \A p \in Worker :
          att'[p] \notin {att[p], None} => att'[p] = CHOOSE a \in Attempt : Unused(a)

MCSpec == LiveInit /\ [][LiveNext /\ Named]_liveVars /\ Fairness

=============================================================================
