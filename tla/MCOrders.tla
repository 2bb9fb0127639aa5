------------------------------- MODULE MCOrders -------------------------------
(***************************************************************************)
(* Small instances of OrdersPartition for TLC.                             *)
(***************************************************************************)
EXTENDS OrdersPartition, TLC

MCSymmetry == Permutations(Attempt) \cup Permutations(WebWorker)

=============================================================================
