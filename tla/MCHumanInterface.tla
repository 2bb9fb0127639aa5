--------------------------- MODULE MCHumanInterface ---------------------------
(***************************************************************************)
(* Small instances of HumanInterface for TLC.                              *)
(***************************************************************************)
EXTENDS HumanInterfaceInvariant, TLC

(* The ids of workers, requests and attempts are only compared.            *)
MCSymmetry ==
    Permutations(Worker) \cup Permutations(Transaction) \cup Permutations(Attempt)

=============================================================================
