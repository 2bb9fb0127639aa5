-------------------------- MODULE MCMachineInterface --------------------------
(***************************************************************************)
(* Small instances of MachineInterface for TLC.                            *)
(***************************************************************************)
EXTENDS MachineInterfaceInvariant, TLC

(* The ids of workers, requests and attempts are only compared.            *)
MCSymmetry ==
    Permutations(Worker) \cup Permutations(Request) \cup Permutations(Attempt)

=============================================================================
