--------------------------- MODULE MCRestInvocation ---------------------------
(***************************************************************************)
(* Small instances of RestInvocation for TLC.                              *)
(***************************************************************************)
EXTENDS RestInvocationInvariant, TLC

MCSymmetry == Permutations(Worker) \cup Permutations(Attempt)

=============================================================================
