-------------------------- MODULE MCPaymentProvider --------------------------
(***************************************************************************)
(* Small instances of PaymentProviderPartition for TLC.                    *)
(***************************************************************************)
EXTENDS PaymentProviderInvariant, TLC

MCSymmetry == Permutations(Attempt)

=============================================================================
