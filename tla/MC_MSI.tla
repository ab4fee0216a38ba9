------------------------------ MODULE MC_MSI -------------------------------
(***************************************************************************)
(* Small instances of the MSI protocol for TLC.                            *)
(***************************************************************************)
EXTENDS MSITransactions, MSICoherence, TLC

CacheSymmetry == Permutations(Cache)
=============================================================================
