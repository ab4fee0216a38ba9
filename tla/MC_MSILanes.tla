---------------------------- MODULE MC_MSILanes ----------------------------
(***************************************************************************)
(* Small instances of MSILanes for TLC.                                    *)
(***************************************************************************)
EXTENDS MSILanes, TLC

CacheSymmetry == Permutations(Cache)
=============================================================================
