---------------------------- MODULE MC_Predictors ----------------------------
(* The predictors on tables small enough for all branches and outcomes:    *)
(* two columns, two history registers, histories of one bit.               *)
EXTENDS Predictors

(* Every combination of a column and a register. *)
AllPCs == 0 .. 3
=============================================================================
