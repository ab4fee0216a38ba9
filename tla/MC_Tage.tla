------------------------------- MODULE MC_Tage -------------------------------
(* Three banks of four entries; an int of 4 bits and a history of 8 stand  *)
(* for 32 and 128, so that a history length reaches the width of an int    *)
(* and another the width of the history, as in the code.                   *)
EXTENDS Tage

CONSTANT
  MaxFree      \* branches with any outcome; afterwards the outcome stays

VARIABLE free

MCInit == TInit /\ free = MaxFree

MCNext ==
  \E pc \in PC, resolveDir \in BOOLEAN :
    /\ free = 0 => resolveDir = branch.taken
    /\ TBranch(pc, resolveDir)
    /\ free' = IF free = 0 THEN 0 ELSE free - 1

MCSpec == MCInit /\ [][MCNext]_<<tageVars, free>>
=============================================================================
