-------------------------- MODULE PredictorOutcomes --------------------------
(***************************************************************************)
(* What the counters of module Predictors promise about the branches that  *)
(* share them, stated with the last four outcomes each counter was trained *)
(* with as history variables.                                              *)
(***************************************************************************)
EXTENDS Predictors

VARIABLES
  satSeen,    \* per 2-bit counter: its last four outcomes, newest last
  levelSeen   \* per two-level counter: the same

hvars == <<vars, satSeen, levelSeen>>

Outcome == {"T", "N", "none"}
Nothing == <<"none", "none", "none", "none">>

Outcome4 == Outcome \X Outcome \X Outcome \X Outcome

Pushed(seen, resolveDir) ==
  <<seen[2], seen[3], seen[4], IF resolveDir THEN "T" ELSE "N">>

HInit ==
  /\ Init
  /\ satSeen = [i \in SatIndex |-> Nothing]
  /\ levelSeen = [c \in Column |-> [h \in History |-> Nothing]]

HBranch(pc, resolveDir) ==
  /\ Branch(pc, resolveDir)
  /\ satSeen' = [satSeen EXCEPT ![Sat(pc)] = Pushed(@, resolveDir)]
  /\ levelSeen' = [levelSeen EXCEPT ![Col(pc)][Two_level_BHT[Reg(pc)]] =
                     Pushed(@, resolveDir)]

HNext == \E pc \in PC, resolveDir \in BOOLEAN : HBranch(pc, resolveDir)

HSpec == HInit /\ [][HNext]_hvars

-----------------------------------------------------------------------------
(* Two equal outcomes in a row decide the next prediction of a counter,    *)
(* whatever came before; and after three equal outcomes a single different *)
(* one does not change it.                                                 *)
Decided(seen, cnt, o, predicted) ==
  /\ seen[3] = o /\ seen[4] = o => Taken(cnt) = predicted
  /\ seen[1] = o /\ seen[2] = o /\ seen[3] = o => Taken(cnt) = predicted

(* Both hold for every counter of both predictors, whichever branches      *)
(* share it and in whatever order they meet it.                            *)
Settled ==
  /\ \A i \in SatIndex :
       /\ Decided(satSeen[i], Two_bit_sat_PHT[i], "T", TRUE)
       /\ Decided(satSeen[i], Two_bit_sat_PHT[i], "N", FALSE)
  /\ \A c \in Column, h \in History :
       /\ Decided(levelSeen[c][h], Two_level_PHT[c][h], "T", TRUE)
       /\ Decided(levelSeen[c][h], Two_level_PHT[c][h], "N", FALSE)
=============================================================================
