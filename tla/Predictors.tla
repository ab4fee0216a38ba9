----------------------------- MODULE Predictors -----------------------------
(***************************************************************************)
(* The 2-bit saturating and the two-level branch predictor of              *)
(* Lab2/cbp4-assign2/predictor.cc, driven by the loop of main.cc: for each *)
(* conditional branch of the trace both predict, then both are updated     *)
(* with the outcome.  They share no state; they share the branches.        *)
(*                                                                         *)
(* All table sizes are powers of two, so a mask is a remainder and a shift *)
(* a quotient.                                                             *)
(***************************************************************************)
EXTENDS Integers

CONSTANTS
  PC,                  \* addresses of conditional branches
  TWO_BIT_SAT_SIZE,    \* counters of the 2-bit predictor (4096)
  TWO_LEVEL_COLUMNS,   \* pattern tables of the two-level predictor (8)
  TWO_LEVEL_BHT_SIZE,  \* history registers (512)
  TWO_LEVEL_HISTORIES  \* values of a history register (64)

ASSUME PredictorsAssumption ==
  /\ PC \subseteq Nat
  /\ TWO_BIT_SAT_SIZE \in Nat \ {0} /\ TWO_LEVEL_COLUMNS \in Nat \ {0}
  /\ TWO_LEVEL_BHT_SIZE \in Nat \ {0} /\ TWO_LEVEL_HISTORIES \in Nat \ {0}

S_NT == 0
W_NT == 1
W_T == 2
S_T == 3

Counter == {S_NT, W_NT, W_T, S_T}

SatIndex == 0 .. (TWO_BIT_SAT_SIZE - 1)
Column == 0 .. (TWO_LEVEL_COLUMNS - 1)
Register == 0 .. (TWO_LEVEL_BHT_SIZE - 1)
History == 0 .. (TWO_LEVEL_HISTORIES - 1)

VARIABLES
  Two_bit_sat_PHT,
  Two_level_BHT,
  Two_level_PHT,
  branch          \* the last branch: its outcome and what was predicted

vars == <<Two_bit_sat_PHT, Two_level_BHT, Two_level_PHT, branch>>

-----------------------------------------------------------------------------
Sat(pc) == pc % TWO_BIT_SAT_SIZE
Col(pc) == pc % TWO_LEVEL_COLUMNS
Reg(pc) == (pc \div TWO_LEVEL_COLUMNS) % TWO_LEVEL_BHT_SIZE

Init ==
  /\ Two_bit_sat_PHT = [i \in SatIndex |-> W_T]
  /\ Two_level_BHT = [r \in Register |-> 0]
  /\ Two_level_PHT = [c \in Column |-> [h \in History |-> W_NT]]
  /\ branch = [met |-> FALSE]

Taken(cnt) == cnt \in {W_T, S_T}

GetPrediction_2bitsat(pc) == Taken(Two_bit_sat_PHT[Sat(pc)])
GetPrediction_2level(pc) == Taken(Two_level_PHT[Col(pc)][Two_level_BHT[Reg(pc)]])

(* Mutant: the counter restarts in the middle when the branch turns. *)
Train_restart(cnt, resolveDir) ==
  IF resolveDir THEN (IF cnt \in {W_T, S_T} THEN S_T ELSE W_NT)
                ELSE (IF cnt \in {S_NT, W_NT} THEN S_NT ELSE W_T)

Train(cnt, resolveDir) ==
  IF resolveDir THEN (IF cnt # S_T THEN cnt + 1 ELSE cnt)
                ELSE (IF cnt # S_NT THEN cnt - 1 ELSE cnt)

UpdatePredictor_2bitsat(pc, resolveDir) ==
  Two_bit_sat_PHT' = [Two_bit_sat_PHT EXCEPT ![Sat(pc)] = Train(@, resolveDir)]

(* Mutant: the mask keeps a bit too many. *)
Shifted_long(h, resolveDir) ==
  (2 * h + (IF resolveDir THEN 1 ELSE 0)) % (2 * TWO_LEVEL_HISTORIES)

Shifted(h, resolveDir) ==
  (2 * h + (IF resolveDir THEN 1 ELSE 0)) % TWO_LEVEL_HISTORIES

(* Mutant: the history is shifted before the counter is looked up. *)
UpdatePredictor_2level_early(pc, resolveDir) ==
  /\ Two_level_PHT' =
       [Two_level_PHT EXCEPT ![Col(pc)][Shifted(Two_level_BHT[Reg(pc)], resolveDir)] =
          Train(@, resolveDir)]
  /\ Two_level_BHT' = [Two_level_BHT EXCEPT ![Reg(pc)] = Shifted(@, resolveDir)]

UpdatePredictor_2level(pc, resolveDir) ==
  /\ Two_level_PHT' = [Two_level_PHT EXCEPT ![Col(pc)][Two_level_BHT[Reg(pc)]] =
                         Train(@, resolveDir)]
  /\ Two_level_BHT' = [Two_level_BHT EXCEPT ![Reg(pc)] = Shifted(@, resolveDir)]

(* One conditional branch of the trace; main only counts mispredictions. *)
Branch(pc, resolveDir) ==
  /\ branch' = [met |-> TRUE, pc |-> pc, taken |-> resolveDir,
                predDir_2bitsat |-> GetPrediction_2bitsat(pc),
                predDir_2level  |-> GetPrediction_2level(pc)]
  /\ UpdatePredictor_2bitsat(pc, resolveDir)
  /\ UpdatePredictor_2level(pc, resolveDir)

Next == \E pc \in PC, resolveDir \in BOOLEAN : Branch(pc, resolveDir)

Spec == Init /\ [][Next]_vars

-----------------------------------------------------------------------------
(* The counters stay within two bits and a history register within its     *)
(* width, so every look-up is within its table.                            *)
TypeOK ==
  /\ Two_bit_sat_PHT \in [SatIndex -> Counter]
  /\ Two_level_BHT \in [Register -> History]
  /\ Two_level_PHT \in [Column -> [History -> Counter]]

(* Two branches of different columns may share a history register, and     *)
(* then one sees histories the other made.  Still, once all branches of a  *)
(* column keep going the same way, the two-level predictor misses them     *)
(* only finitely often: the counter it trains is the one it predicted with *)
(* (UpdatePredictor_2level shifts the history last).                       *)
SteadyColumnLearned ==
  \A c \in Column, d \in BOOLEAN :
    <>[][branch'.met /\ Col(branch'.pc) = c => branch'.taken = d]_vars =>
      <>[][branch'.met /\ Col(branch'.pc) = c => branch'.predDir_2level = d]_vars
=============================================================================
