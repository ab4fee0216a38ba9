--------------------------- MODULE PredictorProofs ---------------------------
(***************************************************************************)
(* For tables of any size, any set of branch addresses and any trace: the  *)
(* look-ups stay within their tables, and the counters of both predictors  *)
(* are settled by what they were trained with.                             *)
(***************************************************************************)
EXTENDS PredictorOutcomes, TLAPS

(* What the last four outcomes say about a counter, strong enough to be    *)
(* kept by a further outcome: one keeps it off the far end, two put it on  *)
(* their side, three leave it saturated.                                   *)
Bound(seen, cnt) ==
  /\ seen[4] = "T" => cnt # S_NT
  /\ seen[4] = "N" => cnt # S_T
  /\ seen[3] = "T" /\ seen[4] = "T" => cnt \in {W_T, S_T}
  /\ seen[3] = "N" /\ seen[4] = "N" => cnt \in {S_NT, W_NT}
  /\ seen[2] = "T" /\ seen[3] = "T" /\ seen[4] = "T" => cnt = S_T
  /\ seen[2] = "N" /\ seen[3] = "N" /\ seen[4] = "N" => cnt = S_NT
  /\ seen[1] = "T" /\ seen[2] = "T" /\ seen[3] = "T" => cnt \in {W_T, S_T}
  /\ seen[1] = "N" /\ seen[2] = "N" /\ seen[3] = "N" => cnt \in {S_NT, W_NT}

HTypeOK ==
  /\ TypeOK
  /\ satSeen \in [SatIndex -> Outcome4]
  /\ levelSeen \in [Column -> [History -> Outcome4]]

HInv ==
  /\ HTypeOK
  /\ \A i \in SatIndex : Bound(satSeen[i], Two_bit_sat_PHT[i])
  /\ \A c \in Column, h \in History : Bound(levelSeen[c][h], Two_level_PHT[c][h])

(* The masks of the index computations keep an index within its table. *)
LEMMA Indices ==
  ASSUME NEW pc \in PC
  PROVE  Sat(pc) \in SatIndex /\ Col(pc) \in Column /\ Reg(pc) \in Register
<1>1. pc \in Nat
  BY Zenon, PredictorsAssumption
<1>2. \A n \in Nat \ {0}, x \in Nat : x % n \in 0 .. (n - 1)
  BY SMT
<1>3. (pc \div TWO_LEVEL_COLUMNS) \in Nat
  BY <1>1, PredictorsAssumption, SMT
<1> QED
  BY Zenon, <1>1, <1>2, <1>3, PredictorsAssumption DEF Sat, Col, Reg, SatIndex, Column, Register

(* Shifting an outcome into a history keeps it within its width. *)
LEMMA ShiftedType ==
  ASSUME NEW h \in History, NEW d \in BOOLEAN
  PROVE  Shifted(h, d) \in History
<1>1. \A n \in Nat \ {0}, x \in Nat : x % n \in 0 .. (n - 1)
  BY SMT
<1>2. CASE d
  <2>1. 2 * h + 1 \in Nat
    BY PredictorsAssumption, SMT DEF History
  <2>2. Shifted(h, d) = (2 * h + 1) % TWO_LEVEL_HISTORIES
    BY Zenon, <1>2 DEF Shifted
  <2> QED
    BY Zenon, <2>1, <2>2, <1>1, PredictorsAssumption DEF History
<1>3. CASE ~d
  <2>1. 2 * h + 0 \in Nat
    BY PredictorsAssumption, SMT DEF History
  <2>2. Shifted(h, d) = (2 * h + 0) % TWO_LEVEL_HISTORIES
    BY Zenon, <1>3 DEF Shifted
  <2> QED
    BY Zenon, <2>1, <2>2, <1>1, PredictorsAssumption DEF History
<1> QED
  BY Zenon, <1>2, <1>3

(* Training a counter with one more outcome keeps its bound. *)
LEMMA TrainBound ==
  ASSUME NEW seen \in Outcome4, NEW cnt \in Counter, NEW d \in BOOLEAN,
         Bound(seen, cnt)
  PROVE  /\ Train(cnt, d) \in Counter
         /\ Pushed(seen, d) \in Outcome4
         /\ Bound(Pushed(seen, d), Train(cnt, d))
<1> DEFINE new == Pushed(seen, d)
<1>1. /\ new[1] = seen[2] /\ new[2] = seen[3] /\ new[3] = seen[4]
      /\ new[4] = IF d THEN "T" ELSE "N"
      /\ new \in Outcome4
  BY Zenon DEF Pushed, Outcome4, Outcome
<1>2. /\ cnt \in {0, 1, 2, 3}
      /\ Train(cnt, d) = IF d THEN (IF cnt # 3 THEN cnt + 1 ELSE cnt)
                              ELSE (IF cnt # 0 THEN cnt - 1 ELSE cnt)
  BY Zenon DEF Counter, Train, S_NT, W_NT, W_T, S_T
<1>3. Train(cnt, d) \in Counter
  BY <1>2 DEF Counter, S_NT, W_NT, W_T, S_T
<1> HIDE DEF new
<1>4. Bound(new, Train(cnt, d))
  <2>1. CASE d
    BY <1>1, <1>2, <2>1 DEF Bound, S_NT, W_NT, W_T, S_T
  <2>2. CASE ~d
    BY <1>1, <1>2, <2>2 DEF Bound, S_NT, W_NT, W_T, S_T
  <2> QED
    BY Zenon, <2>1, <2>2
<1> QED
  BY Zenon, <1>1, <1>3, <1>4 DEF new

(* Fresh counters have seen nothing. *)
LEMMA HInitInv == HInit => HInv
<1> SUFFICES ASSUME HInit PROVE HInv
  BY Zenon
<1>1. HTypeOK
  BY PredictorsAssumption
  DEF HInit, Init, HTypeOK, TypeOK, Nothing, Outcome4, Outcome, Counter, History,
      S_NT, W_NT, W_T, S_T
<1>2. \A cnt : Bound(Nothing, cnt)
  BY Zenon DEF Bound, Nothing
<1> QED
  BY Zenon, <1>1, <1>2 DEF HInit, HInv

(* A branch trains one counter of each predictor and leaves the others.    *)
LEMMA HStepInv == HInv /\ [HNext]_hvars => HInv'
<1> SUFFICES ASSUME HInv, [HNext]_hvars PROVE HInv'
  BY Zenon
<1>1. CASE UNCHANGED hvars
  BY Zenon, <1>1 DEF hvars, vars, HInv, HTypeOK, TypeOK
<1>2. CASE HNext
  <2>1. PICK pc \in PC, d \in BOOLEAN : HBranch(pc, d)
    BY Zenon, <1>2 DEF HNext
  <2> DEFINE s == Sat(pc)
             c == Col(pc)
             r == Reg(pc)
             h == Two_level_BHT[r]
  <2>2. s \in SatIndex /\ c \in Column /\ r \in Register
    BY Zenon, Indices
  <2>3. h \in History
    BY Zenon, <2>2 DEF HInv, HTypeOK, TypeOK
  <2>4. /\ Two_bit_sat_PHT' = [Two_bit_sat_PHT EXCEPT ![s] = Train(@, d)]
        /\ satSeen' = [satSeen EXCEPT ![s] = Pushed(@, d)]
        /\ Two_level_PHT' = [Two_level_PHT EXCEPT ![c][h] = Train(@, d)]
        /\ levelSeen' = [levelSeen EXCEPT ![c][h] = Pushed(@, d)]
        /\ Two_level_BHT' = [Two_level_BHT EXCEPT ![r] = Shifted(@, d)]
    BY Zenon, <2>1 DEF HBranch, Branch, UpdatePredictor_2bitsat, UpdatePredictor_2level
  <2> HIDE DEF s, c, r, h
  <2>5. /\ Train(Two_bit_sat_PHT[s], d) \in Counter
        /\ Pushed(satSeen[s], d) \in Outcome4
        /\ Bound(Pushed(satSeen[s], d), Train(Two_bit_sat_PHT[s], d))
    <3>1. satSeen[s] \in Outcome4 /\ Two_bit_sat_PHT[s] \in Counter
      BY Zenon, <2>2 DEF HInv, HTypeOK, TypeOK
    <3> QED
      BY Zenon, <3>1, <2>2, TrainBound DEF HInv
  <2>6. /\ Train(Two_level_PHT[c][h], d) \in Counter
        /\ Pushed(levelSeen[c][h], d) \in Outcome4
        /\ Bound(Pushed(levelSeen[c][h], d), Train(Two_level_PHT[c][h], d))
    <3>1. levelSeen[c][h] \in Outcome4 /\ Two_level_PHT[c][h] \in Counter
      BY Zenon, <2>2, <2>3 DEF HInv, HTypeOK, TypeOK
    <3> QED
      BY Zenon, <3>1, <2>2, <2>3, TrainBound DEF HInv
  <2>7. Two_level_BHT' \in [Register -> History]
    <3>1. Two_level_BHT[r] \in History
      BY Zenon, <2>2 DEF HInv, HTypeOK, TypeOK
    <3>2. Shifted(Two_level_BHT[r], d) \in History
      BY Zenon, <3>1, ShiftedType
    <3> QED
      BY Zenon, <3>2, <2>2, <2>4 DEF HInv, HTypeOK, TypeOK
  <2>8. HTypeOK'
    BY Zenon, <2>2, <2>3, <2>4, <2>5, <2>6, <2>7 DEF HInv, HTypeOK, TypeOK
  <2>9. ASSUME NEW i \in SatIndex
        PROVE  Bound(satSeen'[i], Two_bit_sat_PHT'[i])
    <3>1. CASE i = s
      <4>1. /\ satSeen'[i] = Pushed(satSeen[s], d)
            /\ Two_bit_sat_PHT'[i] = Train(Two_bit_sat_PHT[s], d)
        BY Zenon, <3>1, <2>2, <2>4 DEF HInv, HTypeOK, TypeOK
      <4> QED
        BY Zenon, <4>1, <2>5
    <3>2. CASE i # s
      <4>1. satSeen'[i] = satSeen[i] /\ Two_bit_sat_PHT'[i] = Two_bit_sat_PHT[i]
        BY Zenon, <3>2, <2>4 DEF HInv, HTypeOK, TypeOK
      <4> QED
        BY Zenon, <4>1 DEF HInv
    <3> QED
      BY Zenon, <3>1, <3>2
  <2>10. ASSUME NEW x \in Column, NEW y \in History
         PROVE  Bound(levelSeen'[x][y], Two_level_PHT'[x][y])
    <3>1. CASE x = c /\ y = h
      <4>1. /\ levelSeen'[x][y] = Pushed(levelSeen[c][h], d)
            /\ Two_level_PHT'[x][y] = Train(Two_level_PHT[c][h], d)
        BY Zenon, <3>1, <2>2, <2>3, <2>4 DEF HInv, HTypeOK, TypeOK
      <4> QED
        BY Zenon, <4>1, <2>6
    <3>2. CASE ~(x = c /\ y = h)
      <4>1. /\ levelSeen'[x][y] = levelSeen[x][y]
            /\ Two_level_PHT'[x][y] = Two_level_PHT[x][y]
        BY Zenon, <3>2, <2>4 DEF HInv, HTypeOK, TypeOK
      <4> QED
        BY Zenon, <4>1 DEF HInv
    <3> QED
      BY Zenon, <3>1, <3>2
  <2> QED
    BY Zenon, <2>8, <2>9, <2>10 DEF HInv
<1> QED
  BY Zenon, <1>1, <1>2

(* The inductive bound decides the predictions. *)
LEMMA BoundSettles == HInv => Settled
<1> SUFFICES ASSUME NEW seen \in Outcome4, NEW cnt \in Counter, Bound(seen, cnt)
             PROVE  Decided(seen, cnt, "T", TRUE) /\ Decided(seen, cnt, "N", FALSE)
  BY Zenon DEF HInv, HTypeOK, TypeOK, Settled
<1>1. /\ cnt \in {W_T, S_T} => Taken(cnt) = TRUE
      /\ cnt \in {S_NT, W_NT} => Taken(cnt) = FALSE
  BY DEF Taken, S_NT, W_NT, W_T, S_T
<1> QED
  BY Zenon, <1>1 DEF Bound, Decided, S_NT, W_NT, W_T, S_T

(* Counters of both predictors, in tables of any size and under any trace: *)
(* two equal outcomes decide the next prediction, and after three equal    *)
(* ones a single different outcome does not change it (Train saturates).   *)
THEOREM SettledAlways == HSpec => []Settled
<1>1. HInit => HInv
  BY Zenon, HInitInv
<1>2. HInv /\ [HNext]_hvars => HInv'
  BY Zenon, HStepInv
<1>3. HInv => Settled
  BY Zenon, BoundSettles
<1> QED
  BY <1>1, <1>2, <1>3, PTL DEF HSpec
-----------------------------------------------------------------------------
(* A counter stays within its two bits. *)
LEMMA TrainType ==
  ASSUME NEW cnt \in Counter, NEW d \in BOOLEAN
  PROVE  Train(cnt, d) \in Counter
BY DEF Train, Counter, S_NT, W_NT, W_T, S_T

(* A branch keeps the tables of both predictors well typed. *)
LEMMA TypeStep == TypeOK /\ [Next]_vars => TypeOK'
<1> SUFFICES ASSUME TypeOK, [Next]_vars PROVE TypeOK'
  BY Zenon
<1>1. CASE UNCHANGED vars
  BY Zenon, <1>1 DEF vars, TypeOK
<1>2. CASE Next
  <2>1. PICK pc \in PC, d \in BOOLEAN : Branch(pc, d)
    BY Zenon, <1>2 DEF Next
  <2> DEFINE s == Sat(pc)
             c == Col(pc)
             r == Reg(pc)
             h == Two_level_BHT[r]
  <2>2. s \in SatIndex /\ c \in Column /\ r \in Register
    BY Zenon, Indices
  <2>3. /\ Two_bit_sat_PHT' = [Two_bit_sat_PHT EXCEPT ![s] = Train(@, d)]
        /\ Two_level_PHT' = [Two_level_PHT EXCEPT ![c][h] = Train(@, d)]
        /\ Two_level_BHT' = [Two_level_BHT EXCEPT ![r] = Shifted(@, d)]
    BY Zenon, <2>1 DEF Branch, UpdatePredictor_2bitsat, UpdatePredictor_2level
  <2> HIDE DEF s, c, r
  <2>4. Two_bit_sat_PHT[s] \in Counter /\ h \in History
    BY Zenon, <2>2 DEF TypeOK
  <2>5. Two_level_PHT[c][h] \in Counter
    BY Zenon, <2>2, <2>4 DEF TypeOK
  <2>6. /\ Train(Two_bit_sat_PHT[s], d) \in Counter /\ Shifted(h, d) \in History
        /\ Train(Two_level_PHT[c][h], d) \in Counter
    BY Zenon, <2>4, <2>5, TrainType, ShiftedType
  <2> QED
    BY Zenon, <2>2, <2>3, <2>4, <2>6 DEF TypeOK
<1> QED
  BY Zenon, <1>1, <1>2

(* Whatever branches the trace has, no counter leaves its two bits and no  *)
(* history register its width, so every index that GetPrediction and       *)
(* UpdatePredictor compute is within its table, for tables of any size.    *)
THEOREM TablesTyped == Spec => []TypeOK
<1>1. Init => TypeOK
  BY PredictorsAssumption DEF Init, TypeOK, Counter, History, S_NT, W_NT, W_T, S_T
<1>2. TypeOK /\ [Next]_vars => TypeOK'
  BY Zenon, TypeStep
<1> QED
  BY <1>1, <1>2, PTL DEF Spec
=============================================================================
