-------------------------------- MODULE Tage --------------------------------
(***************************************************************************)
(* The open-ended predictor of Lab2/cbp4-assign2/predictor.cc, a TAGE      *)
(* predictor: a base table of counters, and banks of tagged entries whose  *)
(* index and tag hash the branch address with its history.  The variables  *)
(* lh_* and alt_* that carry the result of the look-up to the update are   *)
(* definitions here.                                                       *)
(*                                                                         *)
(* The module also has the loop of main.cc: for each conditional branch of *)
(* the trace all three predictors predict, and then all three are updated. *)
(*                                                                         *)
(* Banks are numbered from 0, -1 is the base table.                        *)
(***************************************************************************)
EXTENDS PredictorOutcomes, Bitwise, SequencesExt

CONSTANTS
  INT_WIDTH,        \* width of an int, and of an address (32)
  HISTORY_WIDTH,    \* width of a history register (128)
  BHT_IDX_SIZE,     \* index widths, in bits, of the history registers (1),
  BASE_IDX_SIZE,    \*   the base table (9)
  TAGE_IDX_SIZE,    \*   and a bank (10)
  BASE_CNT_SIZE,    \* widths of the counters (4)
  TAGE_CNT_SIZE,    \*   (3)
  TAGE_U_SIZE,      \*   (2)
  BIAS_SIZE,        \*   (6)
  TAGE_TAG_SIZE,    \* width of a tag (11)
  NUM_TAGE_PHT,     \* number of banks (7)
  CYC_RST_U         \* predictions between two weakenings of the entries

Bank == 0 .. (NUM_TAGE_PHT - 1)
Base == -1
MASK_OF_SIZE(size) == 2^size - 1

VARIABLES
  wide,        \* the value of MASK_OF_SIZE for a size the shift cannot do
  BHT, BASE_PHT, TAGE_PHT, use_alt, num_prediction_made,
  openend      \* the last branch here: its prediction, and whether it weakened

tageVars == <<hvars, wide, BHT, BASE_PHT, TAGE_PHT, use_alt, num_prediction_made, openend>>

-----------------------------------------------------------------------------
(* Saturating counters *)

WEAK_TAKEN(size) == 2^(size - 1)
WEAK_NOT_TAKEN(size) == WEAK_TAKEN(size) - 1
LOW_CONFIDENCE(cnt, size) == cnt \in {WEAK_TAKEN(size), WEAK_NOT_TAKEN(size)}
MAPPING_RESULT(prediction, size) == prediction \div 2^(size - 1) = 1
INC_SAT_CNT(cnt, size) == IF cnt = MASK_OF_SIZE(size) THEN cnt ELSE cnt + 1
DEC_SAT_CNT(cnt) == IF cnt = 0 THEN cnt ELSE cnt - 1
Trained(cnt, size, up) == IF up THEN INC_SAT_CNT(cnt, size) ELSE DEC_SAT_CNT(cnt)

-----------------------------------------------------------------------------
(* Hashing *)

(* The masked value.  MASK_OF_SIZE shifts an int: from its width on the    *)
(* shift is undefined, and a build yields the mask 0 (the processor takes  *)
(* the count modulo 32) or all ones (the compiler folds the shift to 0).   *)
Masked(value, size, w) ==
  IF size < INT_WIDTH THEN value % 2^size ELSE IF w = "zero" THEN 0 ELSE value

(* The first part is cut from the value before it is masked to size. *)
folded_xor(value, size, targ_size, w) ==
  LET rest == IF size < HISTORY_WIDTH THEN Masked(value, size, w) ELSE value
      parts == [k \in 1 .. ((size - 1) \div targ_size) |->
                  (rest \div 2^(targ_size * k)) % 2^targ_size]
  IN FoldLeft(LAMBDA x, y : x ^^ y, value % 2^targ_size, parts)

HistoryLength(b) == 2 * 2^b
Xor3(x, y, z) == (x ^^ y) ^^ z

get_tag(pc, history, b, w) ==
  Xor3(folded_xor(pc, INT_WIDTH, TAGE_TAG_SIZE, w),
      folded_xor(history, HistoryLength(b), TAGE_TAG_SIZE, w),
      2 * folded_xor(history, HistoryLength(b), TAGE_TAG_SIZE - 1, w)) % 2^TAGE_TAG_SIZE

get_idx(pc, history, b, w) ==
  Xor3(folded_xor(pc, INT_WIDTH, TAGE_IDX_SIZE, w),
      2 * folded_xor(pc, INT_WIDTH, TAGE_IDX_SIZE - 1, w),
      folded_xor(history, HistoryLength(b), TAGE_IDX_SIZE, w)) % 2^TAGE_IDX_SIZE

(* The hashes of all branches and histories, so that TLC computes each once. *)
Hashes ==
  [w \in {"zero", "ones"} |-> [pc \in PC |-> [b \in Bank |->
     [history \in 0 .. MASK_OF_SIZE(HISTORY_WIDTH) |->
        [idx |-> get_idx(pc, history, b, w), tag |-> get_tag(pc, history, b, w)]]]]]

-----------------------------------------------------------------------------
InitPredictor_openend ==
  /\ wide \in {"zero", "ones"}
  /\ BHT = [r \in 0 .. (2^BHT_IDX_SIZE - 1) |-> 0]
  /\ BASE_PHT = [i \in 0 .. (2^BASE_IDX_SIZE - 1) |-> WEAK_TAKEN(BASE_CNT_SIZE)]
  /\ TAGE_PHT = [b \in Bank |-> [i \in 0 .. (2^TAGE_IDX_SIZE - 1) |->
                   [cnt |-> WEAK_TAKEN(TAGE_CNT_SIZE), tag |-> 0, useful |-> 0]]]
  /\ use_alt = WEAK_NOT_TAKEN(BIAS_SIZE)
  /\ num_prediction_made = 0
  /\ openend = [predDir |-> FALSE, weakened |-> FALSE]

Row(pc) == (pc \div 2) % 2^BHT_IDX_SIZE
BaseIdx(pc) == pc % 2^BASE_IDX_SIZE
Idx(pc, b) == Hashes[wide][pc][b][BHT[Row(pc)]].idx
Tag(pc, b) == Hashes[wide][pc][b][BHT[Row(pc)]].tag
Entry(pc, b) == TAGE_PHT[b][Idx(pc, b)]

Matching(pc) == {b \in Bank : Entry(pc, b).tag = Tag(pc, b)}
LongestOf(banks) == Max(banks \cup {Base})

PredictionOf(pc, b) ==
  IF b = Base THEN MAPPING_RESULT(BASE_PHT[BaseIdx(pc)], BASE_CNT_SIZE)
              ELSE MAPPING_RESULT(Entry(pc, b).cnt, TAGE_CNT_SIZE)

(* The longest match is an entry that has not proved itself yet. *)
Unproven(pc, b) ==
  /\ b # Base
  /\ Entry(pc, b).useful = 0
  /\ LOW_CONFIDENCE(Entry(pc, b).cnt, TAGE_CNT_SIZE)

(* What GetPrediction_openend leaves in lh_*, alt_* and its result. *)
GetPrediction_openend(pc) ==
  LET matching == Matching(pc)
      lh       == LongestOf(matching)
      lhPred   == PredictionOf(pc, lh)
      altPred  == PredictionOf(pc, LongestOf(matching \ {lh}))
      unproven == Unproven(pc, lh)
  IN [lh_PHT_num |-> lh, lh_PHT_idx |-> IF lh = Base THEN BaseIdx(pc) ELSE Idx(pc, lh),
      lh_pred |-> lhPred, alt_pred |-> altPred, unproven |-> unproven,
      predDir |-> IF MAPPING_RESULT(use_alt, BIAS_SIZE) /\ unproven
                    THEN altPred ELSE lhPred]

-----------------------------------------------------------------------------
(* UpdatePredictor_openend changes the banks in four steps, each seeing    *)
(* what the one before it left; g is what the look-up found.               *)

UpdateUseful(phts, g, resolveDir) ==
  IF g.lh_PHT_num = Base \/ g.lh_pred = g.alt_pred THEN phts
  ELSE [phts EXCEPT ![g.lh_PHT_num][g.lh_PHT_idx].useful =
          Trained(@, TAGE_U_SIZE, g.lh_pred = resolveDir)]

(* Mutant: every counter is decremented, without a test for 0. *)
Weaken_decrement(phts) ==
  [b \in Bank |-> [i \in DOMAIN phts[b] |-> [phts[b][i] EXCEPT !.useful = @ - 1]]]

(* Masking with MASK_OF_SIZE - 1 clears the lowest bit. *)
Weaken(phts) ==
  [b \in Bank |-> [i \in DOMAIN phts[b] |->
     [phts[b][i] EXCEPT !.useful = @ - (@ % 2)]]]

(* Mutant: the entry is trained with the prediction, not with the outcome. *)
TrainEntry_predicted(phts, g, resolveDir) ==
  IF g.lh_PHT_num = Base THEN phts
  ELSE [phts EXCEPT ![g.lh_PHT_num][g.lh_PHT_idx].cnt =
          Trained(@, TAGE_CNT_SIZE, g.lh_pred)]

TrainEntry(phts, g, resolveDir) ==
  IF g.lh_PHT_num = Base THEN phts
  ELSE [phts EXCEPT ![g.lh_PHT_num][g.lh_PHT_idx].cnt =
          Trained(@, TAGE_CNT_SIZE, resolveDir)]

(* Mutant: an allocation takes whatever entry it finds. *)
Vacant_any(phts, pc, g, alt) ==
  {b \in Bank : b >= g.lh_PHT_num + 1 + (alt % NUM_TAGE_PHT)}

(* The banks an allocation may use: the search starts at a bank that       *)
(* depends on the bias counter, which has just been updated.               *)
Vacant(phts, pc, g, alt) ==
  {b \in Bank : /\ b >= g.lh_PHT_num + 1 + (alt % NUM_TAGE_PHT)
                /\ phts[b][Idx(pc, b)].useful = 0}

Decay(phts, pc, g) ==
  [b \in Bank |-> IF b > g.lh_PHT_num
                    THEN [phts[b] EXCEPT ![Idx(pc, b)].useful = DEC_SAT_CNT(@)]
                    ELSE phts[b]]

(* The new entry starts as weakly taken, whatever the outcome was. *)
AllocateOrDecay(phts, pc, g, resolveDir, alt) ==
  LET vacant == Vacant(phts, pc, g, alt)
      first  == Min(vacant)
  IN IF g.lh_pred = resolveDir THEN phts
     ELSE IF vacant = {} THEN Decay(phts, pc, g)
     ELSE [phts EXCEPT ![first][Idx(pc, first)].cnt = WEAK_TAKEN(TAGE_CNT_SIZE),
                       ![first][Idx(pc, first)].tag = Tag(pc, first)]

Weakens == num_prediction_made + 1 = CYC_RST_U

Bias(g, resolveDir) ==
  IF g.unproven /\ g.lh_pred # g.alt_pred
    THEN Trained(use_alt, BIAS_SIZE, g.alt_pred = resolveDir) ELSE use_alt

UpdatePredictor_openend(pc, g, resolveDir) ==
  LET alt     == Bias(g, resolveDir)
      useful  == UpdateUseful(TAGE_PHT, g, resolveDir)
      weak    == IF Weakens THEN Weaken(useful) ELSE useful
      trained == TrainEntry(weak, g, resolveDir)
  IN
  /\ num_prediction_made' = IF Weakens THEN 0 ELSE num_prediction_made + 1
  /\ BASE_PHT' = [BASE_PHT EXCEPT ![BaseIdx(pc)] = Trained(@, BASE_CNT_SIZE, resolveDir)]
  /\ use_alt' = alt
  /\ TAGE_PHT' = AllocateOrDecay(trained, pc, g, resolveDir, alt)
  /\ BHT' = [BHT EXCEPT ![Row(pc)] =
               (2 * @ + (IF resolveDir THEN 1 ELSE 0)) % 2^HISTORY_WIDTH]

Openend(pc, resolveDir) ==
  LET g == GetPrediction_openend(pc)
  IN /\ openend' = [predDir |-> g.predDir, weakened |-> Weakens]
     /\ UpdatePredictor_openend(pc, g, resolveDir)
     /\ UNCHANGED wide

(* The loop of main.cc; besides this it only counts mispredictions. *)
TInit == HInit /\ InitPredictor_openend
TBranch(pc, resolveDir) == HBranch(pc, resolveDir) /\ Openend(pc, resolveDir)
TNext == \E pc \in PC, resolveDir \in BOOLEAN : TBranch(pc, resolveDir)

TSpec == TInit /\ [][TNext]_tageVars

-----------------------------------------------------------------------------
(* All counters, histories and tags of the three predictors stay within    *)
(* their widths.                                                           *)
AllTypesOK ==
  /\ TypeOK
  /\ BHT \in [0 .. (2^BHT_IDX_SIZE - 1) -> 0 .. MASK_OF_SIZE(HISTORY_WIDTH)]
  /\ BASE_PHT \in [0 .. (2^BASE_IDX_SIZE - 1) -> 0 .. MASK_OF_SIZE(BASE_CNT_SIZE)]
  /\ TAGE_PHT \in [Bank -> [0 .. (2^TAGE_IDX_SIZE - 1) ->
       [cnt : 0 .. MASK_OF_SIZE(TAGE_CNT_SIZE), tag : 0 .. MASK_OF_SIZE(TAGE_TAG_SIZE),
        useful : 0 .. MASK_OF_SIZE(TAGE_U_SIZE)]]]
  /\ use_alt \in 0 .. MASK_OF_SIZE(BIAS_SIZE)
  /\ num_prediction_made \in 0 .. (CYC_RST_U - 1)

Entries == Bank \X (0 .. (2^TAGE_IDX_SIZE - 1))

(* A useful entry is not thrown out: only a useless one is allocated to    *)
(* another branch, or one that this very update has weakened from 1 to 0   *)
(* (UpdatePredictor_openend weakens before it allocates).                  *)
UsefulKept ==
  [][\A e \in Entries :
       LET old == TAGE_PHT[e[1]][e[2]]
       IN TAGE_PHT'[e[1]][e[2]].tag # old.tag =>
            old.useful = 0 \/ (old.useful = 1 /\ openend'.weakened)]_tageVars

(* Whatever the predictor has gone through, and whichever branches share   *)
(* its entries: once all branches go the same way it misses only finitely  *)
(* often.                                                                  *)
SteadyLearned ==
  \A d \in BOOLEAN :
    <>[][branch'.met => branch'.taken = d]_tageVars =>
      <>[][branch'.met => openend'.predDir = d]_tageVars
=============================================================================
