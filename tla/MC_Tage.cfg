SPECIFICATION MCSpec
CONSTANTS
  PC = {1, 6}
  TWO_BIT_SAT_SIZE = 1
  TWO_LEVEL_COLUMNS = 2
  TWO_LEVEL_BHT_SIZE = 1
  TWO_LEVEL_HISTORIES = 2
  INT_WIDTH = 4
  HISTORY_WIDTH = 8
  BHT_IDX_SIZE = 1
  BASE_IDX_SIZE = 1
  TAGE_IDX_SIZE = 2
  BASE_CNT_SIZE = 2
  TAGE_CNT_SIZE = 2
  TAGE_U_SIZE = 2
  BIAS_SIZE = 2
  TAGE_TAG_SIZE = 3
  NUM_TAGE_PHT = 3
  CYC_RST_U = 5
  MaxFree = 5
INVARIANTS
  AllTypesOK
  Settled
PROPERTIES
  UsefulKept
  SteadyLearned
