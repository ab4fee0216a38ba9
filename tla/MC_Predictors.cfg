SPECIFICATION Spec
CONSTANTS
  PC <- AllPCs
  TWO_BIT_SAT_SIZE = 1
  TWO_LEVEL_COLUMNS = 2
  TWO_LEVEL_BHT_SIZE = 2
  TWO_LEVEL_HISTORIES = 2
INVARIANT TypeOK
PROPERTY SteadyColumnLearned
