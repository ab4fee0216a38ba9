SPECIFICATION Spec
CONSTANTS
  sim_num_insn = 4
  Reg <- MC_Reg
  Programs <- MC_All
  INSTR_TRACE_SIZE = 16384
  INSTR_QUEUE_SIZE = 2
  RESERV_SIZE <- MC_Reserv
  FU_SIZE <- MC_Fu
  FU_LATENCY <- MC_Latency
INVARIANTS
  TypeOK
  RAWResolved
  OldestStartsFirst
  OldestBroadcastsFirst
  Occupancy
  AllAccountedFor
  NeverSlower
PROPERTIES
  IsDataflow
