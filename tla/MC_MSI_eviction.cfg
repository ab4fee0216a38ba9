SPECIFICATION Spec
CONSTANTS
  Cache = {c1, c2}
  Dir = dir
  Value = {v0}
  InitValue = v0
  ReqType = {"LD", "ST"}
  SendEvictions = TRUE
  UseMap = TRUE
  AccessPhysMem = TRUE
INVARIANT
  EvictionSent
