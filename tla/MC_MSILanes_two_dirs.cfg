SPECIFICATION Spec
CONSTANTS
  Cache = {c1, c2, c3}
  Dir = dir
  Value = {v0}
  InitValue = v0
  ReqType = {"ST"}
  SendEvictions = FALSE
  UseMap = FALSE
  AccessPhysMem = FALSE
  OneDirectory = FALSE
  MaxEvents = 6
SYMMETRY CacheSymmetry
CHECK_DEADLOCK FALSE
INVARIANTS
  NoDeadlock
