SPECIFICATION Spec
CONSTANTS
  Cache = {c1, c2}
  Dir = dir
  Value = {v0}
  InitValue = v0
  ReqType = {"LD", "LL", "SC"}
  SendEvictions = FALSE
  UseMap = TRUE
  AccessPhysMem = TRUE
PROPERTY
  SCAtomic
