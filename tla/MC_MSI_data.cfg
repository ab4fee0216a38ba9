SPECIFICATION FairSpec
CONSTANTS
  Cache = {c1, c2}
  Dir = dir
  Value = {v0, v1}
  InitValue = v0
  ReqType = {"LD", "ST"}
  SendEvictions = FALSE
  UseMap = FALSE
  AccessPhysMem = FALSE
INVARIANTS
  TypeOK
  DataValue
  Fresh
PROPERTIES
  SerialSpec
  RequestServed
  WritebackCompletes
