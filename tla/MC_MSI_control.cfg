SPECIFICATION Spec
CONSTANTS
  Cache = {c1, c2, c3}
  Dir = dir
  Value = {v0}
  InitValue = v0
  ReqType = {"LD", "ST"}
  SendEvictions = FALSE
  UseMap = FALSE
  AccessPhysMem = FALSE
SYMMETRY CacheSymmetry
INVARIANTS
  SWMR
  NoInvalidTransition
  DirAssertions
  SequencerAsserts
  OneCarrier
  AckConservation
  Coherent
