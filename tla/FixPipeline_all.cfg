SPECIFICATION FairSweep
CONSTANTS
  Files = {f1}
  RepoBranch = repo
  NoPr = NoPr
  Jobs = {j1, j2, j3}
  Batches = {k1, k2}
  NoBatch = NoBatch
  AutoFix = TRUE
  MaxOps = 3
  Ops <- OpKinds
INVARIANTS  DeliveredIsBacked
PROPERTIES InFlightEnds 
CHECK_DEADLOCK FALSE
