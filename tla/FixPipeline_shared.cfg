SPECIFICATION Spec
CONSTANTS
  Files = {f1, f2}
  RepoBranch = repo
  NoPr = NoPr
  Jobs = {j1, j2, j3}
  Batches = {k1, k2}
  NoBatch = NoBatch
  AutoFix = TRUE
  MaxOps = 3
  Ops <- OpsOwned
SYMMETRY Symmetry
INVARIANTS  LandedIsMerged ClosedIsWithdrawn BatchNotEarly
 
CHECK_DEADLOCK FALSE
