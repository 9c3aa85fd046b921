SPECIFICATION Spec
CONSTANTS
    Deliveries = {d1, d2}
    Fetched = FALSE
    Ops <- OpsAll
    MaxOps = 6
SYMMETRY Symmetry
INVARIANTS ChangesAreKept RecordIsReal
 
CHECK_DEADLOCK FALSE
