SPECIFICATION Spec
CONSTANTS
    Limit = 2
    Types = {"s3_bucket_missing_versioning"}
    Scans = {j1, j2}
    MaxBusy = 1
    CloudOps <- InTime
    MaxCloudOps = 3
    Runs = {x1}
    Workers = {w1, w2}
    RunOps <- RunsAll
    MaxRunOps = 3
SYMMETRY Symmetry
INVARIANTS WithinAllowance OpenIsReported EnrichedIsStored
CHECK_DEADLOCK FALSE
