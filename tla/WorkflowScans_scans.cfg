SPECIFICATION Spec
CONSTANTS
  a = a
  b = b
  r = r
  s = s
  Files = {f1, f2}
  Contents = {a, b}
  Gone = gone
  Rules = {r, s}
  Reports <- ReportsDisjoint
  Tasks = {t1, t2}
  Limit = 2
  MaxRetries = 1
  MaxAuto = 2
  MaxOps = 2
  Ops <- OpsInTime
SYMMETRY Symmetry
INVARIANTS OneRun FreshAgrees DeletedIsQuiet
 
CHECK_DEADLOCK FALSE
