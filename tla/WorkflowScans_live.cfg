SPECIFICATION Live
CONSTANTS
  a = a
  b = b
  r = r
  s = s
  Files = {f1}
  Contents = {a}
  Gone = gone
  Rules = {r, s}
  Reports <- ReportsOne
  Tasks = {t1, t2}
  Limit = 1
  MaxRetries = 1
  MaxAuto = 0
  MaxOps = 3
  Ops <- OpsLive
PROPERTY CatchesUp
CHECK_DEADLOCK FALSE
