SPECIFICATION FairSpec
CONSTANTS
  b1 = b1  t1 = t1  s1 = s1  x1 = x1  x2 = x2  x3 = x3
  Buys = {b1}
  Tps = {t1}
  Sls = {s1}
  Parent <- MCParent
  Conditional = {t1, s1}
  Ttl = {}
  Workers = {hk, ws}
  Housekeepers = {hk}
  ExIds = {x1, x2}
  Full = 1
  Faults = {}
  NoEx = NoEx
  NoRow = NoRow
PROPERTY StopLossWins
CHECK_DEADLOCK FALSE
