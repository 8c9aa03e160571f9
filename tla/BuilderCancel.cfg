SPECIFICATION Spec
CONSTANTS
  b1 = b1  t1 = t1  s1 = s1  x1 = x1  x2 = x2  x3 = x3
  Buys = {b1}
  Tps = {}
  Sls = {s1}
  Parent <- MCParent
  Conditional = {s1}
  Ttl = {}
  Workers = {hk, ws}
  Housekeepers = {hk}
  ExIds = {x1, x2, x3}
  Full = 1
  Faults = {"user", "lost_ack"}
  NoEx = NoEx
  NoRow = NoRow
INVARIANT OneLivePerRow
PROPERTY CanceledStaysOff
CHECK_DEADLOCK FALSE
