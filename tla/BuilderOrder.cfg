SPECIFICATION Spec
CONSTANTS
  b1 = b1  t1 = t1  s1 = s1  x1 = x1  x2 = x2  x3 = x3
  Buys = {b1}
  Tps = {t1}
  Sls = {s1}
  Parent <- MCParent
  Conditional = {t1, s1}
  Ttl = {b1}
  Workers = {hk, ws}
  Housekeepers = {hk}
  ExIds = {x1, x2}
  Full = 2
  Faults = {"crash", "error", "lost_ack", "blind"}
  NoEx = NoEx
  NoRow = NoRow
SYMMETRY MCSymmetry
INVARIANTS LiveIsTracked FillIsAccounted FiredOnce FiredIsFilled EntryIsProtected
CHECK_DEADLOCK FALSE
