CONSTANTS
  j1 = j1
  j2 = j2
  s1 = s1
  s2 = s2
  t1 = t1
  t2 = t2
  Jobs = {j1, j2}
  Services = {s1, s2}
  NoUser = NoUser
  SafeJobs <- FirstsSafe
  WalletJobs <- NoRows
  Modes = {{s1}, {s2}}
  BatchSize <- Two
  BatchMax = 2
  MaxAttempts = 2
  TxIds = {t1, t2}
  NoTx = NoTx
  CanFail = TRUE
SPECIFICATION Spec
SYMMETRY Symmetry
INVARIANTS AttemptsLeft HashIsOwn ClaimedIsRedeemed InflightBound
PROPERTY ClaimedIsFinal
CHECK_DEADLOCK FALSE
