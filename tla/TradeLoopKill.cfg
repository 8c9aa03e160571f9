SPECIFICATION Spec
CONSTANTS
  Configs <- MCKilled
  MaxIter = 2
  MaxLevels = 1
  MaxOpenOrders = 3
  MaxOrders = 3
  Reasons = {"pressure_exit", "basket_sl"}
  TpPrices = {"p1"}
INVARIANT KillSwitchHolds
CHECK_DEADLOCK FALSE
