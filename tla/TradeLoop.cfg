SPECIFICATION FairSpec
CONSTANTS
  Configs <- MCConfigs
  MaxIter = 3
  MaxLevels = 1
  MaxOpenOrders = 3
  MaxOrders = 3
  Reasons = {"pressure_exit", "basket_sl"}
  TpPrices = {"p1"}
INVARIANTS TypeOK HaltSweeps FillsCountOnce SellsAreKeyed DcaBudget
PROPERTIES LifecycleSpec CycleEnds
CHECK_DEADLOCK FALSE
