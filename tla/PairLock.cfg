SPECIFICATION FairSpec
CONSTANTS
  Configs <- MCConfigs
  MaxQty = 2
INVARIANTS CounterNeedsLead UnwindSparesLock HedgeFits
 
CHECK_DEADLOCK FALSE
