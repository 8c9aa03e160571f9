SPECIFICATION LiveSpec
CONSTANTS
  NMarkets = 2
  NOutcomes = 2
  MaxAttempts = 1
  Configs <- MCConfigs
INVARIANTS TypeOK EntriesHaveKeys EntriesBounded OneHolder
PROPERTY LockEnds
CHECK_DEADLOCK FALSE
