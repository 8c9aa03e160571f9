SPECIFICATION FairClaims
CONSTANTS
  s1 = s1
  s2 = s2
  MaxVersions = 2
  MaxRuns = 5
  Steps = {s1, s2}
  Pairs = {s1}
  Faults = {"error", "crash"}
  NoStep = NoStep
INVARIANTS AtMostOnce StoppedHasNoOrders
PROPERTIES RunFollowsPublish StepsEnd StopEndsRuns
