SPECIFICATION FairSpec
CONSTANTS
  m1 = m1
  m2 = m2
  yes = yes
  no = no
  e1 = e1
  e2 = e2
  e3 = e3
  Markets = {m1, m2}
  Outcomes = {yes}
  Levels = 1
  ExIds = {e1, e2}
  MaxErrors = 2
  Faults = {"error", "crash", "lost_ack"}
  NoMarket = NoMarket
  NoEx = NoEx
  NoLeg = NoLeg
INVARIANTS SubmittedNamesOrder FilledIsMatched BoughtOncePerVisit
PROPERTY GivesUp
CHECK_DEADLOCK FALSE
