SPECIFICATION FairSpec
CONSTANTS
  r1 = r1  r2 = r2  r3 = r3
  Workers = {w1}
  Requests = {r1, r2}
  Malformed = {}
  TeamOf <- OneTeam
  MaxFaults = 0
CHECK_DEADLOCK FALSE
PROPERTY
  SkipMakesWay
