SPECIFICATION FairSpec
CONSTANTS
  r1 = r1  r2 = r2  r3 = r3
  Workers = {w1, w2}
  Requests = {r1, r2}
  Malformed = {r2}
  TeamOf <- OwnTeams
  MaxFaults = 1
CHECK_DEADLOCK FALSE
PROPERTY
  EveryRequestGetsResult
