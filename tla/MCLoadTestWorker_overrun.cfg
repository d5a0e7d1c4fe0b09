SPECIFICATION Spec
CONSTANTS
  r1 = r1  r2 = r2  r3 = r3
  Workers = {w1, w2}
  Requests = {r1}
  Malformed = {}
  TeamOf <- OneTeam
  MaxFaults = 0
CHECK_DEADLOCK FALSE
INVARIANT
  OneTestPerMachine
