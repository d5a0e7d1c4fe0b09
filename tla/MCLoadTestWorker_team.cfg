SPECIFICATION Spec
CONSTANTS
  r1 = r1  r2 = r2  r3 = r3
  Workers = {w1, w2}
  Requests = {r1, r2}
  Malformed = {}
  TeamOf <- OneTeam
  MaxFaults = 2
SYMMETRY SiblingSymmetry
CHECK_DEADLOCK FALSE
INVARIANTS
  TypeOK
  OverlapOnlyAfterOverrunOrLostMark
  RetestedOnlyAfterFaultOrOverrun
  FinishedHasScore
  GoneIsTraced
  FailureLeavesOneBlocking
