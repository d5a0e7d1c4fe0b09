SPECIFICATION EdgeFairSpec
CONSTANTS
  Calls = {c1, c2}
  Robots = {r1}
  Shoppers = {s1}
  Nobody = nobody
  light = light
  heavy = heavy
  Products <- MCProducts
  NoProduct = noProduct
  Weight <- MCWeight
  Value <- MCValue
  Requests <- EdgeBaskets
  Capacities <- OneRobotSize
  NoPlan = noPlan
  MaxOrders = 2
  MaxFaults = 2
  FaultKinds = {"fail", "crash"}
INVARIANT
  EdgePlansAreClaimed
PROPERTIES
  TakesInOnlyRacedRepeats
  ImplementsLifecycle
  DeliveredBehindEdge
  RepeatsEnd
