SPECIFICATION Spec
CONSTANTS
  Calls = {c1, c2, c3}
  Robots = {r1, r2}
  Shoppers = {s1}
  Nobody = nobody
  light = light
  heavy = heavy
  Products <- MCProducts
  NoProduct = noProduct
  Weight <- MCWeight
  Value <- MCValue
  Requests <- SingleBaskets
  Capacities <- OneRobotSize
  NoPlan = noPlan
  MaxOrders = 1
  MaxFaults = 0
  FaultKinds = {}
PROPERTY
  CompletedIsFinal
