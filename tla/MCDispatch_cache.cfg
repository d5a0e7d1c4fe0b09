SPECIFICATION Spec
CONSTANTS
  Calls = {c1, c2, c3}
  Robots = {r1, r2}
  Shoppers = {s1}
  Nobody = nobody
  light = light
  heavy = heavy
  Products <- MCProducts
  NoProduct = noProduct
  Weight <- MCWeight
  Value <- MCValue
  Requests <- PairBaskets
  Capacities <- OneRobotSize
  NoPlan = noPlan
  MaxOrders = 2
  MaxFaults = 1
  FaultKinds = {"leave", "fail", "crash"}
SYMMETRY Symmetry
INVARIANTS
  TypeOK
  CachedPlansAreClaimed
  CacheMissesOnlyRacedOrders
  CacheRepeatsOnlyRacedOrders
  PlansFitCapacity
PROPERTIES
  CompletionUndoneOnlyByRacingPlan
  OrdersDroppedOnlyByFault
