SPECIFICATION Spec
CONSTANTS
  Catalogues <- MCCatalogues
  Capacities <- MCCapacities
  MaxCount = 4
CHECK_DEADLOCK FALSE
INVARIANTS
  TypeOK
  CellsAreBest
  PlanIsBest
  EveryCountCanBeChosen
