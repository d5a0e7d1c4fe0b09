SPECIFICATION Spec
CONSTANTS
  Orders <- MCOrders
  Searches <- MCSearches
  Hits <- MCHits
  SortFields = {"order_id"}
  SortOrders = {"desc"}
  NameRank <- MCNameRank
  PageSizes = {1, 2}
  FirstView <- MCFirstView
  NoRows = noRows
  MaxFetches = 2
CHECK_DEADLOCK FALSE
INVARIANT
  GridShowsNamedPage
