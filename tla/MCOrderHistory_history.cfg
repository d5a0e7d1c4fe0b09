SPECIFICATION Spec
CONSTANTS
  Orders <- MCOrders
  Searches <- MCSearches
  Hits <- MCHits
  SortFields = {"order_id", "product_name", "shipped_status"}
  SortOrders = {"asc", "desc"}
  NameRank <- MCNameRank
  PageSizes = {1, 2}
  FirstView <- MCFirstView
  NoRows = noRows
  MaxFetches = 2
CHECK_DEADLOCK FALSE
INVARIANTS
  TypeOK
  HistoryShowsViewUnlessOvertaken
  RowsWithinTotal
  FullPageIsComplete
  LoadingHasRequest
PROPERTY
  StatusGoesBackOnlyWhenCrossed
