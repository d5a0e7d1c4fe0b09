SPECIFICATION Spec
CONSTANTS
  Products <- MCProducts
  Searches <- MCSearches
  Hits <- MCHits
  SortFields <- MCSortFields
  SortOrders = {"asc"}
  Key <- MCKey
  PageSizes = {1, 2}
  FirstView <- MCFirstView
  NoRows = noRows
  MaxFetches = 3
  MaxEntries = 2
  MaxPosts = 2
CHECK_DEADLOCK FALSE
INVARIANTS
  TypeOK
  GridShowsViewUnlessOvertaken
  PagesSplitTheHits
  OrderedTwiceOnlyByResending
  VanishedOnlyByAnotherOrder
