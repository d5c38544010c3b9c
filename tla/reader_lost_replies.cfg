SPECIFICATION MCSpec
CONSTANTS
  MaxRows <- MCMaxRows
  FETCH_SIZE <- MCFetchSize
  OPTIMAL_RESPONSE_SIZE_IN_BYTES <- MCOptimalBytes
  RowBytes <- MCAnyRowBytes
  MaxFailures = 2
  LostReplies = TRUE
  Modes = {TRUE, FALSE}
  Teardowns = {"destructor", "reset"}
INVARIANTS DeliveredIncreasing CacheBounded
