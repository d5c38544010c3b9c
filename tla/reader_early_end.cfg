SPECIFICATION MCSpec
CONSTANTS
  MaxRows <- MCMaxRows
  FETCH_SIZE <- MCFetchSize
  OPTIMAL_RESPONSE_SIZE_IN_BYTES <- MCOptimalBytes
  RowBytes <- MCRowBytes
  MaxFailures = 0
  LostReplies = FALSE
  Modes = {FALSE}
  Teardowns = {"destructor"}
INVARIANT EndIsComplete
