SPECIFICATION MCFairSpec
CONSTANTS
  MaxRows <- MCMaxRows
  FETCH_SIZE <- MCFetchSize
  OPTIMAL_RESPONSE_SIZE_IN_BYTES <- MCOptimalBytes
  RowBytes <- MCRowBytes
  MaxFailures = 2
  LostReplies = FALSE
  Modes = {TRUE, FALSE}
  Teardowns = {"destructor"}
INVARIANTS TypeOK UndefinedOnlyAfterError CurrentRowStable
PROPERTIES ImplementsStream ImplementsPrefixStream ErrorIsFinal ReadReturns
