SPECIFICATION FairSpec
CONSTANTS
  c1 = c1
  t1 = t1
  Connections = {c1}
  Tokens = {t1}
  Words <- MCWords
  Number <- MCNumber
  Overflow = Overflow
  Invalid = Invalid
  None = None
  DirectStrings <- MCDirect
  PooledStrings <- MCPooled
  Typed <- MCTyped
  Completions = {"noprompt", "complete"}
  Memory = {TRUE, FALSE}
  CancelPolls = FALSE
  MaxPoolId = 2
INVARIANTS TypeOK OpenReachesItsServer PoolPerServer PooledServeTheirPool
PROPERTIES HandedOverAsRequested ConnectAnswered
