SPECIFICATION FairSpec
CONSTANTS
  s1 = s1
  s2 = s2
  Statements = {s1, s2}
  Texts <- MCTexts
  SelectOne = {"select 1"}
  Malformed = {"huge"}
  HavingCount = {"query", "huge"}
  ServerStatuses = {"FINISHED", "ERROR", "CLOSED"}
  Length <- MCLength
  MaxCalls = 3
  MaxFailures = 1
INVARIANTS TypeOK QueriesAsRequested ErrorsExplained
PROPERTY CallsReturn
CHECK_DEADLOCK FALSE
