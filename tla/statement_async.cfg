SPECIFICATION FairSpec
CONSTANTS
  Queries <- MCQueries
  Local <- MCLocal
  RowCount <- MCRowCount
  FrameSize = 2
  Columns <- MCColumns
  Modes = {TRUE, FALSE}
  MaxOpened = 2
  MaxFailures = 1
INVARIANTS TypeOK StateMatchesResources SuccessIsFresh 
PROPERTY CallsAnswered
