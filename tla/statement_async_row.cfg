SPECIFICATION Spec
CONSTANTS
  Queries <- MCQueries
  Local <- MCLocal
  RowCount <- MCRowCount
  FrameSize = 2
  Columns <- MCColumns
  Modes = {TRUE}
  MaxOpened = 1
  MaxFailures = 0
INVARIANT BoundColumnsCurrent

