SPECIFICATION Spec
CONSTANTS
  Characters <- MCCharacters
  Streams <- MCStreams
  Datasets <- MCDatasets
  OtherTables <- MCOtherTables
  QueryColumns <- MCQueryColumns
  QueryRows <- MCQueryRows
  Bindings <- MCBindings
  TwoBytes = {"e"}
  LONG_MAX = 99
  MaxChanges = 3
  MaxCalls = 4
INVARIANTS TypeOK TablesResolve CellsDescribed
CHECK_DEADLOCK FALSE
